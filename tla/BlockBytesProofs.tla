-------------------------- MODULE BlockBytesProofs --------------------------
(***************************************************************************)
(* Proofs about BlockBytes: a node that knows only the schema reads what a *)
(* block's author meant, for every block, table of types, address length,  *)
(* digit size and width of numbers.                                        *)
(*                                                                         *)
(* The argument.  Reads says which fields the schema reads things as, and  *)
(* what is seen of them.  Laid says of a part of a block that its fields   *)
(* are read as its things, that what is seen is what was meant, and that   *)
(* they can be written when nothing is wrong with it.  Parts are laid out  *)
(* one after the other (LaidBoth) and one below the other (LaidThing), so  *)
(* that each serialize() of bcs_types.py has its lemma, up to LaidBlock.   *)
(* Names, digests, pure values and type texts are what is hard below it:   *)
(* the digits of numbers, and brackets and commas of types of any depth.   *)
(* The invariant BlockIInv then follows the node from field to field.      *)
(***************************************************************************)
EXTENDS BlockBytes, BcsProofs

-----------------------------------------------------------------------------
(* Sequences. *)

\* Joining sequences is associative.
Associates(X) == \A a, b, c \in Seq(X) : (a \o b) \o c = a \o (b \o c)

\* It is, whatever they hold.
LEMMA Associative == \A X : Associates(X)
  <1> SUFFICES ASSUME NEW X, NEW a \in Seq(X), NEW b \in Seq(X), NEW c \in Seq(X)
               PROVE  (a \o b) \o c = a \o (b \o c)
    BY DEF Associates
  <1> QED
    BY ConcatAssociative

\* FlattenSeq goes through its sequences from the first to the last.
LEMMA FlattenRecursion ==
  ASSUME NEW X, NEW n \in Nat, NEW ss \in [1 .. n -> Seq(X)]
  PROVE  \E f \in [0 .. n -> Seq(X)] :
           /\ f[0] = << >> /\ \A k \in 1 .. n : f[k] = f[k - 1] \o ss[k]
           /\ FlattenSeq(ss) = f[n]
  <1>1. ss \in Seq(Seq(X)) /\ Len(ss) = n
    BY DEF Seq
  <1>2. CASE n = 0
    <2>1. ss = << >> /\ FlattenSeq(ss) = ss
      BY <1>1, <1>2 DEF FlattenSeq
    <2> DEFINE f == [k \in 0 .. n |-> << >>]
    <2>2. /\ f \in [0 .. n -> Seq(X)] /\ f[0] = << >> /\ FlattenSeq(ss) = f[n]
          /\ \A k \in 1 .. n : FALSE
      BY <1>2, <2>1
    <2> HIDE DEF f
    <2> QED
      BY <2>2
  <1>3. CASE n > 0
    <2> DEFINE Eq(f) == f = [i \in 1 .. Len(ss) |-> IF i = 1 THEN ss[i] ELSE f[i - 1] \o ss[i]]
               F == CHOOSE f : Eq(f)
               step == [p \in Nat \X Seq(X) |-> p[2] \o ss[p[1]]]
    <2>1. ASSUME NEW k \in 1 .. n, NEW s \in Seq(X)
          PROVE  s \o ss[k] \in Seq(X) /\ step[<<k, s>>] = s \o ss[k]
      <3>1. ss[k] \in Seq(X) /\ k \in Nat
        OBVIOUS
      <3>2. step[<<k, s>>] = s \o ss[k]
        BY <3>1
      <3> QED
        BY <3>1, <3>2, ConcatProperties
    <2>2. ss[1] \in Seq(X) /\ 1 \in Int /\ n \in Int /\ 1 <= n
      BY <1>3
    <2> HIDE DEF step
    <2>3. Steps(1, n, Seq(X), ss[1], step)
      BY <2>1, <2>2 DEF Steps
    <2>4. PICK f \in [1 .. n -> Seq(X)] : RecursAlong(f, 1, n, ss[1], step)
      BY <2>3, RecursionAlong
    <2>5. \A k \in 1 .. n : f[k] = IF k = 1 THEN ss[k] ELSE f[k - 1] \o ss[k]
      <3> SUFFICES ASSUME NEW k \in 1 .. n PROVE f[k] = IF k = 1 THEN ss[k] ELSE f[k - 1] \o ss[k]
        OBVIOUS
      <3>1. CASE k = 1
        BY <2>4, <3>1 DEF RecursAlong
      <3>2. CASE k # 1
        <4>1. k - 1 \in 1 .. n
          BY <3>2
        <4>2. f[k] = step[<<k, f[k - 1]>>] /\ f[k - 1] \in Seq(X)
          BY <2>4, <3>2, <4>1 DEF RecursAlong
        <4> QED
          BY <2>1, <3>2, <4>2
      <3> QED
        BY <3>1, <3>2
    <2>6. Eq(f)
      BY <1>1, <2>4, <2>5
    <2>7. Eq(F)
      <3> HIDE DEF Eq
      <3> QED
        BY <2>6
    <2>8. FlattenSeq(ss) = F[n]
      BY <1>1, <1>3 DEF FlattenSeq
    <2> HIDE DEF F
    <2>9. \A k \in 1 .. n : F[k] = IF k = 1 THEN ss[k] ELSE F[k - 1] \o ss[k]
      BY <1>1, <2>7
    <2>10. \A k \in 1 .. n : F[k] \in Seq(X)
      <3> DEFINE S == {k \in 1 .. n : F[k] \in Seq(X)}
      <3>1. 1 \in S
        BY <2>2, <2>9
      <3>2. ASSUME NEW k \in 1 .. n - 1, k \in S PROVE k + 1 \in S
        <4>1. k + 1 \in 1 .. n /\ k + 1 # 1 /\ (k + 1) - 1 = k
          OBVIOUS
        <4>2. F[k + 1] = F[k] \o ss[k + 1]
          BY <2>9, <4>1
        <4> QED
          BY <2>1, <3>2, <4>1, <4>2
      <3>3. 1 .. n \subseteq S
        <4> HIDE DEF S
        <4> QED
          BY <2>2, <3>1, <3>2, InductionAlong
      <3> QED
        BY <3>3
    <2> DEFINE g == [k \in 0 .. n |-> IF k = 0 THEN << >> ELSE F[k]]
    <2>11. g \in [0 .. n -> Seq(X)] /\ g[0] = << >> /\ g[n] = F[n]
      BY <1>3, <2>10
    <2>12. ASSUME NEW k \in 1 .. n PROVE g[k] = g[k - 1] \o ss[k]
      <3>0. k - 1 \in 0 .. n /\ k \in 0 .. n /\ k # 0
        OBVIOUS
      <3>1. CASE k = 1
        <4>1. g[k] = ss[1] /\ g[k - 1] = << >> /\ ss[1] \in Seq(X)
          BY <2>9, <3>1
        <4> QED
          BY <3>1, <4>1, ConcatEmptySeq
      <3>2. CASE k # 1
        <4>1. g[k] = F[k] /\ g[k - 1] = F[k - 1]
          BY <3>2
        <4> QED
          BY <2>9, <3>2, <4>1
      <3> QED
        BY <3>1, <3>2
    <2> HIDE DEF g
    <2> QED
      BY <2>8, <2>11, <2>12
  <1>4. n = 0 \/ n > 0
    OBVIOUS
  <1> QED
    BY <1>2, <1>3, <1>4

\* One sequence more, at the end or at the beginning.
LEMMA FlattenAppend ==
  ASSUME NEW X, NEW n \in Nat, NEW ss \in [1 .. n + 1 -> Seq(X)]
  PROVE  /\ FlattenSeq([k \in 1 .. n |-> ss[k]]) \in Seq(X)
         /\ FlattenSeq(ss) = FlattenSeq([k \in 1 .. n |-> ss[k]]) \o ss[n + 1]
  <1> DEFINE tt == [k \in 1 .. n |-> ss[k]]
  <1>1. tt \in [1 .. n -> Seq(X)] /\ n + 1 \in Nat /\ \A k \in 1 .. n : tt[k] = ss[k]
    OBVIOUS
  <1> HIDE DEF tt
  <1>2. PICK f \in [0 .. n + 1 -> Seq(X)] :
           /\ f[0] = << >> /\ \A k \in 1 .. n + 1 : f[k] = f[k - 1] \o ss[k]
           /\ FlattenSeq(ss) = f[n + 1]
    BY <1>1, FlattenRecursion
  <1>3. PICK g \in [0 .. n -> Seq(X)] :
           /\ g[0] = << >> /\ \A k \in 1 .. n : g[k] = g[k - 1] \o tt[k]
           /\ FlattenSeq(tt) = g[n]
    BY <1>1, FlattenRecursion
  <1>4. f[n] = g[n]
    <2> DEFINE S == {k \in 0 .. n : f[k] = g[k]}
    <2>1. 0 \in S
      BY <1>2, <1>3
    <2>2. ASSUME NEW k \in 0 .. n - 1, k \in S PROVE k + 1 \in S
      <3>1. k + 1 \in 1 .. n /\ k + 1 \in 1 .. n + 1 /\ (k + 1) - 1 = k /\ k + 1 \in 0 .. n
        OBVIOUS
      <3>2. f[k + 1] = f[k] \o ss[k + 1] /\ g[k + 1] = g[k] \o tt[k + 1]
        BY <1>2, <1>3, <3>1
      <3> QED
        BY <1>1, <2>2, <3>1, <3>2
    <2>3. 0 .. n \subseteq S
      <3>1. 0 \in Int /\ n \in Int
        OBVIOUS
      <3> HIDE DEF S
      <3> QED
        BY <2>1, <2>2, <3>1, InductionAlong
    <2> QED
      BY <2>3
  <1>5. f[n + 1] = f[n] \o ss[n + 1]
    <2>1. n + 1 \in 1 .. n + 1 /\ (n + 1) - 1 = n
      OBVIOUS
    <2> QED
      BY <1>2, <2>1
  <1>6. g[n] \in Seq(X)
    BY <1>3
  <1> QED
    BY <1>2, <1>3, <1>4, <1>5, <1>6 DEF tt

\* What sequences are flattened into is one of their elements.
LEMMA FlattenInSeq ==
  ASSUME NEW X, NEW n \in Nat, NEW ss \in [1 .. n -> Seq(X)]
  PROVE  FlattenSeq(ss) \in Seq(X)
  <1>1. PICK f \in [0 .. n -> Seq(X)] :
           /\ f[0] = << >> /\ \A k \in 1 .. n : f[k] = f[k - 1] \o ss[k]
           /\ FlattenSeq(ss) = f[n]
    BY FlattenRecursion
  <1> QED
    BY <1>1

\* A flattened sequence begins with its first part.
LEMMA FlattenFirst ==
  ASSUME NEW X, NEW n \in Nat, NEW ss \in [1 .. n + 1 -> Seq(X)]
  PROVE  FlattenSeq(ss) = ss[1] \o FlattenSeq([k \in 1 .. n |-> ss[k + 1]])
  <1>0. Associates(X)
    BY Associative
  <1> DEFINE tt == [k \in 1 .. n |-> ss[k + 1]]
  <1>1. tt \in [1 .. n -> Seq(X)] /\ n + 1 \in Nat /\ \A k \in 1 .. n : tt[k] = ss[k + 1]
    OBVIOUS
  <1> HIDE DEF tt
  <1>2. PICK f \in [0 .. n + 1 -> Seq(X)] :
           /\ f[0] = << >> /\ \A k \in 1 .. n + 1 : f[k] = f[k - 1] \o ss[k]
           /\ FlattenSeq(ss) = f[n + 1]
    BY <1>1, FlattenRecursion, ZenonT(60)
  <1>3. PICK g \in [0 .. n -> Seq(X)] :
           /\ g[0] = << >> /\ \A k \in 1 .. n : g[k] = g[k - 1] \o tt[k]
           /\ FlattenSeq(tt) = g[n]
    BY <1>1, FlattenRecursion, ZenonT(60)
  <1>4. ss[1] \in Seq(X)
    OBVIOUS
  <1>5. f[n + 1] = ss[1] \o g[n]
    <2> DEFINE S == {k \in 0 .. n : f[k + 1] = ss[1] \o g[k]}
    <2>1. 0 \in S
      <3>1. 1 \in 1 .. n + 1 /\ 1 - 1 = 0 /\ 0 + 1 = 1 /\ 0 \in 0 .. n
        OBVIOUS
      <3>2. f[1] = f[0] \o ss[1]
        BY <1>2, <3>1
      <3>3. << >> \o ss[1] = ss[1] /\ ss[1] \o << >> = ss[1]
        BY <1>4, ConcatEmptySeq
      <3> QED
        BY <1>2, <1>3, <3>1, <3>2, <3>3
    <2>2. ASSUME NEW k \in 0 .. n - 1, k \in S PROVE k + 1 \in S
      <3>1. k + 1 \in 1 .. n /\ k + 2 \in 1 .. n + 1 /\ (k + 1) - 1 = k /\ (k + 2) - 1 = k + 1
            /\ k + 1 \in 0 .. n /\ (k + 1) + 1 = k + 2
        OBVIOUS
      <3>2. f[k + 2] = f[k + 1] \o ss[k + 2] /\ g[k + 1] = g[k] \o tt[k + 1] /\ tt[k + 1] = ss[k + 2]
        BY <1>1, <1>2, <1>3, <3>1
      <3>3. g[k] \in Seq(X) /\ tt[k + 1] \in Seq(X)
        BY <1>1, <3>1
      <3>4. (ss[1] \o g[k]) \o tt[k + 1] = ss[1] \o (g[k] \o tt[k + 1])
        BY <1>0, <1>4, <3>3, Zenon DEF Associates
      <3>5. f[k + 1] = ss[1] \o g[k]
        BY <2>2
      <3> QED
        BY <3>1, <3>2, <3>4, <3>5
    <2>3. 0 .. n \subseteq S
      <3>1. 0 \in Int /\ n \in Int
        OBVIOUS
      <3> HIDE DEF S
      <3> QED
        BY <2>1, <2>2, <3>1, InductionAlong
    <2> QED
      BY <2>3
  <1> QED
    BY <1>2, <1>3, <1>5 DEF tt

\* Sequences put together of single elements.
LEMMA TwoOnes ==
  ASSUME NEW a, NEW b
  PROVE  << a >> \o << b >> = << a, b >>
  <1> DEFINE X == {a, b}
             p == << a >>
             q == << b >>
             t == << a, b >>
  <1>1. p \in Seq(X) /\ q \in Seq(X) /\ Len(p) = 1 /\ Len(q) = 1 /\ p[1] = a /\ q[1] = b
    OBVIOUS
  <1>2. t \in Seq(X) /\ Len(t) = 2 /\ t[1] = a /\ t[2] = b
    OBVIOUS
  <1> HIDE DEF X, p, q, t
  <1>3. /\ p \o q \in Seq(X) /\ Len(p \o q) = 2
        /\ \A i \in 1 .. 2 : (p \o q)[i] = IF i <= 1 THEN p[i] ELSE q[i - 1]
    BY <1>1, ConcatProperties
  <1>4. \A i \in 1 .. 2 : (p \o q)[i] = t[i]
    <2>0. \A i \in 1 .. 2 : i = 1 \/ i = 2
      OBVIOUS
    <2>1. (p \o q)[1] = a /\ (p \o q)[2] = b
      BY <1>1, <1>3
    <2> QED
      BY <1>2, <2>0, <2>1
  <1>5. p \o q = t
    BY <1>2, <1>3, <1>4, SeqEqual
  <1> QED
    BY <1>5 DEF p, q, t

\* The same for longer literals, of the lengths that the layouts have.
LEMMA TwoAndOne ==
  ASSUME NEW a, NEW b, NEW c
  PROVE  << a, b >> \o << c >> = << a, b, c >>
  <1> DEFINE X == {a, b, c}
             p == << a, b >>
             q == << c >>
             t == << a, b, c >>
  <1>1. p \in Seq(X) /\ q \in Seq(X) /\ Len(p) = 2 /\ Len(q) = 1 /\ p[1] = a /\ p[2] = b /\ q[1] = c
    OBVIOUS
  <1>2. t \in Seq(X) /\ Len(t) = 3 /\ t[1] = a /\ t[2] = b /\ t[3] = c
    OBVIOUS
  <1> HIDE DEF X, p, q, t
  <1>3. /\ p \o q \in Seq(X) /\ Len(p \o q) = 3
        /\ \A i \in 1 .. 3 : (p \o q)[i] = IF i <= 2 THEN p[i] ELSE q[i - 2]
    <2>1. /\ p \o q \in Seq(X) /\ Len(p \o q) = Len(p) + Len(q)
          /\ \A i \in 1 .. (Len(p) + Len(q)) : (p \o q)[i] = IF i <= Len(p) THEN p[i] ELSE q[i - Len(p)]
      BY <1>1, ConcatProperties
    <2> QED
      BY ONLY <1>1, <2>1
  <1>4. \A i \in 1 .. 3 : (p \o q)[i] = t[i]
    <2>0. \A i \in 1 .. 3 : i = 1 \/ i = 2 \/ i = 3
      OBVIOUS
    <2>1. (p \o q)[1] = a /\ (p \o q)[2] = b /\ (p \o q)[3] = c
      BY <1>1, <1>3
    <2> QED
      BY <1>2, <2>0, <2>1
  <1>5. p \o q = t
    BY <1>2, <1>3, <1>4, SeqEqual
  <1> QED
    BY <1>5 DEF p, q, t

\* Three literals of one.
LEMMA ThreeOnes ==
  ASSUME NEW a, NEW b, NEW c
  PROVE  (<< a >> \o << b >>) \o << c >> = << a, b, c >>
  <1>1. << a >> \o << b >> = << a, b >>
    BY TwoOnes
  <1>2. << a, b >> \o << c >> = << a, b, c >>
    BY TwoAndOne
  <1> QED
    BY <1>1, <1>2, Zenon

\* A literal of four begins with its first.
LEMMA OneAndThree ==
  ASSUME NEW a, NEW b, NEW c, NEW d
  PROVE  << a, b, c, d >> = << a >> \o << b, c, d >>
  <1> DEFINE X == {a, b, c, d}
             p == << a >>
             q == << b, c, d >>
             t == << a, b, c, d >>
  <1>1. p \in Seq(X) /\ q \in Seq(X) /\ Len(p) = 1 /\ Len(q) = 3 /\ p[1] = a /\ q[1] = b /\ q[2] = c /\ q[3] = d
    OBVIOUS
  <1>2. t \in Seq(X) /\ Len(t) = 4 /\ t[1] = a /\ t[2] = b /\ t[3] = c /\ t[4] = d
    OBVIOUS
  <1> HIDE DEF X, p, q, t
  <1>3. /\ p \o q \in Seq(X) /\ Len(p \o q) = 4
        /\ \A i \in 1 .. 4 : (p \o q)[i] = IF i <= 1 THEN p[i] ELSE q[i - 1]
    <2>1. /\ p \o q \in Seq(X) /\ Len(p \o q) = Len(p) + Len(q)
          /\ \A i \in 1 .. Len(p) + Len(q) : (p \o q)[i] = IF i <= Len(p) THEN p[i] ELSE q[i - Len(p)]
      BY <1>1, ConcatProperties
    <2>2. Len(p) + Len(q) = 4 /\ Len(p) = 1
      BY <1>1
    <2> QED
      BY <2>1, <2>2
  <1>4. \A i \in 1 .. 4 : (p \o q)[i] = t[i]
    <2>0. \A i \in 1 .. 4 : i = 1 \/ i = 2 \/ i = 3 \/ i = 4
      OBVIOUS
    <2>1. (p \o q)[1] = a /\ (p \o q)[2] = b /\ (p \o q)[3] = c /\ (p \o q)[4] = d
      BY <1>1, <1>3
    <2> QED
      BY <1>2, <2>0, <2>1
  <1>5. p \o q = t
    BY <1>2, <1>3, <1>4, SeqEqual
  <1> QED
    BY <1>5 DEF p, q, t

\* A literal of three and two of one.
LEMMA FiveOnes ==
  ASSUME NEW a, NEW b, NEW c, NEW d, NEW e
  PROVE  (<< a, b, c >> \o << d >>) \o << e >> = << a, b, c, d, e >>
  <1> DEFINE X == {a, b, c, d, e}
             p == << a, b, c >>
             q == << d >>
             r == << e >>
             t == << a, b, c, d, e >>
             u == p \o q
  <1>1. /\ p \in Seq(X) /\ Len(p) = 3 /\ p[1] = a /\ p[2] = b /\ p[3] = c
        /\ q \in Seq(X) /\ Len(q) = 1 /\ q[1] = d /\ r \in Seq(X) /\ Len(r) = 1 /\ r[1] = e
    OBVIOUS
  <1>2. t \in Seq(X) /\ Len(t) = 5 /\ t[1] = a /\ t[2] = b /\ t[3] = c /\ t[4] = d /\ t[5] = e
    OBVIOUS
  <1> HIDE DEF X, p, q, r, t
  <1>3. /\ u \in Seq(X) /\ Len(u) = 4
        /\ \A i \in 1 .. 4 : u[i] = IF i <= 3 THEN p[i] ELSE q[i - 3]
    <2>1. /\ u \in Seq(X) /\ Len(u) = Len(p) + Len(q)
          /\ \A i \in 1 .. Len(p) + Len(q) : u[i] = IF i <= Len(p) THEN p[i] ELSE q[i - Len(p)]
      BY <1>1, ConcatProperties
    <2>2. Len(p) + Len(q) = 4 /\ Len(p) = 3
      BY <1>1
    <2> QED
      BY <2>1, <2>2
  <1> HIDE DEF u
  <1>4. /\ u \o r \in Seq(X) /\ Len(u \o r) = 5
        /\ \A i \in 1 .. 5 : (u \o r)[i] = IF i <= 4 THEN u[i] ELSE r[i - 4]
    <2>1. /\ u \o r \in Seq(X) /\ Len(u \o r) = Len(u) + Len(r)
          /\ \A i \in 1 .. Len(u) + Len(r) : (u \o r)[i] = IF i <= Len(u) THEN u[i] ELSE r[i - Len(u)]
      BY <1>1, <1>3, ConcatProperties
    <2>2. Len(u) + Len(r) = 5 /\ Len(u) = 4
      BY <1>1, <1>3
    <2> QED
      BY <2>1, <2>2
  <1>5. \A i \in 1 .. 5 : (u \o r)[i] = t[i]
    <2>0. \A i \in 1 .. 5 : i = 1 \/ i = 2 \/ i = 3 \/ i = 4 \/ i = 5
      OBVIOUS
    <2>1. u[1] = a /\ u[2] = b /\ u[3] = c /\ u[4] = d
      BY <1>1, <1>3
    <2>2. (u \o r)[1] = a /\ (u \o r)[2] = b /\ (u \o r)[3] = c /\ (u \o r)[4] = d /\ (u \o r)[5] = e
      BY <1>1, <1>4, <2>1
    <2> QED
      BY <1>2, <2>0, <2>2
  <1>6. u \o r = t
    BY <1>2, <1>4, <1>5, SeqEqual
  <1> QED
    BY <1>6 DEF p, q, r, t, u

\* A sequence of one element and more.
LEMMA HeadOfOne ==
  ASSUME NEW X, NEW x \in X, NEW s \in Seq(X)
  PROVE  /\ << x >> \o s \in Seq(X) /\ << x >> \o s # << >>
         /\ Head(<< x >> \o s) = x /\ Tail(<< x >> \o s) = s
  <1> DEFINE t == << x >> \o s
             o == << x >>
  <1>1. o \in Seq(X) /\ Len(o) = 1 /\ o[1] = x
    OBVIOUS
  <1> HIDE DEF o
  <1>2. /\ t \in Seq(X) /\ Len(t) = 1 + Len(s) /\ Len(s) \in Nat
        /\ \A i \in 1 .. 1 + Len(s) : t[i] = IF i <= 1 THEN o[i] ELSE s[i - 1]
    <2>1. o \o s \in Seq(X) /\ Len(o \o s) = Len(o) + Len(s) /\ Len(s) \in Nat
          /\ \A i \in 1 .. Len(o) + Len(s) : (o \o s)[i] = IF i <= Len(o) THEN o[i] ELSE s[i - Len(o)]
      BY <1>1, ConcatProperties, LenProperties
    <2> QED
      BY <1>1, <2>1 DEF o
  <1> HIDE DEF t
  <1>3. t # << >>
    <2>1. Len(<< >>) = 0
      OBVIOUS
    <2> QED
      BY <1>2, <2>1
  <1>4. Head(t) = x
    <2>1. 1 \in 1 .. 1 + Len(s)
      BY <1>2
    <2>2. t[1] = x
      BY <1>1, <1>2, <2>1
    <2> QED
      BY <1>2, <1>3, <2>2
  <1>5. Tail(t) = s
    <2>1. /\ Tail(t) \in Seq(X) /\ Len(Tail(t)) = Len(s)
          /\ \A i \in 1 .. Len(Tail(t)) : Tail(t)[i] = t[i + 1]
      <3>1. Len(t) - 1 = Len(s)
        BY <1>2
      <3> QED
        BY <1>2, <1>3, <3>1, HeadTailProperties
    <2>2. \A i \in 1 .. Len(s) : Tail(t)[i] = s[i]
      <3> SUFFICES ASSUME NEW i \in 1 .. Len(s) PROVE Tail(t)[i] = s[i]
        OBVIOUS
      <3>1. i + 1 \in 1 .. 1 + Len(s) /\ ~(i + 1 <= 1) /\ (i + 1) - 1 = i
        BY <1>2
      <3> QED
        BY <1>2, <2>1, <3>1
    <2> QED
      BY <2>1, <2>2, SeqEqual
  <1> QED
    BY <1>2, <1>3, <1>4, <1>5 DEF t

\* A sequence of one part.
LEMMA FlattenOne ==
  ASSUME NEW X, NEW s \in Seq(X), NEW ss, ss = [i \in 1 .. 1 |-> s]
  PROVE  FlattenSeq(ss) = s
  <1> DEFINE n == 1
  <1>1. n \in Nat /\ n = 1 /\ n \in 1 .. n /\ n - 1 = 0
    OBVIOUS
  <1>2. ss \in [1 .. n -> Seq(X)] /\ ss[n] = s
    OBVIOUS
  <1> HIDE DEF n
  <1>3. PICK f \in [0 .. n -> Seq(X)] :
           /\ f[0] = << >> /\ \A k \in 1 .. n : f[k] = f[k - 1] \o ss[k]
           /\ FlattenSeq(ss) = f[n]
    <2> HIDE <1>1
    <2>1. n \in Nat
      BY <1>1
    <2> QED
      BY <2>1, <1>2, FlattenRecursion, ZenonT(60)
  <1>4. f[n] = << >> \o s
    BY <1>1, <1>2, <1>3
  <1> QED
    BY <1>3, <1>4, ConcatEmptySeq

\* A flattened sequence of sequences of one.
LEMMA FlattenOnes ==
  ASSUME NEW X, NEW s \in Seq(X), NEW ones \in [1 .. Len(s) -> Seq(X)],
         \A i \in 1 .. Len(s) : ones[i] = << s[i] >>
  PROVE  FlattenSeq(ones) = s
  <1>1. Len(s) \in Nat /\ \A i \in 1 .. Len(s) : s[i] \in X
    BY LenProperties, ElementOfSeq
  <1> DEFINE n == Len(s)
  <1>2. PICK f \in [0 .. n -> Seq(X)] :
           /\ f[0] = << >> /\ \A k \in 1 .. n : f[k] = f[k - 1] \o ones[k]
           /\ FlattenSeq(ones) = f[n]
    BY <1>1, FlattenRecursion, ZenonT(60)
  <1> DEFINE S == {k \in 0 .. n : Len(f[k]) = k /\ \A i \in 1 .. k : f[k][i] = s[i]}
  <1>3. 0 \in S
    BY <1>1, <1>2
  <1>4. ASSUME NEW k \in 0 .. n - 1, k \in S PROVE k + 1 \in S
    <2>1. k + 1 \in 1 .. n /\ (k + 1) - 1 = k /\ k + 1 \in 0 .. n /\ k \in Nat /\ k \in 0 .. n
      BY <1>1
    <2> DEFINE a == f[k]
               b == << s[k + 1] >>
    <2>2. a \in Seq(X) /\ b \in Seq(X) /\ Len(b) = 1 /\ b[1] = s[k + 1] /\ Len(a) = k
          /\ \A i \in 1 .. k : a[i] = s[i]
      BY <1>1, <1>4, <2>1
    <2>3. f[k + 1] = a \o b
      BY <1>2, <2>1
    <2> HIDE DEF a, b
    <2>4. /\ Len(a \o b) = k + 1
          /\ \A i \in 1 .. k + 1 : (a \o b)[i] = IF i <= k THEN a[i] ELSE b[i - k]
      BY <2>2, ConcatProperties
    <2>5. \A i \in 1 .. k + 1 : (a \o b)[i] = s[i]
      BY <2>1, <2>2, <2>4
    <2> QED
      BY <2>1, <2>3, <2>4, <2>5
  <1>5. 0 .. n \subseteq S
    <2>1. 0 \in Int /\ n \in Int
      BY <1>1
    <2> HIDE DEF S, n
    <2> QED
      BY <1>3, <1>4, <2>1, InductionAlong
  <1>6. Len(f[n]) = n /\ (\A i \in 1 .. n : f[n][i] = s[i]) /\ f[n] \in Seq(X)
    BY <1>1, <1>5
  <1>7. f[n] = s
    <2> DEFINE t == f[n]
    <2>1. t \in Seq(X) /\ Len(t) = Len(s) /\ \A i \in 1 .. Len(t) : t[i] = s[i]
      BY <1>6
    <2> HIDE DEF t
    <2>2. t = s
      BY <2>1, SeqEqual
    <2> QED
      BY <2>2 DEF t
  <1> QED
    BY <1>2, <1>7

\* A flattened sequence of pairs.
LEMMA FlattenPairs ==
  ASSUME NEW X, NEW s \in Seq(X), NEW n \in Nat, Len(s) = 2 * n, NEW pairs \in [1 .. n -> Seq(X)],
         \A i \in 1 .. n : pairs[i] = << s[2 * i - 1], s[2 * i] >>
  PROVE  FlattenSeq(pairs) = s
  <1>1. \A i \in 1 .. 2 * n : s[i] \in X
    BY LenProperties, ElementOfSeq
  <1>2. PICK f \in [0 .. n -> Seq(X)] :
           /\ f[0] = << >> /\ \A k \in 1 .. n : f[k] = f[k - 1] \o pairs[k]
           /\ FlattenSeq(pairs) = f[n]
    BY FlattenRecursion, ZenonT(60)
  <1> DEFINE S == {k \in 0 .. n : Len(f[k]) = 2 * k /\ \A i \in 1 .. 2 * k : f[k][i] = s[i]}
  <1>3. 0 \in S
    BY <1>2
  <1>4. ASSUME NEW k \in 0 .. n - 1, k \in S PROVE k + 1 \in S
    <2>1. k + 1 \in 1 .. n /\ (k + 1) - 1 = k /\ k + 1 \in 0 .. n /\ k \in Nat /\ k \in 0 .. n
          /\ 2 * (k + 1) - 1 = 2 * k + 1 /\ 2 * (k + 1) = 2 * k + 2
          /\ 2 * k + 1 \in 1 .. 2 * n /\ 2 * k + 2 \in 1 .. 2 * n
      OBVIOUS
    <2> DEFINE a == f[k]
               b == << s[2 * k + 1], s[2 * k + 2] >>
    <2>2. /\ a \in Seq(X) /\ Len(a) = 2 * k /\ \A i \in 1 .. 2 * k : a[i] = s[i]
      BY <1>4, <2>1
    <2>b. b \in Seq(X) /\ Len(b) = 2 /\ b[1] = s[2 * k + 1] /\ b[2] = s[2 * k + 2]
      <3>1. s[2 * k + 1] \in X /\ s[2 * k + 2] \in X
        BY <1>1, <2>1
      <3> QED
        BY <3>1
    <2>3. f[k + 1] = a \o b
      BY <1>2, <2>1
    <2> HIDE DEF a, b
    <2>4. /\ Len(a \o b) = 2 * k + 2
          /\ \A i \in 1 .. 2 * k + 2 : (a \o b)[i] = IF i <= 2 * k THEN a[i] ELSE b[i - 2 * k]
      <3>1. /\ Len(a \o b) = Len(a) + Len(b)
            /\ \A i \in 1 .. Len(a) + Len(b) : (a \o b)[i] = IF i <= Len(a) THEN a[i] ELSE b[i - Len(a)]
        BY <2>2, <2>b, ConcatProperties
      <3> QED
        BY <2>2, <2>b, <3>1
    <2>5. ASSUME NEW i \in 1 .. 2 * k + 2 PROVE (a \o b)[i] = s[i]
      <3>1. CASE i <= 2 * k
        BY <2>1, <2>2, <2>4, <3>1
      <3>2. CASE i = 2 * k + 1
        BY <2>1, <2>b, <2>4, <3>2
      <3>3. CASE i = 2 * k + 2
        BY <2>1, <2>b, <2>4, <3>3
      <3>4. i <= 2 * k \/ i = 2 * k + 1 \/ i = 2 * k + 2
        BY <2>1
      <3> QED
        BY <3>1, <3>2, <3>3, <3>4
    <2> QED
      BY <2>1, <2>3, <2>4, <2>5
  <1>5. 0 .. n \subseteq S
    <2>1. 0 \in Int /\ n \in Int
      OBVIOUS
    <2> HIDE DEF S
    <2> QED
      BY <1>3, <1>4, <2>1, InductionAlong
  <1>6. Len(f[n]) = Len(s) /\ (\A i \in 1 .. Len(s) : f[n][i] = s[i]) /\ f[n] \in Seq(X)
    <2>1. n \in 0 .. n
      OBVIOUS
    <2>2. n \in S
      BY <1>5, <2>1
    <2> QED
      BY <2>1, <2>2
  <1>7. f[n] = s
    <2> DEFINE t == f[n]
    <2>1. t \in Seq(X) /\ Len(t) = Len(s) /\ \A i \in 1 .. Len(t) : t[i] = s[i]
      BY <1>6
    <2> HIDE DEF t
    <2>2. t = s
      BY <2>1, SeqEqual
    <2> QED
      BY <2>2 DEF t
  <1> QED
    BY <1>2, <1>7

-----------------------------------------------------------------------------
(* Hex digits. *)

\* What the assumptions say of the constants.
LEMMA HexFacts ==
  /\ HexBase \in Nat /\ HexBase > 1 /\ AddressLength \in Nat /\ AddressLength > 0
  /\ HexBase * HexBase = Base /\ Prefix \in Nat /\ Space \in Nat /\ Space >= HexBase /\ Prefix >= HexBase
  /\ Refused \notin Seq(Nat) /\ Refused \notin Int /\ Refused \notin BOOLEAN
  /\ Base \in Nat /\ Base > 1 /\ Byte = 0 .. Base - 1
  /\ Alphabet \in Nat /\ Alphabet > 1
  <1>1. /\ HexBase \in Nat \ {0, 1} /\ AddressLength \in Nat \ {0} /\ Alphabet \in Nat \ {0, 1}
        /\ Prefix \in Nat /\ Space \in Nat /\ Space >= HexBase /\ Prefix >= HexBase
    BY NamesAssumption
  <1>2. /\ HexBase * HexBase = Base
        /\ Refused \notin Seq(Nat) /\ Refused \notin Int /\ Refused \notin BOOLEAN
    BY BlockAssumption
  <1> QED
    BY <1>1, <1>2, BaseFacts

\* Two hex digits are a byte.
LEMMA TwoDigits ==
  ASSUME NEW a \in 0 .. HexBase - 1, NEW b \in 0 .. HexBase - 1
  PROVE  /\ HexBase * a + b \in Byte
         /\ (HexBase * a + b) \div HexBase = a /\ (HexBase * a + b) % HexBase = b
  <1>1. HexBase \in Nat /\ HexBase > 1 /\ a \in Nat /\ b \in Nat /\ HexBase * a \in Nat
    BY HexFacts
  <1>2. b + HexBase * a = HexBase * a + b
    BY <1>1
  <1>3. (b + HexBase * a) \div HexBase = a /\ (b + HexBase * a) % HexBase = b
    BY <1>1, DivisionOf
  <1>4. HexBase * a + b <= Base - 1
    <2>1. a <= HexBase - 1 /\ b <= HexBase - 1 /\ HexBase * HexBase = Base
      BY HexFacts
    <2>2. HexBase * a <= HexBase * (HexBase - 1)
      BY <1>1, <2>1
    <2>3. HexBase * (HexBase - 1) = Base - HexBase
      BY <1>1, <2>1
    <2> QED
      BY <1>1, <2>1, <2>2, <2>3, HexFacts
  <1> QED
    BY <1>1, <1>2, <1>3, <1>4, HexFacts

\* The characters of a text that are not white space.
Dark(text) == FlattenSeq([i \in DOMAIN text |-> IF text[i] = Space THEN << >> ELSE << text[i] >>])

\* What is not white space is a text.
LEMMA DarkInSeq ==
  ASSUME NEW text \in Seq(Nat)
  PROVE  Dark(text) \in Seq(Nat)
  <1> DEFINE ss == [i \in DOMAIN text |-> IF text[i] = Space THEN << >> ELSE << text[i] >>]
  <1>1. Len(text) \in Nat /\ DOMAIN text = 1 .. Len(text) /\ \A i \in 1 .. Len(text) : text[i] \in Nat
    BY LenProperties, ElementOfSeq
  <1>2. ss \in [1 .. Len(text) -> Seq(Nat)]
    <2> SUFFICES ASSUME NEW i \in 1 .. Len(text)
                 PROVE  (IF text[i] = Space THEN << >> ELSE << text[i] >>) \in Seq(Nat)
      BY <1>1
    <2>1. text[i] \in Nat
      BY <1>1
    <2>2. << >> \in Seq(Nat) /\ << text[i] >> \in Seq(Nat)
      BY <2>1
    <2> QED
      BY <2>2
  <1> HIDE DEF ss
  <1>3. FlattenSeq(ss) \in Seq(Nat)
    BY <1>1, <1>2, FlattenInSeq
  <1> QED
    BY <1>3 DEF Dark, ss

\* bytes.fromhex returns bytes or raises.
LEMMA FromHexFacts ==
  ASSUME NEW text \in Seq(Nat)
  PROVE  FromHex(text) = Refused \/ FromHex(text) \in Seq(Byte)
  <1> DEFINE digits == Dark(text)
             n == Len(digits) \div 2
             bytes == [i \in 1 .. n |-> HexBase * digits[2 * i - 1] + digits[2 * i]]
  <1>1. digits \in Seq(Nat) /\ Len(digits) \in Nat /\ DOMAIN digits = 1 .. Len(digits)
    BY DarkInSeq, LenProperties
  <1>2. \/ FromHex(text) = Refused
        \/ (\A i \in DOMAIN digits : ~(digits[i] >= HexBase)) /\ FromHex(text) = bytes
    BY DEF FromHex, Dark
  <1> HIDE DEF digits
  <1>3. ASSUME \A i \in DOMAIN digits : ~(digits[i] >= HexBase) PROVE bytes \in Seq(Byte)
    <2>1. n \in Nat /\ 2 * n <= Len(digits)
      BY <1>1
    <2>2. ASSUME NEW i \in 1 .. n PROVE HexBase * digits[2 * i - 1] + digits[2 * i] \in Byte
      <3>1. 2 * i - 1 \in 1 .. Len(digits) /\ 2 * i \in 1 .. Len(digits)
        BY <1>1, <2>1
      <3>2. digits[2 * i - 1] \in Nat /\ digits[2 * i] \in Nat
            /\ ~(digits[2 * i - 1] >= HexBase) /\ ~(digits[2 * i] >= HexBase)
        BY <1>1, <1>3, <3>1, ElementOfSeq
      <3>3. digits[2 * i - 1] \in 0 .. HexBase - 1 /\ digits[2 * i] \in 0 .. HexBase - 1
        BY <3>2, HexFacts
      <3> QED
        BY <3>3, TwoDigits
    <2> HIDE DEF n
    <2>3. bytes \in [1 .. n -> Byte]
      BY <2>2
    <2> QED
      BY <2>1, <2>3 DEF Seq
  <1> QED
    BY <1>2, <1>3

\* Hex digits by twos are bytes, which are printed as these digits.
LEMMA FromHexDigits ==
  ASSUME NEW text \in Seq(0 .. HexBase - 1), NEW n \in Nat, Len(text) = 2 * n
  PROVE  /\ FromHex(text) \in Seq(Byte) /\ Len(FromHex(text)) = n
         /\ Hex(FromHex(text)) = << Prefix >> \o text
  <1> DEFINE D == 0 .. HexBase - 1
             ss == [i \in DOMAIN text |-> IF text[i] = Space THEN << >> ELSE << text[i] >>]
             bytes == [i \in 1 .. n |-> HexBase * text[2 * i - 1] + text[2 * i]]
  <1>1. /\ DOMAIN text = 1 .. Len(text) /\ Len(text) \in Nat
        /\ \A i \in 1 .. Len(text) : text[i] \in D
    BY LenProperties, ElementOfSeq
  <1>2. \A i \in 1 .. Len(text) : text[i] # Space /\ ~(text[i] >= HexBase) /\ text[i] \in Nat
    BY <1>1, HexFacts
  <1> HIDE DEF D
  <1>3. Dark(text) = text
    <2>1. \A i \in 1 .. Len(text) : ss[i] = << text[i] >>
      BY <1>1, <1>2
    <2>2. ss \in [1 .. Len(text) -> Seq(D)]
      <3>1. \A i \in 1 .. Len(text) : << text[i] >> \in Seq(D)
        BY <1>1
      <3> QED
        BY <1>1, <1>2, <3>1
    <2>3. text \in Seq(D)
      BY DEF D
    <2> HIDE DEF ss
    <2>4. FlattenSeq(ss) = text
      BY <2>1, <2>2, <2>3, FlattenOnes
    <2> QED
      BY <2>4 DEF ss, Dark
  <1>4. Len(text) % 2 # 1 /\ Len(text) \div 2 = n
    BY <1>1
  <1>5. FromHex(text) = bytes
    BY <1>1, <1>2, <1>3, <1>4 DEF FromHex, Dark
  <1>6. ASSUME NEW i \in 1 .. n
        PROVE  /\ bytes[i] \in Byte /\ bytes[i] \div HexBase = text[2 * i - 1]
               /\ bytes[i] % HexBase = text[2 * i]
    <2>1. 2 * i - 1 \in 1 .. Len(text) /\ 2 * i \in 1 .. Len(text)
      BY <1>1
    <2>2. text[2 * i - 1] \in 0 .. HexBase - 1 /\ text[2 * i] \in 0 .. HexBase - 1
      BY <1>1, <2>1 DEF D
    <2>3. bytes[i] = HexBase * text[2 * i - 1] + text[2 * i]
      OBVIOUS
    <2> HIDE DEF bytes
    <2> QED
      BY <2>2, <2>3, TwoDigits
  <1>7. bytes \in Seq(Byte) /\ Len(bytes) = n /\ DOMAIN bytes = 1 .. n
    <2>1. \A i \in 1 .. n : bytes[i] \in Byte
      BY <1>6
    <2>2. bytes \in [1 .. n -> Byte]
      BY <2>1
    <2> HIDE DEF bytes
    <2>3. bytes \in Seq(Byte)
      BY <2>2 DEF Seq
    <2> QED
      BY <2>2, <2>3
  <1> HIDE DEF bytes
  <1> DEFINE pairs == [i \in DOMAIN bytes |-> << bytes[i] \div HexBase, bytes[i] % HexBase >>]
  <1>8. \A i \in 1 .. n : pairs[i] = << text[2 * i - 1], text[2 * i] >>
    BY <1>6, <1>7
  <1>9. pairs \in [1 .. n -> Seq(D)]
    <2>1. ASSUME NEW i \in 1 .. n
          PROVE  << bytes[i] \div HexBase, bytes[i] % HexBase >> \in Seq(D)
      <3>1. 2 * i - 1 \in 1 .. Len(text) /\ 2 * i \in 1 .. Len(text)
        BY <1>1
      <3>2. text[2 * i - 1] \in D /\ text[2 * i] \in D
        BY <1>1, <3>1
      <3>3. << text[2 * i - 1], text[2 * i] >> \in Seq(D)
        BY <3>2
      <3> QED
        BY <1>6, <3>3
    <2> QED
      BY <1>7, <2>1
  <1> HIDE DEF pairs
  <1>10. FlattenSeq(pairs) = text
    <2>1. text \in Seq(D)
      BY DEF D
    <2> QED
      BY <1>8, <1>9, <2>1, FlattenPairs
  <1>11. Hex(bytes) = << Prefix >> \o text
    BY <1>10 DEF Hex, pairs
  <1> QED
    BY <1>5, <1>7, <1>11

-----------------------------------------------------------------------------
(* Addresses. *)

\* An address is padded to its length at least.
LEMMA HexDigitsFacts ==
  ASSUME NEW text \in Seq(Nat)
  PROVE  HexDigits(text) \in Seq(Nat) /\ Len(HexDigits(text)) >= 2 * AddressLength
  <1> DEFINE digits == IF text # << >> /\ Head(text) = Prefix THEN Tail(text) ELSE text
             short == 2 * AddressLength - Len(digits)
  <1>1. digits \in Seq(Nat)
    BY HeadTailProperties
  <1>2. Len(digits) \in Nat /\ 2 * AddressLength \in Nat
    BY <1>1, LenProperties, HexFacts
  <1> HIDE DEF digits
  <1>3. ASSUME Len(digits) < 2 * AddressLength
        PROVE  /\ Zeros(short) \o digits \in Seq(Nat)
               /\ Len(Zeros(short) \o digits) = 2 * AddressLength
    <2>1. short \in Nat
      BY <1>2, <1>3
    <2> HIDE DEF short
    <2>2. Zeros(short) \in [1 .. short -> Nat]
      BY DEF Zeros
    <2>3. Zeros(short) \in Seq(Nat) /\ Len(Zeros(short)) = short
      BY <2>1, <2>2 DEF Seq
    <2>4. Zeros(short) \o digits \in Seq(Nat) /\ Len(Zeros(short) \o digits) = short + Len(digits)
      BY <1>1, <2>3, ConcatProperties
    <2> QED
      BY <1>2, <2>4 DEF short
  <1>4. HexDigits(text) = IF Len(digits) < 2 * AddressLength THEN Zeros(short) \o digits ELSE digits
    BY DEF HexDigits, digits
  <1> HIDE DEF short
  <1>5. CASE Len(digits) < 2 * AddressLength
    BY <1>2, <1>3, <1>4, <1>5
  <1>6. CASE ~(Len(digits) < 2 * AddressLength)
    BY <1>1, <1>2, <1>4, <1>6
  <1> QED
    BY <1>5, <1>6

\* An address is bytes or refused; one that normalize_iota_address accepts is a full address, and
\* printed as that function writes it.
LEMMA AddressFacts ==
  ASSUME NEW text \in Seq(Nat)
  PROVE  /\ AddressBytes(text) = Refused \/ AddressBytes(text) \in Seq(Byte)
         /\ NormalizeIotaAddress(text) # Refused =>
              /\ AddressBytes(text) \in Seq(Byte) /\ Len(AddressBytes(text)) = AddressLength
              /\ Hex(AddressBytes(text)) = NormalizeIotaAddress(text)
  <1> DEFINE digits == HexDigits(text)
  <1>1. digits \in Seq(Nat) /\ Len(digits) >= 2 * AddressLength /\ Len(digits) \in Nat
        /\ DOMAIN digits = 1 .. Len(digits) /\ \A i \in 1 .. Len(digits) : digits[i] \in Nat
    BY HexDigitsFacts, LenProperties, ElementOfSeq
  <1>2. AddressBytes(text) = FromHex(digits)
    BY DEF AddressBytes
  <1>3. NormalizeIotaAddress(text) # Refused =>
          /\ ~(Len(digits) > 2 * AddressLength) /\ \A i \in DOMAIN digits : ~(digits[i] >= HexBase)
          /\ NormalizeIotaAddress(text) = << Prefix >> \o digits
    BY DEF NormalizeIotaAddress
  <1> HIDE DEF digits
  <1>4. FromHex(digits) = Refused \/ FromHex(digits) \in Seq(Byte)
    BY <1>1, FromHexFacts
  <1>5. ASSUME ~(Len(digits) > 2 * AddressLength), \A i \in DOMAIN digits : ~(digits[i] >= HexBase)
        PROVE  /\ FromHex(digits) \in Seq(Byte) /\ Len(FromHex(digits)) = AddressLength
               /\ Hex(FromHex(digits)) = << Prefix >> \o digits
    <2>1. Len(digits) = 2 * AddressLength /\ AddressLength \in Nat
      <3>1. AddressLength \in Nat
        BY HexFacts
      <3>2. Len(digits) \in Nat /\ Len(digits) >= 2 * AddressLength /\ ~(Len(digits) > 2 * AddressLength)
        BY <1>1, <1>5
      <3> DEFINE n == Len(digits)
      <3> HIDE DEF n
      <3>3. n \in Nat /\ n >= 2 * AddressLength /\ ~(n > 2 * AddressLength)
        BY <3>2 DEF n
      <3>4. n = 2 * AddressLength
        BY <3>1, <3>3
      <3> QED
        BY <3>1, <3>4 DEF n
    <2>2. ASSUME NEW i \in 1 .. Len(digits) PROVE digits[i] \in 0 .. HexBase - 1
      <3>1. digits[i] \in Nat /\ ~(digits[i] >= HexBase) /\ HexBase \in Nat
        BY <1>1, <1>5, HexFacts
      <3> QED
        BY <3>1
    <2> DEFINE D == 0 .. HexBase - 1
    <2>3. digits \in Seq(D)
      <3>1. \A i \in 1 .. Len(digits) : digits[i] \in D
        BY <2>2
      <3>2. digits = [i \in 1 .. Len(digits) |-> digits[i]]
        BY <1>1, LenProperties
      <3> HIDE DEF D
      <3> QED
        BY <1>1, <3>1, <3>2 DEF Seq
    <2> QED
      BY <2>1, <2>3, FromHexDigits
  <1> QED
    BY <1>2, <1>3, <1>4, <1>5

-----------------------------------------------------------------------------
(* Numbers and their digits. *)

\* What a number is, digit by digit.
LEMMA DenotedRecursion ==
  ASSUME NEW digits \in Seq(Nat), NEW base \in Nat
  PROVE  \E f \in [0 .. Len(digits) -> Nat] :
           /\ f[0] = 0 /\ \A k \in 1 .. Len(digits) : f[k] = base * f[k - 1] + digits[k]
           /\ Denoted(digits, base) = f[Len(digits)]
  <1> DEFINE n == Len(digits)
             Eq(f) == f = [k \in 0 .. Len(digits) |-> IF k = 0 THEN 0 ELSE base * f[k - 1] + digits[k]]
             F == CHOOSE f : Eq(f)
             step == [p \in Nat \X Nat |-> base * p[2] + digits[p[1]]]
  <1>1. n \in Nat /\ \A k \in 1 .. n : digits[k] \in Nat
    BY LenProperties, ElementOfSeq
  <1>2. ASSUME NEW k \in 1 .. n, NEW m \in Nat
        PROVE  base * m + digits[k] \in Nat /\ step[<<k, m>>] = base * m + digits[k]
    <2>1. digits[k] \in Nat /\ base * m \in Nat /\ k \in Nat
      BY <1>1
    <2>2. step[<<k, m>>] = base * m + digits[k]
      BY <2>1
    <2> QED
      BY <2>1, <2>2
  <1> HIDE DEF step, n
  <1>3. Steps(0, n, Nat, 0, step)
    <2>1. 0 \in Int /\ n \in Int /\ 0 <= n /\ 0 \in Nat
      BY <1>1
    <2>2. (0 .. n) \ {0} = 1 .. n
      BY <1>1
    <2> QED
      BY <1>2, <2>1, <2>2 DEF Steps
  <1>4. PICK f \in [0 .. n -> Nat] : RecursAlong(f, 0, n, 0, step)
    BY <1>3, RecursionAlong
  <1>5. f[0] = 0 /\ \A k \in 1 .. n : f[k] = base * f[k - 1] + digits[k]
    <2>1. f[0] = 0
      BY <1>4 DEF RecursAlong
    <2>2. ASSUME NEW k \in 1 .. n PROVE f[k] = base * f[k - 1] + digits[k]
      <3>1. k \in (0 .. n) \ {0} /\ k - 1 \in 0 .. n
        BY <1>1
      <3>2. f[k] = step[<<k, f[k - 1]>>] /\ f[k - 1] \in Nat
        BY <1>4, <3>1 DEF RecursAlong
      <3> QED
        BY <1>2, <3>2
    <2> QED
      BY <2>1, <2>2
  <1>6. Eq(f)
    <2>1. \A k \in 0 .. n : f[k] = IF k = 0 THEN 0 ELSE base * f[k - 1] + digits[k]
      <3> SUFFICES ASSUME NEW k \in 0 .. n PROVE f[k] = IF k = 0 THEN 0 ELSE base * f[k - 1] + digits[k]
        OBVIOUS
      <3>1. k = 0 \/ k \in 1 .. n
        BY <1>1
      <3> QED
        BY <1>5, <3>1
    <2> QED
      BY <1>4, <2>1 DEF n
  <1>7. Eq(F)
    <2> HIDE DEF Eq
    <2> QED
      BY <1>6
  <1>8. Denoted(digits, base) = F[n]
    BY DEF Denoted, n
  <1> HIDE DEF F
  <1>9. /\ F = [k \in 0 .. n |-> F[k]]
        /\ \A k \in 0 .. n : F[k] = IF k = 0 THEN 0 ELSE base * F[k - 1] + digits[k]
    BY <1>7 DEF n
  <1>10. 0 .. n \subseteq {k \in 0 .. n : F[k] \in Nat}
    <2> DEFINE S == {k \in 0 .. n : F[k] \in Nat}
    <2>0. 0 \in 0 .. n /\ 0 = 0
      BY <1>1
    <2>a. F[0] = IF 0 = 0 THEN 0 ELSE base * F[0 - 1] + digits[0]
      BY <1>9, <2>0
    <2>b. F[0] = 0
      BY <2>a
    <2>1. 0 \in S
      BY <2>0, <2>b
    <2>2. ASSUME NEW k \in 0 .. n - 1, k \in S PROVE k + 1 \in S
      <3>1. k + 1 \in 0 .. n /\ k + 1 \in 1 .. n /\ (k + 1) - 1 = k /\ k + 1 # 0
        BY <1>1
      <3>2. F[k + 1] = base * F[k] + digits[k + 1] /\ F[k] \in Nat /\ digits[k + 1] \in Nat
        BY <1>1, <1>9, <2>2, <3>1
      <3>3. base * F[k] \in Nat
        BY <3>2
      <3> QED
        BY <3>1, <3>2, <3>3
    <2>3. 0 \in Int /\ n \in Int
      BY <1>1
    <2> HIDE DEF S
    <2>4. 0 .. n \subseteq S
      BY <2>1, <2>2, <2>3, InductionAlong
    <2> QED
      BY <2>4 DEF S
  <1>11. F \in [0 .. n -> Nat]
    BY <1>9, <1>10
  <1>12. F[0] = 0 /\ \A k \in 1 .. n : F[k] = base * F[k - 1] + digits[k]
    <2>1. 0 \in 0 .. n /\ \A k \in 1 .. n : k \in 0 .. n /\ k # 0
      BY <1>1
    <2> QED
      BY <1>9, <2>1
  <1> QED
    BY <1>8, <1>11, <1>12 DEF n

\* No digits denote zero.
LEMMA DenotedEmpty ==
  ASSUME NEW base \in Nat
  PROVE  Denoted(<< >>, base) = 0
  <1>1. << >> \in Seq(Nat) /\ Len(<< >>) = 0
    OBVIOUS
  <1>2. PICK f \in [0 .. Len(<< >>) -> Nat] : f[0] = 0 /\ Denoted(<< >>, base) = f[Len(<< >>)]
    BY <1>1, DenotedRecursion
  <1> QED
    BY <1>1, <1>2

\* One digit more.
LEMMA DenotedAppend ==
  ASSUME NEW s \in Seq(Nat), NEW d \in Nat, NEW base \in Nat
  PROVE  /\ Denoted(s, base) \in Nat
         /\ Denoted(Append(s, d), base) = base * Denoted(s, base) + d
  <1> DEFINE n == Len(s)
             t == Append(s, d)
  <1>1. n \in Nat /\ t \in Seq(Nat) /\ Len(t) = n + 1 /\ t[n + 1] = d /\ \A k \in 1 .. n : t[k] = s[k]
    BY AppendProperties, LenProperties
  <1> HIDE DEF t
  <1>2. PICK f \in [0 .. n -> Nat] :
          /\ f[0] = 0 /\ \A k \in 1 .. n : f[k] = base * f[k - 1] + s[k]
          /\ Denoted(s, base) = f[n]
    BY DenotedRecursion
  <1>3. PICK g \in [0 .. Len(t) -> Nat] :
          /\ g[0] = 0 /\ \A k \in 1 .. Len(t) : g[k] = base * g[k - 1] + t[k]
          /\ Denoted(t, base) = g[Len(t)]
    BY <1>1, DenotedRecursion
  <1> DEFINE S == {k \in 0 .. n : g[k] = f[k]}
  <1>4. 0 \in S
    BY <1>1, <1>2, <1>3
  <1>5. ASSUME NEW k \in 0 .. n - 1, k \in S PROVE k + 1 \in S
    <2>1. k + 1 \in 0 .. n /\ k + 1 \in 1 .. n /\ k + 1 \in 1 .. Len(t) /\ (k + 1) - 1 = k
      BY <1>1
    <2>2. g[k] = f[k]
      BY <1>5
    <2>3. f[k + 1] = base * f[k] + s[k + 1] /\ g[k + 1] = base * g[k] + t[k + 1] /\ t[k + 1] = s[k + 1]
      BY <1>1, <1>2, <1>3, <2>1
    <2> QED
      BY <2>1, <2>2, <2>3
  <1>6. 0 .. n \subseteq S
    <2>1. 0 \in Int /\ n \in Int
      BY <1>1
    <2> HIDE DEF S, n
    <2> QED
      BY <1>4, <1>5, <2>1, InductionAlong
  <1>7. g[n] = f[n] /\ n + 1 \in 1 .. Len(t) /\ (n + 1) - 1 = n /\ n \in 0 .. n
    <2>1. n \in Nat /\ Len(t) = n + 1
      BY <1>1
    <2> HIDE DEF n
    <2>2. n \in 0 .. n /\ n + 1 \in 1 .. Len(t) /\ (n + 1) - 1 = n
      BY <2>1
    <2> QED
      BY <1>6, <2>2
  <1>8. g[n + 1] = base * g[n] + t[n + 1]
    BY <1>3, <1>7
  <1> QED
    BY <1>1, <1>2, <1>3, <1>7, <1>8 DEF t

\* The shortest digits of a number, from the last.
LEMMA ShortestRecursion ==
  ASSUME NEW base \in Nat, base > 1
  PROVE  /\ Shortest(0, base) = << >>
         /\ \A n \in Nat : Shortest(n, base) \in Seq(0 .. base - 1)
         /\ \A n \in Nat \ {0} : Shortest(n, base) = Append(Shortest(n \div base, base), n % base)
  <1> DEFINE D == Nat
             X == Seq(0 .. base - 1)
             Eq(f) == f = [m \in Nat |-> IF m = 0 THEN << >> ELSE Append(f[m \div base], m % base)]
             F == CHOOSE f : Eq(f)
             Stop == {0}
             rank == [m \in D |-> m]
             down == [m \in D \ Stop |-> m \div base]
             first == [m \in Stop |-> << >>]
             step == [p \in (D \ Stop) \X X |-> Append(p[2], p[1] % base)]
  <1>1. \A m \in Nat \ {0} : m \div base \in Nat /\ m \div base < m /\ m % base \in 0 .. base - 1
    <2> SUFFICES ASSUME NEW m \in Nat \ {0}
                 PROVE  m \div base \in Nat /\ m \div base < m /\ m % base \in 0 .. base - 1
      OBVIOUS
    <2>1. m \div base \in Nat /\ m % base \in 0 .. base - 1 /\ m = (m % base) + base * (m \div base)
          /\ (m >= base => m \div base < m)
      BY Division
    <2>2. CASE m < base
      <3>1. m = m + base * 0 /\ m \in 0 .. base - 1 /\ 0 \in Nat
        BY <2>2
      <3>2. (m + base * 0) \div base = 0
        BY <3>1, DivisionOf
      <3> QED
        BY <2>1, <3>1, <3>2
    <2>3. CASE m >= base
      BY <2>1, <2>3
    <2> QED
      BY <2>2, <2>3
  <1>cons. \A s \in X, m \in D \ Stop : Append(s, m % base) \in X
    <2> SUFFICES ASSUME NEW s \in X, NEW m \in D \ Stop PROVE Append(s, m % base) \in X
      OBVIOUS
    <2>1. m % base \in 0 .. base - 1
      BY <1>1
    <2> DEFINE B == 0 .. base - 1
    <2>2. s \in Seq(B) /\ m % base \in B
      BY <2>1
    <2> HIDE DEF B
    <2>3. Append(s, m % base) \in Seq(B)
      BY <2>2, AppendProperties
    <2> QED
      BY <2>3 DEF B
  <1>2. Descends(D, X, rank, Stop, down, first, step)
    <2>1. rank \in [D -> Nat] /\ Stop \in SUBSET D
      OBVIOUS
    <2>2. down \in [D \ Stop -> D] /\ \A m \in D \ Stop : rank[down[m]] < rank[m]
      BY <1>1
    <2>3. first \in [Stop -> X]
      OBVIOUS
    <2>4. step \in [(D \ Stop) \X X -> X]
      <3> HIDE DEF X, D, Stop
      <3> QED
        BY <1>cons
    <2> HIDE DEF D, X, rank, Stop, down, first, step
    <2> QED
      BY <2>1, <2>2, <2>3, <2>4 DEF Descends
  <1>3. PICK f \in [D -> X] : Recurs(f, D, Stop, down, first, step)
    <2> HIDE DEF D, X, rank, Stop, down, first, step
    <2> QED
      BY <1>2, RecursionOnRank
  <1>4. ASSUME NEW m \in Nat
        PROVE  f[m] = IF m = 0 THEN << >> ELSE Append(f[m \div base], m % base)
    <2>1. f[m] = IF m \in Stop THEN first[m] ELSE step[<<m, f[down[m]]>>]
      BY <1>3 DEF Recurs
    <2>2. CASE m = 0
      BY <2>1, <2>2
    <2>3. CASE m # 0
      <3>1. down[m] = m \div base /\ m \div base \in D /\ m \in D \ Stop
        BY <1>1, <2>3
      <3>2. f[m \div base] \in X
        BY <1>3, <3>1
      <3> HIDE DEF X, D
      <3>3. step[<<m, f[m \div base]>>] = Append(f[m \div base], m % base)
        BY <3>1, <3>2
      <3> QED
        BY <2>1, <2>3, <3>1, <3>3
    <2> QED
      BY <2>2, <2>3
  <1>5. Eq(f)
    BY <1>3, <1>4
  <1>6. Eq(F)
    <2> HIDE DEF Eq
    <2> QED
      BY <1>5
  <1>7. \A m \in Nat : Shortest(m, base) = F[m]
    BY DEF Shortest
  <1> HIDE DEF F
  <1>8. \A m \in Nat : F[m] = IF m = 0 THEN << >> ELSE Append(F[m \div base], m % base)
    BY <1>6
  <1>9. ASSUME NEW n \in Nat PROVE \A m \in 0 .. n : F[m] \in X
    <2> DEFINE S == {k \in Nat : \A m \in 0 .. k : F[m] \in X}
    <2>1. 0 \in S
      <3>1. 0 \in Nat /\ << >> \in X
        OBVIOUS
      <3>2. F[0] = IF 0 = 0 THEN << >> ELSE Append(F[0 \div base], 0 % base)
        BY <1>8, <3>1
      <3>3. F[0] = << >> /\ 0 .. 0 = {0}
        BY <3>2
      <3> QED
        BY <3>1, <3>3
    <2>2. ASSUME NEW k \in Nat, k \in S PROVE k + 1 \in S
      <3> SUFFICES ASSUME NEW m \in 0 .. k + 1 PROVE F[m] \in X
        OBVIOUS
      <3>1. CASE m \in 0 .. k
        BY <2>2, <3>1
      <3>2. CASE m = k + 1
        <4>1. m \in Nat \ {0} /\ m \in D \ Stop
          BY <3>2
        <4>2. m \div base \in 0 .. k
          BY <1>1, <3>2, <4>1
        <4>3. F[m] = Append(F[m \div base], m % base) /\ F[m \div base] \in X
          BY <1>8, <2>2, <4>1, <4>2
        <4> HIDE DEF X
        <4> QED
          BY <1>cons, <4>1, <4>3
      <3> QED
        BY <3>1, <3>2
    <2>3. Nat \subseteq S
      <3> HIDE DEF S
      <3> QED
        BY <2>1, <2>2, NaturalsByInduction
    <2> QED
      BY <2>3
  <1>10. \A n \in Nat : F[n] \in X
    <2> SUFFICES ASSUME NEW n \in Nat PROVE F[n] \in X
      OBVIOUS
    <2>1. n \in 0 .. n
      OBVIOUS
    <2> HIDE DEF X
    <2> QED
      BY <1>9, <2>1
  <1>11. \A n \in Nat \ {0} : F[n] = Append(F[n \div base], n % base) /\ n \div base \in Nat
    BY <1>1, <1>8
  <1> QED
    BY <1>7, <1>8, <1>10, <1>11

\* Every sequence comes of the empty one by appending.
LEMMA ByAppending ==
  ASSUME NEW X, NEW S, << >> \in S, \A s \in Seq(X), x \in X : s \in S => Append(s, x) \in S
  PROVE  Seq(X) \subseteq S
  <1> DEFINE T == {n \in Nat : \A s \in Seq(X) : Len(s) = n => s \in S}
  <1>1. 0 \in T
    <2>1. \A s \in Seq(X) : Len(s) = 0 => s = << >>
      BY EmptySeq
    <2> QED
      BY <2>1
  <1>2. ASSUME NEW n \in Nat, n \in T PROVE n + 1 \in T
    <2> SUFFICES ASSUME NEW s \in Seq(X), Len(s) = n + 1 PROVE s \in S
      OBVIOUS
    <2> DEFINE t == [k \in 1 .. n |-> s[k]]
               x == s[n + 1]
    <2>1. t \in Seq(X) /\ Len(t) = n /\ x \in X /\ \A k \in 1 .. n : t[k] = s[k]
      <3>1. \A k \in 1 .. n + 1 : s[k] \in X
        BY ElementOfSeq
      <3>2. t \in [1 .. n -> X] /\ n + 1 \in 1 .. n + 1
        BY <3>1
      <3> HIDE DEF t
      <3>3. t \in Seq(X) /\ Len(t) = n
        BY <3>2 DEF Seq
      <3> QED
        BY <3>1, <3>2, <3>3 DEF t
    <2> HIDE DEF t, x
    <2>2. Append(t, x) = s
      <3> DEFINE u == Append(t, x)
      <3>1. u \in Seq(X) /\ Len(u) = n + 1 /\ u[n + 1] = x /\ \A k \in 1 .. n : u[k] = t[k]
        BY <2>1, AppendProperties
      <3> HIDE DEF u
      <3>2. \A k \in 1 .. n + 1 : u[k] = s[k]
        <4> SUFFICES ASSUME NEW k \in 1 .. n + 1 PROVE u[k] = s[k]
          OBVIOUS
        <4>1. k \in 1 .. n \/ k = n + 1
          OBVIOUS
        <4> QED
          BY <2>1, <3>1, <4>1 DEF x
      <3>3. u = s
        BY <3>1, <3>2, SeqEqual
      <3> QED
        BY <3>3 DEF u
    <2>3. t \in S
      BY <1>2, <2>1
    <2> QED
      BY <2>1, <2>2, <2>3
  <1>3. Nat \subseteq T
    <2> HIDE DEF T
    <2> QED
      BY <1>1, <1>2, NaturalsByInduction
  <1> QED
    BY <1>3, LenProperties

\* Appending and concatenating.
LEMMA ConcatAppend ==
  ASSUME NEW X, NEW s \in Seq(X), NEW t \in Seq(X), NEW x \in X
  PROVE  s \o Append(t, x) = Append(s \o t, x)
  <1>1. Associates(X)
    BY Associative
  <1>2. << x >> \in Seq(X)
    OBVIOUS
  <1>3. s \o (t \o << x >>) = (s \o t) \o << x >>
    BY <1>1, <1>2, ZenonT(40) DEF Associates
  <1>4. Append(t, x) = t \o << x >>
    BY AppendIsConcat
  <1>5. s \o t \in Seq(X)
    BY ConcatProperties
  <1>6. Append(s \o t, x) = (s \o t) \o << x >>
    BY <1>5, AppendIsConcat
  <1> QED
    BY <1>3, <1>4, <1>6

\* Zeros are zeros, as many as are asked for.
LEMMA ZerosFacts ==
  ASSUME NEW X, 0 \in X, NEW k \in Nat
  PROVE  Zeros(k) \in Seq(X) /\ Len(Zeros(k)) = k /\ \A i \in 1 .. k : Zeros(k)[i] = 0
  <1>1. Zeros(k) \in [1 .. k -> X] /\ \A i \in 1 .. k : Zeros(k)[i] = 0
    BY DEF Zeros
  <1> QED
    BY <1>1 DEF Seq

\* One zero more is appended.
LEMMA ZerosNext ==
  ASSUME NEW k \in Nat
  PROVE  Zeros(k + 1) = Append(Zeros(k), 0)
  <1> DEFINE s == Zeros(k)
             t == Zeros(k + 1)
             u == Append(s, 0)
  <1>1. k + 1 \in Nat /\ 0 \in Nat
    OBVIOUS
  <1>2. /\ s \in Seq(Nat) /\ Len(s) = k /\ \A i \in 1 .. k : s[i] = 0
        /\ t \in Seq(Nat) /\ Len(t) = k + 1 /\ \A i \in 1 .. k + 1 : t[i] = 0
    BY <1>1, ZerosFacts
  <1> HIDE DEF s, t
  <1>3. u \in Seq(Nat) /\ Len(u) = k + 1 /\ u[k + 1] = 0 /\ \A i \in 1 .. k : u[i] = s[i]
    BY <1>1, <1>2, AppendProperties
  <1> HIDE DEF u
  <1>4. \A i \in 1 .. k + 1 : u[i] = t[i]
    <2> SUFFICES ASSUME NEW i \in 1 .. k + 1 PROVE u[i] = t[i]
      OBVIOUS
    <2>1. i \in 1 .. k \/ i = k + 1
      OBVIOUS
    <2> QED
      BY <1>2, <1>3, <2>1
  <1>5. u = t
    BY <1>2, <1>3, <1>4, SeqEqual
  <1> QED
    BY <1>5 DEF s, t, u

\* Leading zeros denote nothing.
LEMMA DenotedZeros ==
  ASSUME NEW k \in Nat, NEW t \in Seq(Nat), NEW base \in Nat
  PROVE  Denoted(Zeros(k) \o t, base) = Denoted(t, base)
  <1> DEFINE z == Zeros(k)
             S == {s \in Seq(Nat) : Denoted(z \o s, base) = Denoted(s, base)}
             K == {n \in Nat : Denoted(Zeros(n), base) = 0}
  <1>1. 0 \in K
    <2>1. Zeros(0) = << >>
      BY DEF Zeros
    <2> QED
      BY <2>1, DenotedEmpty
  <1>2. ASSUME NEW n \in Nat, n \in K PROVE n + 1 \in K
    <2>1. Zeros(n) \in Seq(Nat) /\ Denoted(Zeros(n), base) = 0
      BY <1>2, ZerosFacts
    <2>2. Denoted(Append(Zeros(n), 0), base) = base * 0 + 0
      BY <2>1, DenotedAppend
    <2>3. Zeros(n + 1) = Append(Zeros(n), 0)
      BY ZerosNext
    <2>4. base * 0 + 0 = 0 /\ n + 1 \in Nat
      OBVIOUS
    <2> QED
      BY <2>2, <2>3, <2>4
  <1>3. Nat \subseteq K
    <2> HIDE DEF K
    <2> QED
      BY <1>1, <1>2, NaturalsByInduction
  <1>4. z \in Seq(Nat) /\ Denoted(z, base) = 0
    BY <1>3, ZerosFacts
  <1> HIDE DEF z
  <1>5. << >> \in S
    <2>1. z \o << >> = z /\ << >> \in Seq(Nat)
      BY <1>4, ConcatEmptySeq
    <2> QED
      BY <1>4, <2>1, DenotedEmpty
  <1>6. ASSUME NEW s \in Seq(Nat), NEW x \in Nat, s \in S PROVE Append(s, x) \in S
    <2>1. z \o Append(s, x) = Append(z \o s, x)
      BY <1>4, ConcatAppend
    <2>2. z \o s \in Seq(Nat) /\ Append(s, x) \in Seq(Nat)
      BY <1>4, ConcatProperties, AppendProperties
    <2>3. /\ Denoted(Append(z \o s, x), base) = base * Denoted(z \o s, base) + x
          /\ Denoted(Append(s, x), base) = base * Denoted(s, base) + x
      BY <2>2, DenotedAppend
    <2>4. Denoted(z \o s, base) = Denoted(s, base)
      BY <1>6
    <2> QED
      BY <2>1, <2>2, <2>3, <2>4
  <1>7. Seq(Nat) \subseteq S
    <2> HIDE DEF S
    <2> QED
      BY <1>5, <1>6, ByAppending
  <1> QED
    BY <1>7 DEF z

\* No leading zero.
Trim(t) == t = << >> \/ t[1] # 0

\* Leading zeros, and the rest.
LEMMA ZerosFirst ==
  ASSUME NEW X, X \subseteq Nat, 0 \in X, NEW s \in Seq(X)
  PROVE  \E k \in Nat, t \in Seq(X) : s = Zeros(k) \o t /\ Trim(t)
  <1> DEFINE S == {u \in Seq(X) : \E k \in Nat, t \in Seq(X) : u = Zeros(k) \o t /\ Trim(t)}
  <1>1. << >> \in S
    <2>1. << >> \in Seq(X) /\ << >> = Zeros(0) \o << >>
      BY DEF Zeros
    <2> QED
      BY <2>1 DEF Trim
  <1>2. ASSUME NEW u \in Seq(X), NEW x \in X, u \in S PROVE Append(u, x) \in S
    <2>1. PICK k \in Nat, t \in Seq(X) : u = Zeros(k) \o t /\ Trim(t)
      BY <1>2
    <2>2. Append(u, x) \in Seq(X) /\ Zeros(k) \in Seq(X)
      BY AppendProperties, ZerosFacts
    <2>3. CASE t = << >>
      <3>1. u = Zeros(k)
        BY <2>1, <2>2, <2>3, ConcatEmptySeq
      <3>2. CASE x = 0
        <4>0. k + 1 \in Nat
          OBVIOUS
        <4>1. Append(u, x) = Zeros(k + 1) /\ k + 1 \in Nat /\ Zeros(k + 1) \in Seq(X)
          BY <3>1, <3>2, <4>0, ZerosNext, ZerosFacts
        <4>2. Append(u, x) = Zeros(k + 1) \o << >> /\ << >> \in Seq(X) /\ Trim(<< >>)
          BY <4>1, ConcatEmptySeq DEF Trim
        <4> QED
          BY <2>2, <4>1, <4>2
      <3>3. CASE x # 0
        <4>1. << x >> \in Seq(X) /\ Trim(<< x >>)
          BY <3>3 DEF Trim
        <4>2. Append(u, x) = Zeros(k) \o << x >>
          BY <2>2, <3>1, AppendIsConcat
        <4> QED
          BY <2>2, <4>1, <4>2
      <3> QED
        BY <3>2, <3>3
    <2>4. CASE t # << >>
      <3>0. Zeros(k) \o Append(t, x) = Append(Zeros(k) \o t, x)
        BY <2>2, ConcatAppend
      <3>1. Append(u, x) = Zeros(k) \o Append(t, x)
        BY <2>1, <3>0
      <3>2. Append(t, x) \in Seq(X)
        BY AppendProperties
      <3>3. Trim(Append(t, x))
        <4>1. t[1] # 0 /\ Len(t) \in Nat /\ Len(t) # 0
          BY <2>1, <2>4, EmptySeq, LenProperties DEF Trim
        <4>2. 1 \in 1 .. Len(t)
          BY <4>1
        <4>3. Append(t, x)[1] = t[1]
          BY <4>2, AppendProperties
        <4> QED
          BY <4>1, <4>3 DEF Trim
      <3> QED
        BY <2>2, <3>1, <3>2, <3>3
    <2> QED
      BY <2>3, <2>4
  <1>3. Seq(X) \subseteq S
    <2> HIDE DEF S
    <2> QED
      BY <1>1, <1>2, ByAppending
  <1> QED
    BY <1>3

\* The leading zeros of a number that is padded with them.
LEMMA LeadingZerosOf ==
  ASSUME NEW k \in Nat, NEW t \in Seq(Nat), Trim(t)
  PROVE  LeadingZeros(Zeros(k) \o t) = k
  <1> DEFINE s == Zeros(k) \o t
             P(n) == (\A i \in 1 .. n : s[i] = 0) /\ (n < Len(s) => s[n + 1] # 0)
  <1>1. Zeros(k) \in Seq(Nat) /\ Len(Zeros(k)) = k /\ \A i \in 1 .. k : Zeros(k)[i] = 0
    BY ZerosFacts
  <1>2. /\ Len(s) = k + Len(t) /\ Len(t) \in Nat
        /\ \A i \in 1 .. k + Len(t) : s[i] = IF i <= k THEN Zeros(k)[i] ELSE t[i - k]
    <2> DEFINE z == Zeros(k)
    <2>1. z \in Seq(Nat) /\ Len(z) = k
      BY <1>1
    <2>2. Len(t) \in Nat
      BY LenProperties
    <2> HIDE DEF z
    <2>3. /\ Len(z \o t) = Len(z) + Len(t)
          /\ \A i \in 1 .. Len(z) + Len(t) : (z \o t)[i] = IF i <= Len(z) THEN z[i] ELSE t[i - Len(z)]
      BY <2>1, ConcatProperties
    <2> QED
      BY <2>1, <2>2, <2>3 DEF z
  <1>3. LeadingZeros(s) = CHOOSE n \in 0 .. Len(s) : P(n)
    BY DEF LeadingZeros
  <1>5. Len(t) > 0 => t[1] # 0
    BY <1>2, EmptySeq DEF Trim
  <1> HIDE DEF s
  <1>4. k \in 0 .. Len(s) /\ P(k)
    <2>1. \A i \in 1 .. k : s[i] = 0
      BY <1>1, <1>2
    <2>2. ASSUME k < Len(s) PROVE s[k + 1] # 0
      <3>1. k + 1 \in 1 .. k + Len(t) /\ ~(k + 1 <= k) /\ (k + 1) - k = 1 /\ Len(t) > 0
        BY <1>2, <2>2
      <3> QED
        BY <1>2, <1>5, <3>1
    <2> QED
      BY <1>2, <2>1, <2>2
  <1>6. ASSUME NEW n \in 0 .. Len(s), P(n) PROVE n = k
    <2>1. CASE n < k
      <3>1. n < Len(s) /\ n + 1 \in 1 .. k
        BY <1>2, <2>1
      <3>2. s[n + 1] = 0
        BY <1>4, <3>1
      <3> QED
        BY <1>6, <3>1, <3>2
    <2>2. CASE n > k
      <3>1. k < Len(s) /\ k + 1 \in 1 .. n
        BY <1>2, <2>2
      <3>2. s[k + 1] = 0 /\ s[k + 1] # 0
        BY <1>4, <1>6, <3>1
      <3> QED
        BY <3>2
    <2> QED
      BY <1>2, <2>1, <2>2
  <1> DEFINE z == CHOOSE n \in 0 .. Len(s) : P(n)
  <1>7. z \in 0 .. Len(s) /\ P(z)
    <2> HIDE DEF P
    <2> QED
      BY <1>4
  <1> HIDE DEF z, P
  <1>8. z = k
    BY <1>6, <1>7
  <1> QED
    BY <1>3, <1>8 DEF z, s

\* The digits of a number denote it, and the first is none of the leading zeros.
LEMMA DenotedShortest ==
  ASSUME NEW base \in Nat, base > 1, NEW n \in Nat
  PROVE  Denoted(Shortest(n, base), base) = n /\ Trim(Shortest(n, base))
  <1> DEFINE Q(m) == Denoted(Shortest(m, base), base) = m /\ Trim(Shortest(m, base))
                     /\ (m > 0 => Shortest(m, base) # << >>)
             S == {k \in Nat : \A m \in 0 .. k : Q(m)}
  <1>0. Q(0)
    <2>1. Shortest(0, base) = << >>
      BY ShortestRecursion
    <2> QED
      BY <2>1, DenotedEmpty DEF Trim
  <1>1. 0 \in S
    <2> HIDE DEF Q
    <2>1. 0 .. 0 = {0}
      OBVIOUS
    <2> QED
      BY <1>0, <2>1
  <1>2. ASSUME NEW k \in Nat, k \in S PROVE k + 1 \in S
    <2>1. ASSUME NEW m \in Nat, m = k + 1 PROVE Q(m)
      <3> DEFINE h == m \div base
                 d == m % base
                 s == Shortest(h, base)
      <3>1. h \in Nat /\ d \in 0 .. base - 1 /\ m = d + base * h /\ (m >= base => h < m)
        BY Division
      <3>2. s \in Seq(0 .. base - 1) /\ Shortest(m, base) = Append(s, d)
        <4>1. m \in Nat \ {0}
          BY <2>1
        <4> QED
          BY <3>1, <4>1, ShortestRecursion
      <3> HIDE DEF s, h, d
      <3>3. h <= k
        <4>1. CASE m >= base
          BY <2>1, <3>1, <4>1
        <4>2. CASE m < base
          <5>1. h = 0 \/ h >= 1
            BY <3>1
          <5>2. ASSUME h >= 1 PROVE FALSE
            <6>1. base * h >= base * 1
              BY <3>1, <5>2
            <6> QED
              BY <3>1, <4>2, <6>1
          <5> QED
            BY <2>1, <5>1, <5>2
        <4> QED
          BY <4>1, <4>2, <2>1
      <3>4. Q(h)
        <4> HIDE DEF Q
        <4> QED
          BY <1>2, <3>1, <3>3
      <3>5. Denoted(s, base) = h /\ Trim(s) /\ (h > 0 => s # << >>)
        BY <3>4 DEF s
      <3>6. s \in Seq(Nat) /\ d \in Nat
        <4>1. 0 .. base - 1 \subseteq Nat
          OBVIOUS
        <4> QED
          BY <3>1, <3>2, <4>1
      <3>7. Denoted(Append(s, d), base) = base * h + d
        BY <3>5, <3>6, DenotedAppend
      <3>8. base * h + d = m
        BY <3>1
      <3>9. Append(s, d) # << >> /\ Append(s, d)[1] # 0
        <4>1. CASE s = << >>
          <5>1. h = 0
            BY <3>1, <3>5, <4>1
          <5>2. d = m /\ m # 0
            BY <2>1, <3>1, <5>1
          <5>3. Append(s, d) = << d >>
            BY <4>1
          <5> QED
            BY <5>2, <5>3
        <4>2. CASE s # << >>
          <5>1. s[1] # 0 /\ Len(s) \in Nat /\ Len(s) # 0
            BY <3>5, <3>6, <4>2, EmptySeq, LenProperties DEF Trim
          <5>2. 1 \in 1 .. Len(s)
            BY <5>1
          <5>3. Append(s, d)[1] = s[1] /\ Append(s, d) # << >>
            BY <3>6, <5>2, AppendProperties
          <5> QED
            BY <5>1, <5>3
        <4> QED
          BY <4>1, <4>2
      <3> QED
        BY <3>2, <3>7, <3>8, <3>9 DEF Trim
    <2> HIDE DEF Q
    <2> SUFFICES ASSUME NEW m \in 0 .. k + 1 PROVE Q(m)
      OBVIOUS
    <2>2. m \in 0 .. k \/ (m = k + 1 /\ m \in Nat)
      OBVIOUS
    <2> QED
      BY <1>2, <2>1, <2>2
  <1>3. Nat \subseteq S
    <2> HIDE DEF S
    <2> QED
      BY <1>1, <1>2, NaturalsByInduction
  <1>4. Q(n)
    <2>1. n \in 0 .. n
      OBVIOUS
    <2> HIDE DEF Q
    <2> QED
      BY <1>3, <2>1
  <1> QED
    BY <1>4

\* Digits without leading zeros are the shortest of the number they denote.
LEMMA ShortestDenoted ==
  ASSUME NEW base \in Nat, base > 1, NEW s \in Seq(0 .. base - 1), Trim(s)
  PROVE  Shortest(Denoted(s, base), base) = s
  <1> DEFINE X == 0 .. base - 1
             Q(t) == /\ Denoted(t, base) \in Nat
                     /\ Trim(t) => /\ Shortest(Denoted(t, base), base) = t
                                   /\ t # << >> => Denoted(t, base) > 0
             S == {t \in Seq(X) : Q(t)}
  <1>1. << >> \in S
    <2>1. Denoted(<< >>, base) = 0 /\ Shortest(0, base) = << >> /\ << >> \in Seq(X)
      BY DenotedEmpty, ShortestRecursion
    <2>2. Q(<< >>)
      BY <2>1
    <2> HIDE DEF Q
    <2> QED
      BY <2>1, <2>2
  <1>2. ASSUME NEW t \in Seq(X), NEW x \in X, t \in S PROVE Append(t, x) \in S
    <2> DEFINE u == Append(t, x)
               n == Denoted(t, base)
               m == Denoted(u, base)
    <2>0. x \in Nat /\ x <= base - 1
      OBVIOUS
    <2>1. t \in Seq(Nat) /\ u \in Seq(X)
      <3>1. X \subseteq Nat
        OBVIOUS
      <3> HIDE DEF X
      <3> QED
        BY <3>1, AppendProperties, SeqMonotonic
    <2>2. n \in Nat /\ m = base * n + x
      BY <2>0, <2>1, DenotedAppend
    <2>3. m \in Nat
      <3> DEFINE p == base * n
      <3> HIDE DEF n, m
      <3>1. p \in Nat
        BY <2>2
      <3>2. m = p + x
        BY <2>2
      <3> HIDE DEF p
      <3> QED
        BY <2>0, <3>1, <3>2
    <2>4. ASSUME Trim(u) PROVE Trim(t) /\ m > 0
      <3>1. CASE t = << >>
        <4>1. u = << x >> /\ n = 0
          BY <3>1, DenotedEmpty
        <4>2. x # 0
          BY <2>4, <4>1 DEF Trim
        <4>3. m > 0
          <5> HIDE DEF n, m
          <5> QED
            BY <2>0, <2>2, <4>1, <4>2
        <4> QED
          BY <3>1, <4>3 DEF Trim
      <3>2. CASE t # << >>
        <4>1. Len(t) \in Nat /\ Len(t) # 0
          BY <2>1, <3>2, EmptySeq, LenProperties
        <4>2. 1 \in 1 .. Len(t)
          BY <4>1
        <4>3. u[1] = t[1] /\ u # << >>
          BY <2>0, <2>1, <4>2, AppendProperties
        <4>4. Trim(t)
          <5> HIDE DEF u
          <5> QED
            BY <2>4, <4>3 DEF Trim
        <4>5. n > 0
          <5> HIDE DEF u, m
          <5> QED
            BY <1>2, <3>2, <4>4
        <4>6. m > 0
          <5> HIDE DEF n, m
          <5> DEFINE p == base * n
          <5>1. p >= 1 * n /\ p \in Nat
            BY <2>2
          <5>2. m = p + x
            BY <2>2
          <5> HIDE DEF p
          <5> QED
            BY <2>0, <2>2, <4>5, <5>1, <5>2
        <4> QED
          BY <4>4, <4>6
      <3> QED
        BY <3>1, <3>2
    <2>5. ASSUME Trim(u) PROVE Shortest(m, base) = u
      <3>1. m \in Nat \ {0}
        BY <2>3, <2>4, <2>5
      <3>2. Shortest(m, base) = Append(Shortest(m \div base, base), m % base)
        BY <3>1, ShortestRecursion
      <3>3. m = x + base * n
        <4> HIDE DEF n, m
        <4>1. base * n \in Nat
          BY <2>2
        <4> QED
          BY <2>0, <2>2, <4>1
      <3>4. m \div base = n /\ m % base = x
        <4>1. (x + base * n) \div base = n /\ (x + base * n) % base = x
          BY <2>2, DivisionOf
        <4> HIDE DEF n, m
        <4> QED
          BY <3>3, <4>1
      <3>5. Shortest(n, base) = t
        BY <1>2, <2>4, <2>5
      <3> QED
        BY <3>2, <3>4, <3>5
    <2>6. Q(u)
      <3>1. Trim(u) => m > 0 /\ Shortest(m, base) = u
        BY <2>4, <2>5
      <3> QED
        BY <2>3, <3>1
    <2> HIDE DEF Q, u
    <2>7. u \in S
      BY <2>1, <2>6
    <2> QED
      BY <2>7 DEF u
  <1>3. Seq(X) \subseteq S
    <2> HIDE DEF S, X
    <2> QED
      BY <1>1, <1>2, ByAppending
  <1> QED
    BY <1>3

-----------------------------------------------------------------------------
(* Digests. *)

\* What base58_decode accepts is bytes, of which base58_encode makes the text again.
LEMMA DigestFacts ==
  ASSUME NEW text \in Seq(Nat)
  PROVE  \/ Base58Decode(text) = Refused
         \/ /\ Base58Decode(text) \in Seq(Byte)
            /\ Base58Encode(Base58Decode(text)) = text
  <1> DEFINE A == 0 .. Alphabet - 1
  <1>1. CASE \E i \in DOMAIN text : text[i] >= Alphabet
    BY <1>1 DEF Base58Decode
  <1>2. CASE ~ \E i \in DOMAIN text : text[i] >= Alphabet
    <2>a. /\ Base \in Nat /\ Base > 1 /\ Alphabet \in Nat /\ Alphabet > 1 /\ HexBase * HexBase = Base
          /\ Byte = 0 .. Base - 1
      BY HexFacts
    <2>1. text \in Seq(A)
      <3>1. DOMAIN text = 1 .. Len(text) /\ Len(text) \in Nat /\ text = [i \in 1 .. Len(text) |-> text[i]]
        BY LenProperties
      <3>2. ASSUME NEW i \in 1 .. Len(text) PROVE text[i] \in A
        <4>1. text[i] \in Nat /\ ~(text[i] >= Alphabet)
          BY <1>2, <3>1, ElementOfSeq
        <4> QED
          BY <2>a, <4>1
      <3> HIDE DEF A
      <3> QED
        BY <3>1, <3>2 DEF Seq
    <2>2. PICK k \in Nat, t \in Seq(A) : text = Zeros(k) \o t /\ Trim(t)
      <3>1. A \subseteq Nat /\ 0 \in A
        BY <2>a
      <3> HIDE DEF A
      <3> QED
        BY <2>1, <3>1, ZerosFirst
    <2>3. t \in Seq(Nat)
      <3>1. A \subseteq Nat
        BY <2>a
      <3> HIDE DEF A
      <3> QED
        BY <3>1, SeqMonotonic
    <2> DEFINE n == Denoted(t, Alphabet)
               s == Shortest(n, Base)
               bytes == Zeros(k) \o s
    <2>4. n \in Nat /\ Denoted(text, Alphabet) = n /\ LeadingZeros(text) = k
      <3>1. Denoted(t, Alphabet) \in Nat
        BY <2>3, <2>a, DenotedAppend
      <3> QED
        BY <2>2, <2>3, <2>a, <3>1, DenotedZeros, LeadingZerosOf
    <2>5. Shortest(n, Alphabet) = t
      BY <2>2, <2>a, ShortestDenoted
    <2> HIDE DEF n
    <2>6. Base58Decode(text) = bytes
      BY <1>2, <2>4, <2>a DEF Base58Decode
    <2>7. s \in Seq(Byte) /\ Denoted(s, Base) = n /\ Trim(s)
      BY <2>4, <2>a, DenotedShortest, ShortestRecursion
    <2> HIDE DEF s
    <2>8. bytes \in Seq(Byte)
      <3>1. 0 \in Byte
        BY <2>a
      <3>2. Zeros(k) \in Seq(Byte)
        BY <3>1, ZerosFacts
      <3> QED
        BY <2>7, <3>2, ConcatProperties
    <2>9. LeadingZeros(bytes) = k /\ Denoted(bytes, Base) = n
      <3>1. s \in Seq(Nat)
        <4>1. Byte \subseteq Nat
          BY <2>a
        <4> QED
          BY <2>7, <4>1, SeqMonotonic
      <3> QED
        BY <2>7, <2>a, <3>1, DenotedZeros, LeadingZerosOf
    <2> HIDE DEF bytes
    <2>10. Base58Encode(bytes) = Zeros(k) \o Shortest(n, Alphabet)
      BY <2>9, <2>a DEF Base58Encode
    <2> QED
      BY <2>2, <2>5, <2>6, <2>8, <2>10
  <1> QED
    BY <1>1, <1>2

-----------------------------------------------------------------------------
(* What the node expects, what is written, what it sees and what was meant. *)

\* The words of the schema and of what is meant.
Words == {"", "plain", "vec", "enum", "uint", "bool", "uleb", "bytes", "str", "fixed", "length",
          "TransactionData", "TransactionKind", "CallArg", "ObjectArg", "Command", "Argument", "TypeTag", "Expiration",
          "ObjectRef", "Module", "Dependency",
          "sender", "owner", "object", "package", "address", "dependency",
          "version", "digest", "price", "budget", "epoch", "pure", "mutable", "index", "nested",
          "module", "function", "tag_module", "tag_name", "code",
          "gas", "input", "result", "owned", "shared", "receiving",
          "moveCall", "transfer", "split", "merge", "publish", "u8", "vector", "struct"}

\* What the node may expect.
Things == [shape : Words, kind : Words, width : Nat, of : Words, role : Words]

\* The values of fields.
Data == Int \cup BOOLEAN \cup Seq(Nat) \cup {Refused}

\* A field, refused or not, is of its kind.
Fields ==
  {v \in [kind : Kinds, width : Nat, value : Data] :
     /\ v.kind \in {"uint", "uleb"} => v.value \in Int
     /\ v.kind \in {"bool", "option"} => v.value \in BOOLEAN
     /\ v.kind \in {"bytes", "fixed"} => v.value = Refused \/ v.value \in Seq(Byte)
     /\ v.kind = "fixed" => v.value = Refused \/ v.width = Len(v.value)
     /\ v.kind = "str" => v.value \in Seq(Nat)}

\* What the node sees: values in their roles.
Sights == [role : Words, value : Data]

\* What is meant: values, words and pure values in their roles.
Facts == [role : Words, meant : Data \cup Words \cup [kind : Words, width : Nat, value : Data]]

-----------------------------------------------------------------------------
(* Which fields the node reads where it expects some things. *)

\* The field is what the thing asks for; the width of an address is another matter.
Match(h, v) == h.kind = v.kind /\ h.width = IF h.kind = "fixed" THEN AddressLength ELSE v.width

\* What is seen of a field.
Own(h, v) == IF h.role \in Structure THEN << >> ELSE << [role |-> h.role, value |-> v.value] >>

\* Things, the fields they are read as, and what is seen of these.
Readings == Seq(Things) \X Seq(Fields) \X Seq(Sights)

\* Nothing is expected of nothing; a field is read, and then what is below it and the rest.
Closed(Q) ==
  /\ << << >>, << >>, << >> >> \in Q
  /\ \A h \in Things, v \in Fields, things \in Seq(Things), fields \in Seq(Fields), seen \in Seq(Sights) :
       (Match(h, v) /\ Below(h, v.value) \in Seq(Things) /\ << Below(h, v.value) \o things, fields, seen >> \in Q)
         => << << h >> \o things, << v >> \o fields, Own(h, v) \o seen >> \in Q

\* The readings that follow from that: those in every closed set.
Accepted == {x \in Readings : \A Q \in SUBSET Readings : Closed(Q) => x \in Q}

\* What is seen of a field is a sight or nothing.
LEMMA OwnSights ==
  ASSUME NEW h \in Things, NEW v \in Fields
  PROVE  Own(h, v) \in Seq(Sights)
  <1>1. h.role \in Words /\ v.value \in Data
    BY DEF Things, Fields
  <1>2. [role |-> h.role, value |-> v.value] \in Sights
    BY <1>1 DEF Sights
  <1> QED
    BY <1>2 DEF Own

\* The accepted readings are closed themselves.
LEMMA AcceptedClosed == Closed(Accepted)
  <1>1. << << >>, << >>, << >> >> \in Accepted
    <2>1. << << >>, << >>, << >> >> \in Readings
      BY EmptySeq DEF Readings
    <2> QED
      BY <2>1 DEF Accepted, Closed
  <1>2. ASSUME NEW h \in Things, NEW v \in Fields,
               NEW things \in Seq(Things), NEW fields \in Seq(Fields), NEW seen \in Seq(Sights),
               Match(h, v), Below(h, v.value) \in Seq(Things),
               << Below(h, v.value) \o things, fields, seen >> \in Accepted
        PROVE  << << h >> \o things, << v >> \o fields, Own(h, v) \o seen >> \in Accepted
    <2>1. /\ << h >> \o things \in Seq(Things) /\ << v >> \o fields \in Seq(Fields)
          /\ Own(h, v) \o seen \in Seq(Sights)
      <3>1. << h >> \in Seq(Things) /\ << v >> \in Seq(Fields)
        OBVIOUS
      <3> QED
        BY <3>1, OwnSights, ConcatProperties
    <2>2. << << h >> \o things, << v >> \o fields, Own(h, v) \o seen >> \in Readings
      BY <2>1 DEF Readings
    <2>3. ASSUME NEW Q \in SUBSET Readings, Closed(Q)
          PROVE  << << h >> \o things, << v >> \o fields, Own(h, v) \o seen >> \in Q
      <3>1. << Below(h, v.value) \o things, fields, seen >> \in Q
        BY <1>2, <2>3 DEF Accepted
      <3> QED
        BY <1>2, <2>3, <3>1 DEF Closed
    <2> QED
      BY <2>2, <2>3 DEF Accepted
  <1> QED
    BY <1>1, <1>2 DEF Closed

\* Only by these rules.
Comes(x) ==
  \/ x = << << >>, << >>, << >> >>
  \/ \E h \in Things, v \in Fields, things \in Seq(Things), fields \in Seq(Fields), seen \in Seq(Sights) :
       /\ Match(h, v) /\ Below(h, v.value) \in Seq(Things)
       /\ << Below(h, v.value) \o things, fields, seen >> \in Accepted
       /\ x = << << h >> \o things, << v >> \o fields, Own(h, v) \o seen >>

\* An accepted reading is of nothing, or begins with a field that is read.
LEMMA AcceptedComes ==
  ASSUME NEW x \in Accepted
  PROVE  Comes(x)
  <1> DEFINE Q == {y \in Accepted : Comes(y)}
  <1>1. Q \in SUBSET Readings
    BY DEF Accepted
  <1>2. << << >>, << >>, << >> >> \in Q
    BY AcceptedClosed DEF Closed, Comes
  <1>3. ASSUME NEW h \in Things, NEW v \in Fields,
               NEW things \in Seq(Things), NEW fields \in Seq(Fields), NEW seen \in Seq(Sights),
               Match(h, v), Below(h, v.value) \in Seq(Things),
               << Below(h, v.value) \o things, fields, seen >> \in Q
        PROVE  << << h >> \o things, << v >> \o fields, Own(h, v) \o seen >> \in Q
    <2> DEFINE y == << << h >> \o things, << v >> \o fields, Own(h, v) \o seen >>
    <2>1. << Below(h, v.value) \o things, fields, seen >> \in Accepted
      BY <1>3
    <2>2. y \in Accepted
      BY <1>3, <2>1, AcceptedClosed DEF Closed
    <2>3. Comes(y)
      BY <1>3, <2>1 DEF Comes
    <2>4. y \in Q
      <3> HIDE DEF y
      <3> QED
        BY <2>2, <2>3
    <2> QED
      BY <2>4
  <1>4. Closed(Q)
    <2> HIDE DEF Q
    <2> QED
      BY <1>2, <1>3 DEF Closed
  <1>5. x \in Q
    <2> HIDE DEF Q
    <2> QED
      BY <1>1, <1>4 DEF Accepted
  <1> QED
    BY <1>5
\* Things, the fields that are read where they are expected, and what is seen of those,
\* whatever is expected, read and seen behind them.
Reads(things, fields, seen) ==
  \A rest \in Seq(Things), more \in Seq(Fields), others \in Seq(Sights) :
    << rest, more, others >> \in Accepted => << things \o rest, fields \o more, seen \o others >> \in Accepted

\* Nothing is read as nothing.
LEMMA ReadsNothing == Reads(<< >>, << >>, << >>)
  <1> SUFFICES ASSUME NEW rest \in Seq(Things), NEW more \in Seq(Fields), NEW others \in Seq(Sights),
                      << rest, more, others >> \in Accepted
               PROVE  << << >> \o rest, << >> \o more, << >> \o others >> \in Accepted
    BY DEF Reads
  <1>1. << >> \o rest = rest /\ << >> \o more = more /\ << >> \o others = others
    BY ConcatEmptySeq
  <1> QED
    BY <1>1

\* Two readings, one after the other.
LEMMA ReadsBoth ==
  ASSUME NEW things1 \in Seq(Things), NEW fields1 \in Seq(Fields), NEW seen1 \in Seq(Sights),
         NEW things2 \in Seq(Things), NEW fields2 \in Seq(Fields), NEW seen2 \in Seq(Sights),
         Reads(things1, fields1, seen1), Reads(things2, fields2, seen2)
  PROVE  Reads(things1 \o things2, fields1 \o fields2, seen1 \o seen2)
  <1> SUFFICES ASSUME NEW rest \in Seq(Things), NEW more \in Seq(Fields), NEW others \in Seq(Sights),
                      << rest, more, others >> \in Accepted
               PROVE  << (things1 \o things2) \o rest, (fields1 \o fields2) \o more,
                         (seen1 \o seen2) \o others >> \in Accepted
    BY DEF Reads
  <1>1. << things2 \o rest, fields2 \o more, seen2 \o others >> \in Accepted
    BY DEF Reads
  <1>2. /\ things2 \o rest \in Seq(Things) /\ fields2 \o more \in Seq(Fields)
        /\ seen2 \o others \in Seq(Sights)
    BY ConcatProperties
  <1>3. << things1 \o (things2 \o rest), fields1 \o (fields2 \o more), seen1 \o (seen2 \o others) >>
          \in Accepted
    BY <1>1, <1>2 DEF Reads
  <1>a. Associates(Things) /\ Associates(Fields) /\ Associates(Sights)
    BY Associative
  <1>4. (things1 \o things2) \o rest = things1 \o (things2 \o rest)
    BY <1>a, ZenonT(40) DEF Associates
  <1>5. (fields1 \o fields2) \o more = fields1 \o (fields2 \o more)
    BY <1>a, ZenonT(40) DEF Associates
  <1>6. (seen1 \o seen2) \o others = seen1 \o (seen2 \o others)
    BY <1>a, ZenonT(40) DEF Associates
  <1> QED
    BY <1>3, <1>4, <1>5, <1>6

\* A reading of a thing is a field and a reading of what is below it.
LEMMA ReadsThing ==
  ASSUME NEW h \in Things, NEW v \in Fields, Match(h, v), Below(h, v.value) \in Seq(Things),
         NEW fields \in Seq(Fields), NEW seen \in Seq(Sights), Reads(Below(h, v.value), fields, seen)
  PROVE  Reads(<< h >>, << v >> \o fields, Own(h, v) \o seen)
  <1> SUFFICES ASSUME NEW rest \in Seq(Things), NEW more \in Seq(Fields), NEW others \in Seq(Sights),
                      << rest, more, others >> \in Accepted
               PROVE  << << h >> \o rest, (<< v >> \o fields) \o more, (Own(h, v) \o seen) \o others >>
                        \in Accepted
    BY DEF Reads
  <1>1. << Below(h, v.value) \o rest, fields \o more, seen \o others >> \in Accepted
    BY DEF Reads
  <1>2. fields \o more \in Seq(Fields) /\ seen \o others \in Seq(Sights)
        /\ << v >> \in Seq(Fields) /\ Own(h, v) \in Seq(Sights)
    BY OwnSights, ConcatProperties
  <1>3. << << h >> \o rest, << v >> \o (fields \o more), Own(h, v) \o (seen \o others) >> \in Accepted
    BY <1>1, <1>2, AcceptedClosed DEF Closed
  <1>a. Associates(Fields) /\ Associates(Sights)
    BY Associative
  <1>4. (<< v >> \o fields) \o more = << v >> \o (fields \o more)
    BY <1>2, <1>a, ZenonT(40) DEF Associates
  <1>5. (Own(h, v) \o seen) \o others = Own(h, v) \o (seen \o others)
    BY <1>2, <1>a, ZenonT(40) DEF Associates
  <1> QED
    BY <1>3, <1>4, <1>5

-----------------------------------------------------------------------------
(* A part of a block: the things that it is read as, its fields and facts. *)

\* What is seen is what was meant, unless a name is bad or refused.
Meets(seen, facts) ==
  /\ Len(seen) = Len(facts)
  /\ \A k \in 1 .. Len(facts) :
       /\ seen[k].role = facts[k].role
       /\ Named(facts[k]) /\ seen[k].value # Refused => Means(seen[k].role, seen[k].value, facts[k].meant)

\* The fields, unless one is refused, are those that the node expects; if every type argument
\* was meant (good), the node sees the facts, and facts that are sound have fields that can be
\* written.
Laid(things, fields, facts, good) ==
  /\ things \in Seq(Things) /\ fields \in Seq(Fields) /\ facts \in Seq(Facts)
  /\ Serializable(fields) =>
       \E seen \in Seq(Sights) : Reads(things, fields, seen) /\ (good => Meets(seen, facts))
  /\ good /\ (\A k \in 1 .. Len(facts) : SoundFact(facts[k])) => Serializable(fields)

\* What is seen of two parts meets the facts of both.
LEMMA MeetsBoth ==
  ASSUME NEW seen1 \in Seq(Sights), NEW facts1 \in Seq(Facts), Meets(seen1, facts1),
         NEW seen2 \in Seq(Sights), NEW facts2 \in Seq(Facts), Meets(seen2, facts2)
  PROVE  Meets(seen1 \o seen2, facts1 \o facts2)
  <1> DEFINE seen == seen1 \o seen2
             facts == facts1 \o facts2
  <1>1. /\ Len(seen) = Len(seen1) + Len(seen2) /\ Len(facts) = Len(facts1) + Len(facts2)
        /\ \A i \in 1 .. Len(seen1) + Len(seen2) :
             seen[i] = IF i <= Len(seen1) THEN seen1[i] ELSE seen2[i - Len(seen1)]
        /\ \A i \in 1 .. Len(facts1) + Len(facts2) :
             facts[i] = IF i <= Len(facts1) THEN facts1[i] ELSE facts2[i - Len(facts1)]
    BY ConcatProperties
  <1>2. Len(seen1) = Len(facts1) /\ Len(seen2) = Len(facts2) /\ Len(facts1) \in Nat /\ Len(facts2) \in Nat
    BY LenProperties DEF Meets
  <1> HIDE DEF seen, facts
  <1>3. ASSUME NEW k \in 1 .. Len(facts)
        PROVE  /\ seen[k].role = facts[k].role
               /\ Named(facts[k]) /\ seen[k].value # Refused
                    => Means(seen[k].role, seen[k].value, facts[k].meant)
    <2>1. CASE k <= Len(facts1)
      <3>1. k \in 1 .. Len(facts1) /\ seen[k] = seen1[k] /\ facts[k] = facts1[k]
        BY <1>1, <1>2, <2>1
      <3> QED
        BY <3>1 DEF Meets
    <2>2. CASE ~(k <= Len(facts1))
      <3>1. /\ k - Len(facts1) \in 1 .. Len(facts2)
            /\ seen[k] = seen2[k - Len(facts1)] /\ facts[k] = facts2[k - Len(facts1)]
        BY <1>1, <1>2, <2>2
      <3> QED
        BY <3>1 DEF Meets
    <2> QED
      BY <2>1, <2>2
  <1>4. Len(seen) = Len(facts)
    BY <1>1, <1>2
  <1> QED
    BY <1>3, <1>4 DEF Meets, seen, facts

\* Two parts that can be written can be written together,
LEMMA SerializableBoth ==
  ASSUME NEW fields1 \in Seq(Fields), NEW fields2 \in Seq(Fields),
         Serializable(fields1), Serializable(fields2)
  PROVE  Serializable(fields1 \o fields2)
  <1> DEFINE fields == fields1 \o fields2
  <1>1. /\ fields \in Seq(Fields) /\ Len(fields) = Len(fields1) + Len(fields2)
        /\ \A i \in 1 .. Len(fields1) + Len(fields2) :
             fields[i] = IF i <= Len(fields1) THEN fields1[i] ELSE fields2[i - Len(fields1)]
    BY ConcatProperties
  <1>2. /\ DOMAIN fields = 1 .. Len(fields) /\ DOMAIN fields1 = 1 .. Len(fields1)
        /\ DOMAIN fields2 = 1 .. Len(fields2) /\ Len(fields1) \in Nat /\ Len(fields2) \in Nat
    BY <1>1, LenProperties
  <1> HIDE DEF fields
  <1>3. ASSUME NEW i \in 1 .. Len(fields) PROVE fields[i].value # Refused /\ InRange(fields[i])
    <2>1. CASE i <= Len(fields1)
      <3>1. i \in 1 .. Len(fields1) /\ fields[i] = fields1[i]
        BY <1>1, <1>2, <2>1
      <3> QED
        BY <1>2, <3>1 DEF Serializable
    <2>2. CASE ~(i <= Len(fields1))
      <3>1. i - Len(fields1) \in 1 .. Len(fields2) /\ fields[i] = fields2[i - Len(fields1)]
        BY <1>1, <1>2, <2>2
      <3> QED
        BY <1>2, <3>1 DEF Serializable
    <2> QED
      BY <2>1, <2>2
  <1> QED
    BY <1>2, <1>3 DEF Serializable, fields

\* and only those.
LEMMA SerializableParts ==
  ASSUME NEW fields1 \in Seq(Fields), NEW fields2 \in Seq(Fields), Serializable(fields1 \o fields2)
  PROVE  Serializable(fields1) /\ Serializable(fields2)
  <1> DEFINE fields == fields1 \o fields2
  <1>1. /\ fields \in Seq(Fields) /\ Len(fields) = Len(fields1) + Len(fields2)
        /\ \A i \in 1 .. Len(fields1) + Len(fields2) :
             fields[i] = IF i <= Len(fields1) THEN fields1[i] ELSE fields2[i - Len(fields1)]
    BY ConcatProperties
  <1>2. /\ DOMAIN fields = 1 .. Len(fields) /\ DOMAIN fields1 = 1 .. Len(fields1)
        /\ DOMAIN fields2 = 1 .. Len(fields2) /\ Len(fields1) \in Nat /\ Len(fields2) \in Nat
    BY <1>1, LenProperties
  <1>3. Serializable(fields)
    OBVIOUS
  <1> HIDE DEF fields
  <1>4. ASSUME NEW i \in 1 .. Len(fields1) PROVE fields1[i].value # Refused /\ InRange(fields1[i])
    <2>1. i \in 1 .. Len(fields) /\ fields[i] = fields1[i]
      BY <1>1, <1>2
    <2> QED
      BY <1>2, <1>3, <2>1 DEF Serializable
  <1>5. ASSUME NEW i \in 1 .. Len(fields2) PROVE fields2[i].value # Refused /\ InRange(fields2[i])
    <2>1. Len(fields1) + i \in 1 .. Len(fields) /\ fields[Len(fields1) + i] = fields2[i]
      <3>1. Len(fields1) + i \in 1 .. Len(fields1) + Len(fields2) /\ ~(Len(fields1) + i <= Len(fields1))
            /\ (Len(fields1) + i) - Len(fields1) = i
        BY <1>2
      <3> QED
        BY <1>1, <3>1
    <2> QED
      BY <1>2, <1>3, <2>1 DEF Serializable
  <1> QED
    BY <1>2, <1>4, <1>5 DEF Serializable

\* Nothing is laid out as nothing.
LEMMA LaidNothing ==
  ASSUME NEW good
  PROVE  Laid(<< >>, << >>, << >>, good)
  <1>1. Meets(<< >>, << >>)
    BY DEF Meets
  <1>2. Serializable(<< >>)
    BY DEF Serializable
  <1>3. << >> \in Seq(Things) /\ << >> \in Seq(Fields) /\ << >> \in Seq(Facts) /\ << >> \in Seq(Sights)
    BY EmptySeq
  <1> QED
    BY <1>1, <1>2, <1>3, ReadsNothing DEF Laid

\* Two parts, one after the other.
LEMMA LaidBoth ==
  ASSUME NEW good,
         NEW things1, NEW fields1, NEW facts1, Laid(things1, fields1, facts1, good),
         NEW things2, NEW fields2, NEW facts2, Laid(things2, fields2, facts2, good)
  PROVE  Laid(things1 \o things2, fields1 \o fields2, facts1 \o facts2, good)
  <1>1. /\ things1 \in Seq(Things) /\ fields1 \in Seq(Fields) /\ facts1 \in Seq(Facts)
        /\ things2 \in Seq(Things) /\ fields2 \in Seq(Fields) /\ facts2 \in Seq(Facts)
    BY DEF Laid
  <1> DEFINE things == things1 \o things2
             fields == fields1 \o fields2
             facts == facts1 \o facts2
  <1>4. things \in Seq(Things) /\ fields \in Seq(Fields) /\ facts \in Seq(Facts)
    BY <1>1, ConcatProperties
  <1>5. ASSUME Serializable(fields)
        PROVE  \E seen \in Seq(Sights) : Reads(things, fields, seen) /\ (good => Meets(seen, facts))
    <2>1. Serializable(fields1) /\ Serializable(fields2)
      BY <1>1, <1>5, SerializableParts
    <2>2. PICK seen1 \in Seq(Sights) : Reads(things1, fields1, seen1) /\ (good => Meets(seen1, facts1))
      BY <2>1 DEF Laid
    <2>3. PICK seen2 \in Seq(Sights) : Reads(things2, fields2, seen2) /\ (good => Meets(seen2, facts2))
      BY <2>1 DEF Laid
    <2> DEFINE seen == seen1 \o seen2
    <2>4. seen \in Seq(Sights)
      BY ConcatProperties
    <2>5. Reads(things, fields, seen)
      BY <1>1, <2>2, <2>3, ReadsBoth
    <2>6. good => Meets(seen, facts)
      BY <1>1, <2>2, <2>3, MeetsBoth
    <2> HIDE DEF seen, things, fields, facts
    <2> QED
      BY <2>4, <2>5, <2>6
  <1>7. ASSUME good, \A k \in 1 .. Len(facts) : SoundFact(facts[k])
        PROVE  Serializable(fields)
    <2>1. /\ Len(facts) = Len(facts1) + Len(facts2) /\ Len(facts1) \in Nat /\ Len(facts2) \in Nat
          /\ \A i \in 1 .. Len(facts1) + Len(facts2) :
               facts[i] = IF i <= Len(facts1) THEN facts1[i] ELSE facts2[i - Len(facts1)]
      BY <1>1, ConcatProperties, LenProperties
    <2> HIDE DEF facts
    <2>2. \A k \in 1 .. Len(facts1) : SoundFact(facts1[k])
      <3> SUFFICES ASSUME NEW k \in 1 .. Len(facts1) PROVE SoundFact(facts1[k])
        OBVIOUS
      <3>1. k \in 1 .. Len(facts) /\ facts[k] = facts1[k]
        BY <2>1
      <3> QED
        BY <1>7, <3>1
    <2>3. \A k \in 1 .. Len(facts2) : SoundFact(facts2[k])
      <3> SUFFICES ASSUME NEW k \in 1 .. Len(facts2) PROVE SoundFact(facts2[k])
        OBVIOUS
      <3>1. k + Len(facts1) \in 1 .. Len(facts) /\ facts[k + Len(facts1)] = facts2[k]
        BY <2>1
      <3> QED
        BY <1>7, <3>1
    <2>4. Serializable(fields1) /\ Serializable(fields2)
      BY <1>7, <2>2, <2>3 DEF Laid
    <2> QED
      BY <1>1, <2>4, SerializableBoth
  <1> HIDE DEF things, fields, facts
  <1>8. Laid(things, fields, facts, good)
    BY <1>4, <1>5, <1>7 DEF Laid
  <1> QED
    BY <1>8 DEF things, fields, facts
\* What the node sees of one field is the one fact about it, or nothing.
Tells(h, v, own, good) ==
  IF h.role \in Structure THEN own = << >> /\ v.value # Refused /\ InRange(v)
  ELSE \E fact \in Facts :
         /\ own = << fact >>
         /\ good => /\ fact.role = h.role
                    /\ Named(fact) /\ v.value # Refused => Means(h.role, v.value, fact.meant)
                    /\ SoundFact(fact) => v.value # Refused /\ InRange(v)

\* What a field tells is a fact or nothing.
LEMMA TellsFacts ==
  ASSUME NEW h, NEW v, NEW own, NEW good, Tells(h, v, own, good)
  PROVE  own \in Seq(Facts)
  <1>1. CASE h.role \in Structure
    <2>1. own = << >>
      BY <1>1 DEF Tells
    <2> QED
      BY <2>1, EmptySeq
  <1>2. CASE h.role \notin Structure
    <2>1. PICK fact \in Facts : own = << fact >>
      BY <1>2 DEF Tells
    <2> QED
      BY <2>1
  <1> QED
    BY <1>1, <1>2

\* One thing, its field, and what is below it.
LEMMA LaidThing ==
  ASSUME NEW good,
         NEW h \in Things, NEW v \in Fields, Match(h, v), NEW own, Tells(h, v, own, good),
         NEW fields, NEW facts, Laid(Below(h, v.value), fields, facts, good)
  PROVE  Laid(<< h >>, << v >> \o fields, own \o facts, good)
  <1>2. Below(h, v.value) \in Seq(Things) /\ fields \in Seq(Fields) /\ facts \in Seq(Facts)
    BY DEF Laid
  <1>3. << h >> \in Seq(Things) /\ << v >> \in Seq(Fields) /\ Own(h, v) \in Seq(Sights)
    BY OwnSights
  <1>4. own \in Seq(Facts)
    BY TellsFacts
  <1>6. ASSUME good PROVE Meets(Own(h, v), own)
    <2>1. CASE h.role \in Structure
      BY <2>1 DEF Tells, Meets, Own
    <2>2. CASE h.role \notin Structure
      <3>1. PICK fact \in Facts :
              /\ own = << fact >> /\ fact.role = h.role
              /\ Named(fact) /\ v.value # Refused => Means(h.role, v.value, fact.meant)
        BY <1>6, <2>2 DEF Tells
      <3> DEFINE sight == [role |-> h.role, value |-> v.value]
      <3>2. Own(h, v) = << sight >> /\ sight.role = h.role /\ sight.value = v.value
        BY <2>2 DEF Own
      <3> HIDE DEF sight
      <3> QED
        BY <3>1, <3>2 DEF Meets
    <2> QED
      BY <2>1, <2>2
  <1>7. ASSUME Serializable(<< v >> \o fields)
        PROVE  \E seen \in Seq(Sights) :
                 Reads(<< h >>, << v >> \o fields, seen) /\ (good => Meets(seen, own \o facts))
    <2>1. Serializable(fields)
      BY <1>2, <1>3, <1>7, SerializableParts
    <2>2. PICK seen \in Seq(Sights) :
            Reads(Below(h, v.value), fields, seen) /\ (good => Meets(seen, facts))
      BY <2>1 DEF Laid
    <2>3. Reads(<< h >>, << v >> \o fields, Own(h, v) \o seen)
      BY <1>2, <2>2, ReadsThing
    <2>4. good => Meets(Own(h, v) \o seen, own \o facts)
      BY <1>2, <1>3, <1>4, <1>6, <2>2, MeetsBoth
    <2>5. Own(h, v) \o seen \in Seq(Sights)
      BY <1>3, ConcatProperties
    <2> QED
      BY <2>3, <2>4, <2>5
  <1>8. << v >> \o fields \in Seq(Fields) /\ own \o facts \in Seq(Facts)
    BY <1>2, <1>3, <1>4, ConcatProperties
  <1>9. ASSUME good, \A k \in 1 .. Len(own \o facts) : SoundFact((own \o facts)[k])
        PROVE  Serializable(<< v >> \o fields)
    <2>1. /\ Len(own \o facts) = Len(own) + Len(facts) /\ Len(own) \in Nat /\ Len(facts) \in Nat
          /\ \A i \in 1 .. Len(own) + Len(facts) :
               (own \o facts)[i] = IF i <= Len(own) THEN own[i] ELSE facts[i - Len(own)]
      BY <1>2, <1>4, ConcatProperties, LenProperties
    <2> DEFINE all == own \o facts
    <2> HIDE DEF all
    <2>2. \A k \in 1 .. Len(facts) : SoundFact(facts[k])
      <3> SUFFICES ASSUME NEW k \in 1 .. Len(facts) PROVE SoundFact(facts[k])
        OBVIOUS
      <3>1. k + Len(own) \in 1 .. Len(all) /\ all[k + Len(own)] = facts[k]
        BY <2>1 DEF all
      <3> QED
        BY <1>9, <3>1 DEF all
    <2>3. Serializable(fields)
      BY <1>9, <2>2 DEF Laid
    <2>4. v.value # Refused /\ InRange(v)
      <3>1. CASE h.role \notin Structure
        <4>1. PICK fact \in Facts : own = << fact >> /\ (SoundFact(fact) => v.value # Refused /\ InRange(v))
          BY <1>9, <3>1 DEF Tells
        <4>2. 1 \in 1 .. Len(all) /\ all[1] = fact
          BY <2>1, <4>1 DEF all
        <4> QED
          BY <1>9, <4>1, <4>2 DEF all
      <3> QED
        BY <3>1 DEF Tells
    <2>5. Serializable(<< v >>)
      BY <2>4 DEF Serializable
    <2> QED
      BY <1>2, <1>3, <2>3, <2>5, SerializableBoth
  <1> DEFINE f2 == << v >> \o fields
             a2 == own \o facts
  <1> HIDE DEF f2, a2
  <1>10. Laid(<< h >>, f2, a2, good)
    <2>1. Serializable(f2) =>
            \E seen \in Seq(Sights) : Reads(<< h >>, f2, seen) /\ (good => Meets(seen, a2))
      BY <1>7 DEF f2, a2
    <2>2. good /\ (\A k \in 1 .. Len(a2) : SoundFact(a2[k])) => Serializable(f2)
      BY <1>9 DEF f2, a2
    <2>3. f2 \in Seq(Fields) /\ a2 \in Seq(Facts)
      BY <1>8 DEF f2, a2
    <2> QED
      BY <1>3, <2>1, <2>2, <2>3 DEF Laid
  <1> QED
    BY <1>10 DEF f2, a2

\* A field with nothing below it.
LEMMA LaidPlain ==
  ASSUME NEW good, NEW h \in Things, h.shape = "plain", NEW v \in Fields, Match(h, v),
         NEW own, Tells(h, v, own, good)
  PROVE  Laid(<< h >>, << v >>, own, good)
  <1>1. Below(h, v.value) = << >>
    BY DEF Below
  <1>2. Laid(Below(h, v.value), << >>, << >>, good)
    BY <1>1, LaidNothing
  <1>3. Laid(<< h >>, << v >> \o << >>, own \o << >>, good)
    BY <1>2, LaidThing
  <1>4. << v >> \o << >> = << v >>
    BY ConcatEmptySeq
  <1>5. own \in Seq(Facts)
    BY TellsFacts
  <1>6. own \o << >> = own
    BY <1>5, ConcatEmptySeq
  <1> QED
    BY <1>3, <1>4, <1>6

\* As many parts of a kind as there are.
LEMMA LaidMany ==
  ASSUME NEW good, NEW n \in Nat, NEW element, NEW fields, NEW facts,
         \A i \in 1 .. n : Laid(element, fields[i], facts[i], good),
         fields = [i \in 1 .. n |-> fields[i]], facts = [i \in 1 .. n |-> facts[i]]
  PROVE  Laid(FlattenSeq([i \in 1 .. n |-> element]), FlattenSeq(fields), FlattenSeq(facts), good)
  <1> DEFINE things == [i \in 1 .. n |-> element]
  <1>1. \A i \in 1 .. n : element \in Seq(Things) /\ fields[i] \in Seq(Fields) /\ facts[i] \in Seq(Facts)
    BY DEF Laid
  <1>2. /\ things \in [1 .. n -> Seq(Things)] /\ \A i \in 1 .. n : things[i] = element
        /\ fields \in [1 .. n -> Seq(Fields)] /\ facts \in [1 .. n -> Seq(Facts)]
    <2>1. things \in [1 .. n -> Seq(Things)]
      BY <1>1
    <2>2. fields \in [1 .. n -> Seq(Fields)]
      BY <1>1
    <2>3. facts \in [1 .. n -> Seq(Facts)]
      BY <1>1
    <2> QED
      BY <2>1, <2>2, <2>3
  <1> HIDE DEF things
  <1>3. PICK f \in [0 .. n -> Seq(Things)] :
           /\ f[0] = << >> /\ \A k \in 1 .. n : f[k] = f[k - 1] \o things[k]
           /\ FlattenSeq(things) = f[n]
    BY <1>2, FlattenRecursion
  <1>4. PICK g \in [0 .. n -> Seq(Fields)] :
           /\ g[0] = << >> /\ \A k \in 1 .. n : g[k] = g[k - 1] \o fields[k]
           /\ FlattenSeq(fields) = g[n]
    BY <1>2, FlattenRecursion
  <1>5. PICK m \in [0 .. n -> Seq(Facts)] :
           /\ m[0] = << >> /\ \A k \in 1 .. n : m[k] = m[k - 1] \o facts[k]
           /\ FlattenSeq(facts) = m[n]
    BY <1>2, FlattenRecursion
  <1> DEFINE S == {k \in 0 .. n : Laid(f[k], g[k], m[k], good)}
  <1>6. 0 \in S
    BY <1>3, <1>4, <1>5, LaidNothing
  <1>7. ASSUME NEW k \in 0 .. n - 1, k \in S PROVE k + 1 \in S
    <2>0. n \in Nat /\ k \in 0 .. n - 1
      OBVIOUS
    <2>1. k + 1 \in 1 .. n /\ (k + 1) - 1 = k /\ k + 1 \in 0 .. n
      BY ONLY <2>0
    <2>2. f[k + 1] = f[k] \o element /\ g[k + 1] = g[k] \o fields[k + 1] /\ m[k + 1] = m[k] \o facts[k + 1]
      BY <1>2, <1>3, <1>4, <1>5, <2>1
    <2>3. Laid(element, fields[k + 1], facts[k + 1], good) /\ Laid(f[k], g[k], m[k], good)
      BY <1>7, <2>1
    <2>4. Laid(f[k] \o element, g[k] \o fields[k + 1], m[k] \o facts[k + 1], good)
      BY <2>3, LaidBoth
    <2> QED
      BY <2>1, <2>2, <2>4
  <1>8. 0 .. n \subseteq S
    <2>1. 0 \in Int /\ n \in Int
      OBVIOUS
    <2> HIDE DEF S
    <2> QED
      BY <1>6, <1>7, <2>1, InductionAlong
  <1>9. Laid(f[n], g[n], m[n], good)
    BY <1>8
  <1> QED
    BY <1>3, <1>4, <1>5, <1>9 DEF things

-----------------------------------------------------------------------------
(* The fields that stand alone. *)

\* A refusal is no value.
LEMMA RefusedFacts == Refused \notin Seq(Nat) /\ Refused \notin Int /\ Refused \notin BOOLEAN /\ Refused \notin Seq(Byte)
  <1>1. Refused \notin Seq(Nat) /\ Refused \notin Int /\ Refused \notin BOOLEAN
    BY HexFacts
  <1>2. Byte \subseteq Nat
    BY HexFacts
  <1>3. \A s \in Seq(Byte) : s \in Seq(Nat)
    BY <1>2, SeqMonotonic
  <1> QED
    BY <1>1, <1>3

\* Bytes are numbers.
LEMMA BytesAreData ==
  ASSUME NEW s \in Seq(Byte)
  PROVE  s \in Seq(Nat)
  <1>1. Byte \subseteq Nat
    BY HexFacts
  <1> QED
    BY <1>1, SeqMonotonic

\* An id or an address.
LEMMA LaidId ==
  ASSUME NEW good, NEW role \in IdRoles, NEW text \in Seq(Nat)
  PROVE  Laid(<< Id(role) >>, << Fixed(AddressBytes(text)) >>, << Fact(role, text) >>, good)
  <1> DEFINE h == Id(role)
             b == AddressBytes(text)
             v == Fixed(b)
             fact == Fact(role, text)
  <1>1. b = Refused \/ b \in Seq(Byte)
    BY AddressFacts
  <1>2. /\ NormalizeIotaAddress(text) # Refused =>
             /\ b \in Seq(Byte) /\ Len(b) = AddressLength /\ Hex(b) = NormalizeIotaAddress(text)
    BY AddressFacts
  <1> HIDE DEF b
  <1>3. h.shape = "plain" /\ h.kind = "fixed" /\ h.width = AddressLength /\ h.role = role /\ h \in Things
    <2>1. AddressLength \in Nat /\ role \in Words
      BY HexFacts, ZenonT(60) DEF IdRoles, Words
    <2>2. h = [shape |-> "plain", kind |-> "fixed", width |-> AddressLength, of |-> "", role |-> role]
      BY DEF Id, Plain, Thing
    <2>3. "plain" \in Words /\ "fixed" \in Words /\ "" \in Words
      BY DEF Words
    <2> HIDE DEF h
    <2> QED
      BY <2>1, <2>2, <2>3, Zenon DEF Things
  <1>4. v.kind = "fixed" /\ v.value = b /\ v \in Fields
    <2>1. v = [kind |-> "fixed", width |-> IF b = Refused THEN 0 ELSE Len(b), value |-> b]
      BY DEF Fixed, Val
    <2>2. CASE b = Refused
      <3>1. v = [kind |-> "fixed", width |-> 0, value |-> Refused]
        BY <2>1, <2>2
      <3> HIDE DEF v
      <3> QED
        BY <2>2, <3>1 DEF Fields, Kinds, Data
    <2>3. CASE b # Refused
      <3>1. v = [kind |-> "fixed", width |-> Len(b), value |-> b] /\ b \in Seq(Byte) /\ Len(b) \in Nat
            /\ b \in Seq(Nat)
        BY <1>1, <2>1, <2>3, BytesAreData, LenProperties
      <3> HIDE DEF v
      <3> QED
        BY <3>1 DEF Fields, Kinds, Data
    <2> QED
      BY <2>2, <2>3
  <1>5. fact.role = role /\ fact.meant = text /\ fact \in Facts
    <2>1. fact = [role |-> role, meant |-> text] /\ role \in Words /\ text \in Data
      BY ZenonT(60) DEF Fact, IdRoles, Words, Data
    <2> HIDE DEF fact
    <2> QED
      BY <2>1 DEF Facts
  <1>6. role \notin Structure /\ role \notin {"digest", "pure", "price", "budget", "epoch", "version", "index", "nested"}
    BY DEF IdRoles, Structure
  <1> HIDE DEF h, v, fact
  <1>7. Match(h, v)
    BY <1>3, <1>4 DEF Match
  <1>8. Named(fact) => NormalizeIotaAddress(text) # Refused
    BY <1>5 DEF Named
  <1>9. Named(fact) => Means(h.role, v.value, fact.meant)
    <2>1. Means(role, b, text) <=> (Hex(b) = NormalizeIotaAddress(text))
      <3>1. role \notin {"digest", "pure", "Argument", "ObjectArg", "Command", "TypeTag"}
        BY DEF IdRoles
      <3> QED
        BY <3>1 DEF Means
    <2> QED
      BY <1>2, <1>3, <1>4, <1>5, <1>8, <2>1
  <1>10. SoundFact(fact) => v.value # Refused /\ InRange(v)
    <2>1. SoundFact(fact) => Named(fact)
      BY DEF SoundFact
    <2>2. InRange(v)
      BY <1>4 DEF InRange
    <2> QED
      BY <1>2, <1>4, <1>8, <2>1, <2>2, RefusedFacts
  <1>11. Tells(h, v, << fact >>, good)
    BY <1>3, <1>5, <1>6, <1>9, <1>10 DEF Tells
  <1>12. Laid(<< h >>, << v >>, << fact >>, good)
    BY <1>3, <1>4, <1>7, <1>11, LaidPlain
  <1> QED
    BY <1>12 DEF h, v, b, fact

\* Any other field with a fact: what is left to show of it.
LEMMA LaidField ==
  ASSUME NEW good, NEW role \in Words, role \notin Structure, role \notin IdRoles,
         NEW kind \in {"uint", "bool", "bytes", "str"}, NEW width \in Nat, NEW value,
         NEW meant, Fact(role, meant) \in Facts, Val(kind, width, value) \in Fields,
         value # Refused /\ (role = "pure" => Named(Fact(role, meant))) => Means(role, value, meant),
         SoundFact(Fact(role, meant)) => value # Refused /\ InRange(Val(kind, width, value))
  PROVE  Laid(<< Plain(kind, width, role) >>, << Val(kind, width, value) >>, << Fact(role, meant) >>, good)
  <1> DEFINE h == Plain(kind, width, role)
             v == Val(kind, width, value)
             fact == Fact(role, meant)
  <1>1. h.shape = "plain" /\ h.kind = kind /\ h.width = width /\ h.role = role /\ h \in Things
    <2>1. h = [shape |-> "plain", kind |-> kind, width |-> width, of |-> "", role |-> role]
      BY DEF Plain, Thing
    <2>2. "plain" \in Words /\ kind \in Words /\ "" \in Words
      BY ZenonT(60) DEF Words, Kinds
    <2> HIDE DEF h
    <2> QED
      BY <2>1, <2>2, Zenon DEF Things
  <1>2. v.kind = kind /\ v.width = width /\ v.value = value
    BY DEF Val
  <1>3. fact.role = role /\ fact.meant = meant
    BY DEF Fact
  <1> HIDE DEF h, v, fact
  <1>4. Match(h, v)
    BY <1>1, <1>2 DEF Match
  <1>5. Tells(h, v, << fact >>, good)
    <2>1. Named(fact) /\ v.value # Refused => Means(h.role, v.value, fact.meant)
      BY <1>1, <1>2, <1>3 DEF fact
    <2>2. SoundFact(fact) => v.value # Refused /\ InRange(v)
      BY <1>2 DEF v, fact
    <2>3. fact \in Facts
      BY DEF fact
    <2> QED
      BY <1>1, <1>3, <2>1, <2>2, <2>3 DEF Tells
  <1>6. v \in Fields
    BY DEF v
  <1>7. Laid(<< h >>, << v >>, << fact >>, good)
    BY <1>1, <1>4, <1>5, <1>6, LaidPlain
  <1> QED
    BY <1>7 DEF h, v, fact

\* Numbers of a field of their own.
LEMMA WidthsFacts == NumberWidth \in Nat /\ IndexWidth \in Nat
  BY BlockAssumption

\* A number is a field, and can be written when it fits.
LEMMA NumberIsField ==
  ASSUME NEW width \in Nat, NEW n \in Int
  PROVE  Val("uint", width, n) \in Fields /\ n # Refused
         /\ (n \in 0 .. UMax(width) => InRange(Val("uint", width, n)))
  <1> DEFINE v == Val("uint", width, n)
  <1>1. v = [kind |-> "uint", width |-> width, value |-> n]
    BY DEF Val
  <1> HIDE DEF v
  <1>2. v \in Fields
    BY <1>1 DEF Fields, Kinds, Data
  <1>3. n \in 0 .. UMax(width) => InRange(v)
    BY <1>1 DEF InRange
  <1> QED
    BY <1>2, <1>3, RefusedFacts DEF v

\* A number of 64 bits.
LEMMA LaidNumber64 ==
  ASSUME NEW good, NEW role \in {"version", "price", "budget", "epoch"}, NEW n \in Int
  PROVE  Laid(<< Number64(role) >>, << U64(n) >>, << Fact(role, n) >>, good)
  <1>1. NumberWidth \in Nat
    BY WidthsFacts
  <1>2. role \in Words /\ role \notin Structure /\ role \notin IdRoles /\ role # "pure"
    BY ZenonT(60) DEF Words, Structure, IdRoles
  <1>3. Fact(role, n) \in Facts /\ Fact(role, n).role = role /\ Fact(role, n).meant = n
    BY <1>2 DEF Fact, Facts, Data
  <1>4. Means(role, n, n)
    BY <1>2 DEF Means
  <1>5. SoundFact(Fact(role, n)) => n \in 0 .. UMax(NumberWidth)
    BY <1>3 DEF SoundFact
  <1>6. Val("uint", NumberWidth, n) \in Fields /\ n # Refused
        /\ (n \in 0 .. UMax(NumberWidth) => InRange(Val("uint", NumberWidth, n)))
    BY <1>1, NumberIsField
  <1>8. Laid(<< Plain("uint", NumberWidth, role) >>, << Val("uint", NumberWidth, n) >>, << Fact(role, n) >>, good)
    BY <1>1, <1>2, <1>3, <1>4, <1>5, <1>6, LaidField
  <1> QED
    BY <1>8 DEF Number64, U64

\* An index of 16 bits.
LEMMA LaidIndex ==
  ASSUME NEW good, NEW role \in {"index", "nested"}, NEW n \in Int
  PROVE  Laid(<< Index(role) >>, << U16(n) >>, << Fact(role, n) >>, good)
  <1>1. IndexWidth \in Nat
    BY WidthsFacts
  <1>2. role \in Words /\ role \notin Structure /\ role \notin IdRoles /\ role # "pure"
    BY Zenon DEF Words, Structure, IdRoles
  <1>3. Fact(role, n) \in Facts /\ Fact(role, n).role = role /\ Fact(role, n).meant = n
    BY <1>2 DEF Fact, Facts, Data
  <1>4. Means(role, n, n)
    BY <1>2 DEF Means
  <1>5. SoundFact(Fact(role, n)) => n \in 0 .. UMax(IndexWidth)
    BY <1>3 DEF SoundFact
  <1>6. Val("uint", IndexWidth, n) \in Fields /\ n # Refused
        /\ (n \in 0 .. UMax(IndexWidth) => InRange(Val("uint", IndexWidth, n)))
    BY <1>1, NumberIsField
  <1>8. Laid(<< Plain("uint", IndexWidth, role) >>, << Val("uint", IndexWidth, n) >>, << Fact(role, n) >>, good)
    BY <1>1, <1>2, <1>3, <1>4, <1>5, <1>6, LaidField
  <1> QED
    BY <1>8 DEF Index, U16

\* A name of a module, a function or a type.
LEMMA LaidName ==
  ASSUME NEW good, NEW role \in {"module", "function", "tag_module", "tag_name"}, NEW text \in Seq(Nat)
  PROVE  Laid(<< Name(role) >>, << Str(text) >>, << Fact(role, text) >>, good)
  <1>1. role \in Words /\ role \notin Structure /\ role \notin IdRoles /\ role # "pure"
    BY ZenonT(60) DEF Words, Structure, IdRoles
  <1>2. Fact(role, text) \in Facts
    BY <1>1 DEF Fact, Facts, Data
  <1>3. Means(role, text, text)
    BY <1>1 DEF Means
  <1>4. Val("str", 0, text) \in Fields /\ InRange(Val("str", 0, text)) /\ text # Refused
    BY RefusedFacts DEF Val, Fields, Kinds, Data, InRange
  <1>5. 0 \in Nat
    OBVIOUS
  <1>6. Laid(<< Plain("str", 0, role) >>, << Val("str", 0, text) >>, << Fact(role, text) >>, good)
    BY <1>1, <1>2, <1>3, <1>4, <1>5, LaidField
  <1> QED
    BY <1>6 DEF Name, Str

\* Bytes, or the refusal to make them, are a field.
LEMMA BytesIsField ==
  ASSUME NEW b, b = Refused \/ b \in Seq(Byte)
  PROVE  Val("bytes", 0, b) \in Fields /\ InRange(Val("bytes", 0, b))
  <1>1. b \in Data
    BY BytesAreData DEF Data
  <1> QED
    BY <1>1 DEF Val, Fields, Kinds, InRange

\* A digest, which the node shows in Base58.
LEMMA LaidDigest ==
  ASSUME NEW good, NEW text \in Seq(Nat)
  PROVE  Laid(<< Plain("bytes", 0, "digest") >>, << Bytes(Base58Decode(text)) >>, << Fact("digest", text) >>, good)
  <1> DEFINE b == Base58Decode(text)
  <1>1. b = Refused \/ (b \in Seq(Byte) /\ Base58Encode(b) = text)
    BY DigestFacts
  <1>2. "digest" \in Words /\ "digest" \notin Structure /\ "digest" \notin IdRoles /\ "digest" # "pure"
    BY DEF Words, Structure, IdRoles
  <1>3. Fact("digest", text) \in Facts /\ Fact("digest", text).role = "digest" /\ Fact("digest", text).meant = text
    BY <1>2 DEF Fact, Facts, Data
  <1>5. SoundFact(Fact("digest", text)) => b # Refused
    BY <1>3 DEF SoundFact
  <1> HIDE DEF b
  <1>4. b # Refused => Means("digest", b, text)
    BY <1>1, <1>2 DEF Means
  <1>6. Val("bytes", 0, b) \in Fields /\ InRange(Val("bytes", 0, b))
    BY <1>1, BytesIsField
  <1>7. 0 \in Nat
    OBVIOUS
  <1>8. Laid(<< Plain("bytes", 0, "digest") >>, << Val("bytes", 0, b) >>, << Fact("digest", text) >>, good)
    BY <1>2, <1>3, <1>4, <1>5, <1>6, <1>7, LaidField
  <1> QED
    BY <1>8 DEF b, Bytes

\* A module of bytecode.
LEMMA LaidCode ==
  ASSUME NEW good, NEW code \in Seq(Byte)
  PROVE  Laid(<< Plain("bytes", 0, "code") >>, << Bytes(code) >>, << Fact("code", code) >>, good)
  <1>2. "code" \in Words /\ "code" \notin Structure /\ "code" \notin IdRoles /\ "code" # "pure"
    BY DEF Words, Structure, IdRoles
  <1>3. Fact("code", code) \in Facts
    BY <1>2, BytesAreData DEF Fact, Facts, Data
  <1>4. Means("code", code, code)
    BY <1>2 DEF Means
  <1>6. Val("bytes", 0, code) \in Fields /\ InRange(Val("bytes", 0, code)) /\ code # Refused
    BY BytesIsField, RefusedFacts
  <1>7. 0 \in Nat
    OBVIOUS
  <1>8. Laid(<< Plain("bytes", 0, "code") >>, << Val("bytes", 0, code) >>, << Fact("code", code) >>, good)
    BY <1>2, <1>3, <1>4, <1>6, <1>7, LaidField
  <1> QED
    BY <1>8 DEF Bytes

\* The mutable flag.
LEMMA LaidMutable ==
  ASSUME NEW good, NEW flag \in BOOLEAN
  PROVE  Laid(<< Plain("bool", 0, "mutable") >>, << Val("bool", 0, flag) >>, << Fact("mutable", flag) >>, good)
  <1>2. "mutable" \in Words /\ "mutable" \notin Structure /\ "mutable" \notin IdRoles /\ "mutable" # "pure"
    BY DEF Words, Structure, IdRoles
  <1>3. Fact("mutable", flag) \in Facts
    BY <1>2 DEF Fact, Facts, Data
  <1>4. Means("mutable", flag, flag)
    BY <1>2 DEF Means
  <1>6. Val("bool", 0, flag) \in Fields /\ InRange(Val("bool", 0, flag)) /\ flag # Refused
    BY RefusedFacts DEF Val, Fields, Kinds, Data, InRange
  <1>7. 0 \in Nat
    OBVIOUS
  <1> QED
    BY <1>2, <1>3, <1>4, <1>6, <1>7, LaidField

-----------------------------------------------------------------------------
(* Vectors and enums. *)

\* A field that says how many elements, or which variant, there are.
LEMMA VariantIsField ==
  ASSUME NEW n \in Nat
  PROVE  /\ Variant(n) \in Fields /\ InRange(Variant(n)) /\ Variant(n).value = n /\ n # Refused
         /\ Variant(n).kind = "uleb" /\ Variant(n).width = 0
  <1> DEFINE v == Variant(n)
  <1>1. v = [kind |-> "uleb", width |-> 0, value |-> n] /\ n \in Int
    BY DEF Variant, Val
  <1> HIDE DEF v
  <1>2. v \in Fields
    BY <1>1 DEF Fields, Kinds, Data
  <1>3. InRange(v)
    BY <1>1 DEF InRange
  <1> QED
    BY <1>1, <1>2, <1>3, RefusedFacts DEF v

\* A vector is something to expect,
LEMMA VecIsThing ==
  ASSUME NEW of \in Words
  PROVE  /\ Vec(of) \in Things /\ Vec(of).shape = "vec" /\ Vec(of).of = of /\ Vec(of).role = "length"
         /\ Vec(of).kind = "uleb" /\ Vec(of).width = 0
  <1>1. Vec(of) = [shape |-> "vec", kind |-> "uleb", width |-> 0, of |-> of, role |-> "length"]
    BY DEF Vec, Thing
  <1>2. "vec" \in Words /\ "uleb" \in Words /\ "length" \in Words
    BY ZenonT(60) DEF Words
  <1> QED
    BY <1>1, <1>2 DEF Things

\* and so is an enum.
LEMMA EnumIsThing ==
  ASSUME NEW of \in Words
  PROVE  /\ Enum(of) \in Things /\ Enum(of).shape = "enum" /\ Enum(of).of = of /\ Enum(of).role = of
         /\ Enum(of).kind = "uleb" /\ Enum(of).width = 0
  <1>1. Enum(of) = [shape |-> "enum", kind |-> "uleb", width |-> 0, of |-> of, role |-> of]
    BY DEF Enum, Thing
  <1>2. "enum" \in Words /\ "uleb" \in Words
    BY ZenonT(60) DEF Words
  <1> QED
    BY <1>1, <1>2 DEF Things

\* A vector is its length and its elements, in their order.
LEMMA LaidVec ==
  ASSUME NEW good, NEW of \in Words, NEW n \in Nat, NEW fields, NEW facts,
         \A i \in 1 .. n : Laid(Element(of), fields[i], facts[i], good),
         fields = [i \in 1 .. n |-> fields[i]], facts = [i \in 1 .. n |-> facts[i]]
  PROVE  Laid(<< Vec(of) >>, << Variant(n) >> \o FlattenSeq(fields), FlattenSeq(facts), good)
  <1> DEFINE h == Vec(of)
             v == Variant(n)
             things == FlattenSeq([i \in 1 .. n |-> Element(of)])
             rest == FlattenSeq(fields)
             own == FlattenSeq(facts)
  <1>1. Laid(things, rest, own, good)
    BY LaidMany
  <1>2. /\ h \in Things /\ h.shape = "vec" /\ h.of = of /\ h.role = "length"
        /\ h.kind = "uleb" /\ h.width = 0
    BY VecIsThing
  <1>3. v \in Fields /\ InRange(v) /\ v.value = n /\ n # Refused /\ v.kind = "uleb" /\ v.width = 0
    BY VariantIsField
  <1> HIDE DEF h, v, rest, own
  <1>4. Below(h, v.value) = things
    BY <1>2, <1>3 DEF Below
  <1> HIDE DEF things
  <1>5. Match(h, v)
    BY <1>2, <1>3 DEF Match
  <1>6. Tells(h, v, << >>, good)
    BY <1>2, <1>3 DEF Tells, Structure
  <1>7. Laid(<< h >>, << v >> \o rest, << >> \o own, good)
    BY <1>1, <1>2, <1>3, <1>4, <1>5, <1>6, LaidThing
  <1>8. << >> \o own = own
    <2>1. own \in Seq(Facts)
      BY <1>1 DEF Laid
    <2> QED
      BY <2>1, ConcatEmptySeq
  <1> QED
    BY <1>7, <1>8 DEF h, v, rest, own

\* An enum is its variant and what that variant is followed by.
LEMMA LaidEnum ==
  ASSUME NEW good, NEW of \in Words, NEW n \in Nat, NEW own, Tells(Enum(of), Variant(n), own, good),
         NEW fields, NEW facts, Laid(Variants(of, n), fields, facts, good)
  PROVE  Laid(<< Enum(of) >>, << Variant(n) >> \o fields, own \o facts, good)
  <1> DEFINE h == Enum(of)
             v == Variant(n)
  <1>1. h \in Things /\ h.shape = "enum" /\ h.of = of /\ h.kind = "uleb" /\ h.width = 0
    BY EnumIsThing
  <1>2. v \in Fields /\ v.value = n /\ v.kind = "uleb" /\ v.width = 0
    BY VariantIsField
  <1>3. Tells(h, v, own, good)
    OBVIOUS
  <1> HIDE DEF h, v
  <1>4. Below(h, v.value) = Variants(of, n)
    BY <1>1, <1>2 DEF Below
  <1>5. Match(h, v)
    BY <1>1, <1>2 DEF Match
  <1>6. Laid(<< h >>, << v >> \o fields, own \o facts, good)
    BY <1>1, <1>2, <1>3, <1>4, <1>5, LaidThing
  <1> QED
    BY <1>6 DEF h, v

\* A variant of which the author said nothing.
LEMMA LaidStructure ==
  ASSUME NEW good, NEW of \in Words, of \in Structure, NEW n \in Nat,
         NEW fields, NEW facts, Laid(Variants(of, n), fields, facts, good)
  PROVE  Laid(<< Enum(of) >>, << Variant(n) >> \o fields, facts, good)
  <1>1. Enum(of).role = of
    BY EnumIsThing
  <1>2. InRange(Variant(n)) /\ Variant(n).value # Refused
    BY VariantIsField
  <1>3. Tells(Enum(of), Variant(n), << >>, good)
    BY <1>1, <1>2 DEF Tells
  <1>4. Laid(<< Enum(of) >>, << Variant(n) >> \o fields, << >> \o facts, good)
    BY <1>3, LaidEnum
  <1>5. << >> \o facts = facts
    <2>1. facts \in Seq(Facts)
      BY DEF Laid
    <2> QED
      BY <2>1, ConcatEmptySeq
  <1> QED
    BY <1>4, <1>5

\* A variant that the author chose.
LEMMA LaidTagged ==
  ASSUME NEW good, NEW of \in {"Argument", "ObjectArg", "Command", "TypeTag"}, NEW n \in Nat,
         NEW word \in Words, Means(of, n, word),
         NEW fields, NEW facts, Laid(Variants(of, n), fields, facts, good)
  PROVE  Laid(<< Enum(of) >>, << Variant(n) >> \o fields, << Fact(of, word) >> \o facts, good)
  <1> DEFINE fact == Fact(of, word)
  <1>1. of \in Words /\ of \notin Structure
    BY ZenonT(60) DEF Words, Structure
  <1>2. Enum(of).role = of
    BY <1>1, EnumIsThing
  <1>3. InRange(Variant(n)) /\ Variant(n).value = n /\ n # Refused
    BY VariantIsField
  <1>4. fact.role = of /\ fact.meant = word /\ fact \in Facts
    <2>1. fact = [role |-> of, meant |-> word]
      BY DEF Fact
    <2> HIDE DEF fact
    <2> QED
      BY <1>1, <2>1 DEF Facts
  <1> HIDE DEF fact
  <1>5. Tells(Enum(of), Variant(n), << fact >>, good)
    BY <1>1, <1>2, <1>3, <1>4 DEF Tells
  <1>6. Laid(<< Enum(of) >>, << Variant(n) >> \o fields, << fact >> \o facts, good)
    BY <1>1, <1>5, LaidEnum
  <1> QED
    BY <1>6 DEF fact

-----------------------------------------------------------------------------
(* Arguments and objects. *)

\* Argument.serialize.
LEMMA LaidArgument ==
  ASSUME NEW good, NEW a, IsArgument(a)
  PROVE  Laid(<< Enum("Argument") >>, Argument(a), ArgumentFacts(a), good)
  <1>1. a.kind \in {"gas", "input", "result", "nested"} /\ a.index \in Int /\ a.nested \in Int
    BY DEF IsArgument, ArgumentKind
  <1> DEFINE n == ArgumentKind[a.kind]
             fields == CASE a.kind = "gas"                 -> << >>
                         [] a.kind \in {"input", "result"} -> << U16(a.index) >>
                         [] a.kind = "nested"              -> << U16(a.index), U16(a.nested) >>
             facts == CASE a.kind = "gas"                 -> << >>
                        [] a.kind \in {"input", "result"} -> << Fact("index", a.index) >>
                        [] a.kind = "nested" -> << Fact("index", a.index), Fact("nested", a.nested) >>
  <1>2. n \in Nat
    BY <1>1 DEF ArgumentKind
  <1>3. a.kind \in Words
    BY <1>1, Zenon DEF Words
  <1>4. Means("Argument", n, a.kind)
    BY DEF Means, IdRoles
  <1>5. Laid(Variants("Argument", n), fields, facts, good)
    <2>1. CASE a.kind = "gas"
      <3>1. n = 0 /\ fields = << >> /\ facts = << >>
        BY <2>1 DEF ArgumentKind
      <3>2. Variants("Argument", 0) = << >>
        BY DEF Variants
      <3> QED
        BY <3>1, <3>2, LaidNothing
    <2>2. CASE a.kind \in {"input", "result"}
      <3>1. n \in {1, 2} /\ fields = << U16(a.index) >> /\ facts = << Fact("index", a.index) >>
        BY <2>2 DEF ArgumentKind
      <3>2. Variants("Argument", 1) = << Index("index") >> /\ Variants("Argument", 2) = << Index("index") >>
        BY DEF Variants
      <3> QED
        BY <1>1, <3>1, <3>2, LaidIndex
    <2>3. CASE a.kind = "nested"
      <3>1. /\ n = 3 /\ fields = << U16(a.index) >> \o << U16(a.nested) >>
            /\ facts = << Fact("index", a.index) >> \o << Fact("nested", a.nested) >>
        BY <2>3 DEF ArgumentKind
      <3>2. Variants("Argument", 3) = << Index("index") >> \o << Index("nested") >>
        BY DEF Variants
      <3>3. /\ Laid(<< Index("index") >>, << U16(a.index) >>, << Fact("index", a.index) >>, good)
            /\ Laid(<< Index("nested") >>, << U16(a.nested) >>, << Fact("nested", a.nested) >>, good)
        BY <1>1, LaidIndex
      <3>4. Laid(<< Index("index") >> \o << Index("nested") >>, << U16(a.index) >> \o << U16(a.nested) >>,
                 << Fact("index", a.index) >> \o << Fact("nested", a.nested) >>, good)
        BY <3>3, LaidBoth
      <3> QED
        BY <3>1, <3>2, <3>4
    <2> QED
      BY <1>1, <2>1, <2>2, <2>3
  <1> HIDE DEF n, fields, facts
  <1>6. Laid(<< Enum("Argument") >>, << Variant(n) >> \o fields, << Fact("Argument", a.kind) >> \o facts, good)
    BY <1>2, <1>3, <1>4, <1>5, LaidTagged
  <1> QED
    BY <1>6 DEF Argument, ArgumentFacts, n, fields, facts

\* BcsObjectRef.serialize.
LEMMA LaidRef ==
  ASSUME NEW good, NEW r, IsRef(r)
  PROVE  Laid(RefThings, ObjectRef(r), RefFacts(r), good)
  <1>1. r.id \in Seq(Nat) /\ r.version \in Int /\ r.digest \in Seq(Nat)
    BY DEF IsRef, IsText
  <1>2. Laid(<< Id("object") >>, << Fixed(AddressBytes(r.id)) >>, << Fact("object", r.id) >>, good)
    <2>1. "object" \in IdRoles
      BY DEF IdRoles
    <2> QED
      BY <1>1, <2>1, LaidId
  <1>3. Laid(<< Number64("version") >>, << U64(r.version) >>, << Fact("version", r.version) >>, good)
    BY <1>1, LaidNumber64
  <1>4. Laid(<< Plain("bytes", 0, "digest") >>, << Bytes(Base58Decode(r.digest)) >>,
             << Fact("digest", r.digest) >>, good)
    BY <1>1, LaidDigest
  <1>5. Laid((<< Id("object") >> \o << Number64("version") >>) \o << Plain("bytes", 0, "digest") >>,
             (<< Fixed(AddressBytes(r.id)) >> \o << U64(r.version) >>) \o << Bytes(Base58Decode(r.digest)) >>,
             (<< Fact("object", r.id) >> \o << Fact("version", r.version) >>) \o << Fact("digest", r.digest) >>,
             good)
    BY <1>2, <1>3, <1>4, LaidBoth
  <1>6. Laid(<< Id("object"), Number64("version"), Plain("bytes", 0, "digest") >>,
             << Fixed(AddressBytes(r.id)), U64(r.version), Bytes(Base58Decode(r.digest)) >>,
             << Fact("object", r.id), Fact("version", r.version), Fact("digest", r.digest) >>, good)
    BY <1>5, ThreeOnes
  <1> QED
    BY <1>6 DEF RefThings, ObjectRef, RefFacts

\* BcsSharedObjectRef.serialize.
LEMMA LaidShared ==
  ASSUME NEW good, NEW r, IsText(r.id), r.version \in Int, r.mutable \in BOOLEAN
  PROVE  Laid(<< Id("object"), Number64("version"), Plain("bool", 0, "mutable") >>, SharedRef(r),
              << Fact("object", r.id), Fact("version", r.version), Fact("mutable", r.mutable) >>, good)
  <1>1. r.id \in Seq(Nat)
    BY DEF IsText
  <1>2. Laid(<< Id("object") >>, << Fixed(AddressBytes(r.id)) >>, << Fact("object", r.id) >>, good)
    <2>1. "object" \in IdRoles
      BY DEF IdRoles
    <2> QED
      BY <1>1, <2>1, LaidId
  <1>3. Laid(<< Number64("version") >>, << U64(r.version) >>, << Fact("version", r.version) >>, good)
    BY LaidNumber64
  <1>4. Laid(<< Plain("bool", 0, "mutable") >>, << Val("bool", 0, r.mutable) >>,
             << Fact("mutable", r.mutable) >>, good)
    BY LaidMutable
  <1>5. Laid((<< Id("object") >> \o << Number64("version") >>) \o << Plain("bool", 0, "mutable") >>,
             (<< Fixed(AddressBytes(r.id)) >> \o << U64(r.version) >>) \o << Val("bool", 0, r.mutable) >>,
             (<< Fact("object", r.id) >> \o << Fact("version", r.version) >>) \o << Fact("mutable", r.mutable) >>,
             good)
    BY <1>2, <1>3, <1>4, LaidBoth
  <1>6. Laid(<< Id("object"), Number64("version"), Plain("bool", 0, "mutable") >>,
             << Fixed(AddressBytes(r.id)), U64(r.version), Val("bool", 0, r.mutable) >>,
             << Fact("object", r.id), Fact("version", r.version), Fact("mutable", r.mutable) >>, good)
    BY <1>5, ThreeOnes
  <1> QED
    BY <1>6 DEF SharedRef

-----------------------------------------------------------------------------
(* Pure values and inputs. *)

\* What the node reads of a pure input is what the input means, and only what does not fit is
\* refused.
PureSays(c) ==
  /\ SerializePure(c) = Refused \/ SerializePure(c) \in Seq(Byte)
  /\ c.meant \in [kind : Words, width : Nat, value : Data]
  /\ SerializePure(c) # Refused /\ Named(Fact("pure", c.meant)) => Means("pure", SerializePure(c), c.meant)
  /\ Named(Fact("pure", c.meant)) /\ Fits(c.meant) => SerializePure(c) # Refused

\* A field that is written, or refused as out of range.
LEMMA PureField ==
  ASSUME NEW c, NEW kind \in {"bool", "uint", "bytes", "str"}, NEW width \in Nat, NEW value \in Data,
         c.meant = Val(kind, width, value),
         SerializePure(c) = IF InRange(c.meant) THEN Encode(c.meant) ELSE Refused,
         InRange(c.meant) => Encode(c.meant) \in Seq(Byte),
         kind = "uint" /\ InRange(c.meant) =>
           Len(Encode(c.meant)) = width /\ Number(Encode(c.meant), Base) = value
  PROVE  PureSays(c)
  <1>1. c.meant = [kind |-> kind, width |-> width, value |-> value]
    BY DEF Val
  <1> DEFINE m == c.meant
             bytes == SerializePure(c)
  <1>2. m.kind = kind /\ m.width = width /\ m.value = value
    BY <1>1
  <1>3. m \in [kind : Words, width : Nat, value : Data]
    <2>1. kind \in Words
      BY Zenon DEF Words
    <2> QED
      BY <1>1, <2>1
  <1>4. bytes # Refused => InRange(m) /\ bytes = Encode(m) /\ bytes \in Seq(Byte)
    OBVIOUS
  <1>5. InRange(m) => bytes # Refused
    BY RefusedFacts
  <1> HIDE DEF bytes, m
  <1>6. Means("pure", bytes, m) <=> IF kind = "uint" THEN Len(bytes) = width /\ Number(bytes, Base) = value
                                    ELSE bytes = Encode(m)
    BY <1>2 DEF Means, IdRoles
  <1>7. bytes # Refused => Means("pure", bytes, m)
    BY <1>4, <1>6 DEF m
  <1>8. Fits(m) => bytes # Refused
    BY <1>2, <1>5 DEF Fits
  <1> QED
    BY <1>3, <1>4, <1>7, <1>8 DEF PureSays, bytes, m

\* The bytes of a number have its width and denote it.
LEMMA UintBytes ==
  ASSUME NEW width \in Nat, NEW n \in Int, InRange(Val("uint", width, n))
  PROVE  LET bytes == Encode(Val("uint", width, n)) IN
           bytes \in Seq(Byte) /\ Len(bytes) = width /\ Number(bytes, Base) = n
  <1>1. n \in 0 .. UMax(width) /\ n \in Nat
    <2>1. n \in 0 .. UMax(width)
      BY DEF InRange, Val
    <2>2. UMax(width) \in Nat
      BY UMaxRecursion
    <2> QED
      BY <2>1, <2>2
  <1>2. Encode(Val("uint", width, n)) = LittleEndian(n, width)
    BY DEF Encode, Val
  <1>3. LittleEndian(n, width) \in Seq(Byte) /\ Len(LittleEndian(n, width)) = width
    BY <1>1, LittleEndianRecursion
  <1>4. Number(LittleEndian(n, width), Base) = n
    BY <1>1, LittleEndianRead
  <1> QED
    BY <1>2, <1>3, <1>4

\* Numbers and flags.
LEMMA PureNumberSays ==
  ASSUME NEW c, c.python \in {"bool", "int"}, IsPure(c)
  PROVE  PureSays(c)
  <1>1. AsInt(c) \in Int /\ AsBool(c) \in BOOLEAN
    <2>1. IF c.python = "bool" THEN c.value \in BOOLEAN ELSE c.value \in Int
      BY DEF IsPure
    <2>2. CASE c.python = "bool"
      BY <2>1, <2>2 DEF AsInt, AsBool
    <2>3. CASE c.python # "bool"
      BY <2>1, <2>3 DEF AsInt, AsBool
    <2> QED
      BY <2>2, <2>3
  <1>2. \/ (c.hint = "bool" \/ (c.hint = "none" /\ c.python = "bool")) /\ c.meant = Val("bool", 0, AsBool(c))
        \/ c.hint = "u16" /\ c.meant = Val("uint", IndexWidth, AsInt(c))
        \/ (c.hint = "u64" \/ (c.hint = "none" /\ c.python = "int")) /\ c.meant = Val("uint", NumberWidth, AsInt(c))
    BY DEF IsPure
  <1>3. CASE (c.hint = "bool" \/ (c.hint = "none" /\ c.python = "bool")) /\ c.meant = Val("bool", 0, AsBool(c))
    <2>1. PureType(c) = "bool"
      BY <1>3 DEF PureType
    <2>2. SerializePure(c) = IF InRange(c.meant) THEN Encode(c.meant) ELSE Refused
      BY <1>3, <2>1 DEF SerializePure
    <2>3. Encode(c.meant) \in Seq(Byte)
      <3>1. Encode(Val("bool", 0, AsBool(c))) = << IF AsBool(c) THEN 1 ELSE 0 >>
        BY DEF Encode, Val
      <3>2. 0 \in Byte /\ 1 \in Byte
        BY HexFacts
      <3> DEFINE x == IF AsBool(c) THEN 1 ELSE 0
      <3>3. x \in Byte
        BY <3>2
      <3>4. Encode(c.meant) = << x >>
        BY <1>3, <3>1
      <3> HIDE DEF x
      <3>5. << x >> \in Seq(Byte)
        BY <3>3
      <3> QED
        BY <3>4, <3>5
    <2>4. AsBool(c) \in Data
      BY <1>1 DEF Data
    <2> QED
      BY <1>3, <2>2, <2>3, <2>4, PureField
  <1>4. ASSUME NEW width \in Nat, c.meant = Val("uint", width, AsInt(c)),
               SerializePure(c) = IF InRange(c.meant) THEN Encode(c.meant) ELSE Refused
        PROVE  PureSays(c)
    <2>1. InRange(c.meant) => /\ Encode(c.meant) \in Seq(Byte) /\ Len(Encode(c.meant)) = width
                              /\ Number(Encode(c.meant), Base) = AsInt(c)
      BY <1>1, <1>4, UintBytes
    <2>2. AsInt(c) \in Data
      BY <1>1 DEF Data
    <2> QED
      BY <1>4, <2>1, <2>2, PureField
  <1>5. CASE c.hint = "u16" /\ c.meant = Val("uint", IndexWidth, AsInt(c))
    <2>1. PureType(c) = "u16"
      BY <1>5 DEF PureType
    <2>2. SerializePure(c) = IF InRange(c.meant) THEN Encode(c.meant) ELSE Refused
      BY <1>5, <2>1 DEF SerializePure, U16
    <2> QED
      BY <1>4, <1>5, <2>2, WidthsFacts
  <1>6. CASE (c.hint = "u64" \/ (c.hint = "none" /\ c.python = "int"))
             /\ c.meant = Val("uint", NumberWidth, AsInt(c))
    <2>1. PureType(c) = "u64"
      BY <1>6 DEF PureType
    <2>2. SerializePure(c) = IF InRange(c.meant) THEN Encode(c.meant) ELSE Refused
      BY <1>6, <2>1 DEF SerializePure, U64
    <2> QED
      BY <1>4, <1>6, <2>2, WidthsFacts
  <1> QED
    BY <1>2, <1>3, <1>5, <1>6

\* Bytes and texts, which are written with their length.
LEMMA CountedBytes ==
  ASSUME NEW kind \in {"bytes", "str"}, NEW s \in Seq(Byte)
  PROVE  Encode(Val(kind, 0, s)) \in Seq(Byte)
  <1>1. Encode(Val(kind, 0, s)) = Uleb(Len(s)) \o s
    BY DEF Encode, Val
  <1>2. Uleb(Len(s)) \in Seq(Byte)
    BY LenProperties, UlebRecursion
  <1> QED
    BY <1>1, <1>2, ConcatProperties

\* Bytes mean themselves.
LEMMA PureBytesSays ==
  ASSUME NEW c, c.python = "bytes", IsPure(c)
  PROVE  PureSays(c)
  <1>1. c.value \in Seq(Byte) /\ c.hint \in {"bytes", "none"} /\ c.meant = Val("bytes", 0, c.value)
    BY DEF IsPure
  <1>2. PureType(c) = "bytes"
    BY <1>1 DEF PureType
  <1>3. SerializePure(c) = IF InRange(c.meant) THEN Encode(c.meant) ELSE Refused
    BY <1>1, <1>2 DEF SerializePure, Bytes
  <1>4. Encode(c.meant) \in Seq(Byte) /\ c.value \in Data
    BY <1>1, CountedBytes, BytesAreData DEF Data
  <1> QED
    BY <1>1, <1>3, <1>4, PureField

\* A text means an address or a string.
LEMMA PureTextSays ==
  ASSUME NEW c, c.python = "str", IsPure(c)
  PROVE  PureSays(c)
  <1>1. \/ /\ c.value \in Seq(Nat) /\ (c.hint = "address" \/ (c.hint = "none" /\ Prefixed(c.value)))
           /\ c.meant = Val("address", 0, c.value)
        \/ /\ c.value \in Seq(Byte) /\ (c.hint = "string" \/ (c.hint = "none" /\ ~Prefixed(c.value)))
           /\ c.meant = Val("str", 0, c.value)
    BY DEF IsPure, IsText
  <1>2. CASE /\ c.value \in Seq(Nat) /\ (c.hint = "address" \/ (c.hint = "none" /\ Prefixed(c.value)))
             /\ c.meant = Val("address", 0, c.value)
    <2>1. PureType(c) = "address"
      BY <1>2 DEF PureType
    <2>2. SerializePure(c) = AddressBytes(c.value)
      BY <2>1 DEF SerializePure
    <2> DEFINE b == AddressBytes(c.value)
    <2>3. /\ b = Refused \/ b \in Seq(Byte)
          /\ NormalizeIotaAddress(c.value) # Refused => Hex(b) = NormalizeIotaAddress(c.value)
      BY <1>2, AddressFacts
    <2>4. c.meant = [kind |-> "address", width |-> 0, value |-> c.value]
      BY <1>2 DEF Val
    <2>5. c.meant \in [kind : Words, width : Nat, value : Data]
      <3>1. "address" \in Words /\ c.value \in Data
        BY <1>2 DEF Words, Data
      <3> QED
        BY <2>4, <3>1
    <2>6. Named(Fact("pure", c.meant)) => NormalizeIotaAddress(c.value) # Refused
      BY <2>4 DEF Named, Fact
    <2> HIDE DEF b
    <2>7. Means("pure", b, c.meant) <=> (Hex(b) = NormalizeIotaAddress(c.value))
      BY <2>4 DEF Means, IdRoles
    <2>8. Fits(c.meant) => b # Refused
      BY <2>4 DEF Fits, b
    <2>9. SerializePure(c) = b
      BY <2>2 DEF b
    <2> QED
      BY <2>3, <2>5, <2>6, <2>7, <2>8, <2>9 DEF PureSays
  <1>3. CASE /\ c.value \in Seq(Byte) /\ (c.hint = "string" \/ (c.hint = "none" /\ ~Prefixed(c.value)))
             /\ c.meant = Val("str", 0, c.value)
    <2>1. PureType(c) = "string"
      BY <1>3 DEF PureType
    <2>2. SerializePure(c) = IF InRange(c.meant) THEN Encode(c.meant) ELSE Refused
      BY <1>3, <2>1 DEF SerializePure, Str
    <2>3. Encode(c.meant) \in Seq(Byte) /\ c.value \in Data
      BY <1>3, CountedBytes, BytesAreData DEF Data
    <2> QED
      BY <1>3, <2>2, <2>3, PureField
  <1> QED
    BY <1>1, <1>2, <1>3

\* serialize_pure_value, whose bytes the node reads as one field.
LEMMA LaidPure ==
  ASSUME NEW good, NEW c, c.python \in {"bool", "int", "bytes", "str"}, IsPure(c)
  PROVE  Laid(<< Plain("bytes", 0, "pure") >>, << Bytes(SerializePure(c)) >>, << Fact("pure", c.meant) >>, good)
  <1>1. PureSays(c)
    BY PureNumberSays, PureBytesSays, PureTextSays
  <1> DEFINE b == SerializePure(c)
             m == c.meant
             fact == Fact("pure", m)
  <1>2. /\ b = Refused \/ b \in Seq(Byte)
        /\ m \in [kind : Words, width : Nat, value : Data]
        /\ b # Refused /\ Named(fact) => Means("pure", b, m)
        /\ Named(fact) /\ Fits(m) => b # Refused
    BY <1>1 DEF PureSays
  <1> HIDE DEF b, m
  <1>3. "pure" \in Words /\ "pure" \notin Structure /\ "pure" \notin IdRoles
    BY DEF Words, Structure, IdRoles
  <1>4. fact = [role |-> "pure", meant |-> m]
    BY DEF Fact
  <1> HIDE DEF fact
  <1>5. fact \in Facts
    BY <1>2, <1>3, <1>4 DEF Facts
  <1>6. SoundFact(fact) => Named(fact) /\ Fits(m)
    BY <1>4 DEF SoundFact
  <1>7. Val("bytes", 0, b) \in Fields /\ InRange(Val("bytes", 0, b))
    BY <1>2, BytesIsField
  <1>8. 0 \in Nat
    OBVIOUS
  <1>9. Laid(<< Plain("bytes", 0, "pure") >>, << Val("bytes", 0, b) >>, << Fact("pure", m) >>, good)
    BY <1>2, <1>3, <1>5, <1>6, <1>7, <1>8, LaidField DEF fact
  <1> QED
    BY <1>9 DEF b, m, Bytes

\* Two variants before what they are followed by.
LEMMA OneThenOne ==
  ASSUME NEW a \in Fields, NEW b \in Fields, NEW s \in Seq(Fields)
  PROVE  << a >> \o (<< b >> \o s) = << a, b >> \o s
  <1>1. Associates(Fields)
    BY Associative
  <1>2. << a >> \in Seq(Fields) /\ << b >> \in Seq(Fields)
    OBVIOUS
  <1>3. (<< a >> \o << b >>) \o s = << a >> \o (<< b >> \o s)
    BY <1>1, <1>2, ZenonT(40) DEF Associates
  <1>4. << a >> \o << b >> = << a, b >>
    BY TwoOnes
  <1> QED
    BY <1>3, <1>4

\* CallArg.serialize.
LEMMA LaidInput ==
  ASSUME NEW good, NEW c, IsInput(c)
  PROVE  Laid(<< Enum("CallArg") >>, CallArg(c), InputFacts(c), good)
  <1>0. "CallArg" \in Words /\ "CallArg" \in Structure /\ CallArgKind.pure = 0 /\ CallArgKind.object = 1
    BY DEF Words, Structure, CallArgKind
  <1>1. CASE c.kind = "pure"
    <2>1. Laid(<< Plain("bytes", 0, "pure") >>, << Bytes(SerializePure(c)) >>, << Fact("pure", c.meant) >>, good)
      BY <1>1, LaidPure DEF IsInput
    <2>2. Variants("CallArg", 0) = << Plain("bytes", 0, "pure") >>
      BY DEF Variants
    <2>3. Laid(<< Enum("CallArg") >>, << Variant(0) >> \o << Bytes(SerializePure(c)) >>, << Fact("pure", c.meant) >>, good)
      BY <1>0, <2>1, <2>2, LaidStructure
    <2>4. CallArg(c) = << Variant(0), Bytes(SerializePure(c)) >>
      BY <1>0, <1>1 DEF CallArg
    <2>5. InputFacts(c) = << Fact("pure", c.meant) >>
      BY <1>1 DEF InputFacts
    <2> QED
      BY <2>3, <2>4, <2>5, TwoOnes
  <1>2. ASSUME NEW n \in Nat, c.kind \in Words, c.kind # "pure", n = ObjectArgKind[c.kind],
               NEW fields, NEW facts, Laid(Variants("ObjectArg", n), fields, facts, good),
               CallArg(c) = << Variant(1), Variant(n) >> \o fields,
               InputFacts(c) = << Fact("ObjectArg", c.kind) >> \o facts
        PROVE  Laid(<< Enum("CallArg") >>, CallArg(c), InputFacts(c), good)
    <2>1. Means("ObjectArg", n, c.kind)
      BY <1>2 DEF Means, IdRoles
    <2>2. Laid(<< Enum("ObjectArg") >>, << Variant(n) >> \o fields, << Fact("ObjectArg", c.kind) >> \o facts, good)
      BY <1>2, <2>1, LaidTagged
    <2>3. Variants("CallArg", 1) = << Enum("ObjectArg") >>
      BY DEF Variants
    <2>4. Laid(<< Enum("CallArg") >>, << Variant(1) >> \o (<< Variant(n) >> \o fields),
               << Fact("ObjectArg", c.kind) >> \o facts, good)
      BY <1>0, <2>2, <2>3, LaidStructure
    <2>5. fields \in Seq(Fields) /\ Variant(n) \in Fields /\ Variant(1) \in Fields
      BY <1>2, VariantIsField DEF Laid
    <2> QED
      BY <1>2, <2>4, <2>5, OneThenOne
  <1>3. CASE c.kind = "shared"
    <2>1. Laid(<< Id("object"), Number64("version"), Plain("bool", 0, "mutable") >>, SharedRef(c),
               << Fact("object", c.id), Fact("version", c.version), Fact("mutable", c.mutable) >>, good)
      BY <1>3, LaidShared DEF IsInput
    <2>2. Variants("ObjectArg", 1) = << Id("object"), Number64("version"), Plain("bool", 0, "mutable") >>
      BY DEF Variants
    <2>3. ObjectArgKind[c.kind] = 1 /\ c.kind \in Words
      BY <1>3 DEF ObjectArgKind, Words
    <2>4. CallArg(c) = << Variant(1), Variant(1) >> \o SharedRef(c)
      BY <1>0, <1>3, <2>3 DEF CallArg
    <2> DEFINE facts == << Fact("object", c.id), Fact("version", c.version), Fact("mutable", c.mutable) >>
    <2>5. InputFacts(c) = << Fact("ObjectArg", c.kind) >> \o facts
      <3>1. InputFacts(c) = << Fact("ObjectArg", c.kind), Fact("object", c.id), Fact("version", c.version),
                               Fact("mutable", c.mutable) >>
        BY <1>3 DEF InputFacts
      <3> QED
        BY <3>1, OneAndThree
    <2> HIDE DEF facts
    <2>6. Laid(Variants("ObjectArg", 1), SharedRef(c), facts, good)
      BY <2>1, <2>2 DEF facts
    <2> QED
      BY <1>2, <1>3, <2>3, <2>4, <2>5, <2>6
  <1>4. CASE c.kind \in {"owned", "receiving"}
    <2>1. Laid(RefThings, ObjectRef(c), RefFacts(c), good)
      BY <1>4, LaidRef DEF IsInput
    <2>2. Variants("ObjectArg", 0) = RefThings /\ Variants("ObjectArg", 2) = RefThings
      BY DEF Variants
    <2> DEFINE n == ObjectArgKind[c.kind]
    <2>3. n \in {0, 2} /\ c.kind \in Words
      <3>1. CASE c.kind = "owned"
        BY <3>1 DEF ObjectArgKind, Words
      <3>2. CASE c.kind = "receiving"
        BY <3>2 DEF ObjectArgKind, Words
      <3> QED
        BY <1>4, <3>1, <3>2
    <2>4. CallArg(c) = << Variant(1), Variant(n) >> \o ObjectRef(c)
      BY <1>0, <1>4 DEF CallArg
    <2>5. InputFacts(c) = << Fact("ObjectArg", c.kind) >> \o RefFacts(c)
      BY <1>4 DEF InputFacts
    <2>6. Laid(Variants("ObjectArg", n), ObjectRef(c), RefFacts(c), good)
      BY <2>1, <2>2, <2>3
    <2> HIDE DEF n
    <2> QED
      BY <1>2, <1>4, <2>3, <2>4, <2>5, <2>6 DEF n
  <1> QED
    BY <1>1, <1>3, <1>4 DEF IsInput

\* What Each says of its items.
Items(items) == Len(items) \in Nat /\ items = [i \in 1 .. Len(items) |-> items[i]]

\* A vector of items that are laid out one by one.
LEMMA LaidItems ==
  ASSUME NEW good, NEW of \in Words, NEW items, Items(items), NEW fields, NEW facts,
         fields = [i \in DOMAIN items |-> fields[i]], facts = [i \in DOMAIN items |-> facts[i]],
         \A i \in DOMAIN items : Laid(Element(of), fields[i], facts[i], good)
  PROVE  Laid(<< Vec(of) >>, << Length(items) >> \o FlattenSeq(fields), FlattenSeq(facts), good)
  <1> DEFINE n == Len(items)
  <1>1. n \in Nat /\ DOMAIN items = 1 .. n
    BY DEF Items
  <1>2. Length(items) = Variant(n)
    BY DEF Length, Variant
  <1> HIDE DEF n
  <1>3. /\ fields = [i \in 1 .. n |-> fields[i]] /\ facts = [i \in 1 .. n |-> facts[i]]
        /\ \A i \in 1 .. n : Laid(Element(of), fields[i], facts[i], good)
    BY <1>1
  <1>4. Laid(<< Vec(of) >>, << Variant(n) >> \o FlattenSeq(fields), FlattenSeq(facts), good)
    BY <1>1, <1>3, LaidVec
  <1> QED
    BY <1>2, <1>4

-----------------------------------------------------------------------------
(* Brackets. *)

\* What a character adds to the depth of brackets.
Weight(c) == IF c = Less THEN 1 ELSE IF c = Greater THEN -1 ELSE 0

\* The marks are different characters.
LEMMA MarksDiffer ==
  /\ {Prefix, Space, Colons, Less, Greater, Comma, Vector, Bool, U8, Letter} \subseteq Nat
  /\ Less \notin {Prefix, Space, Colons, Greater, Comma, Vector, Bool, U8, Letter}
  /\ Greater \notin {Prefix, Space, Colons, Less, Comma, Vector, Bool, U8, Letter}
  /\ Comma \notin {Prefix, Space, Colons, Less, Greater, Vector, Bool, U8, Letter}
  /\ Space \notin {Prefix, Colons, Less, Greater, Comma, Vector, Bool, U8, Letter}
  /\ Vector \notin {Prefix, Space, Colons, Less, Greater, Comma, Bool, U8, Letter}
  /\ Colons \notin {Prefix, Space, Less, Greater, Comma, Vector, Bool, U8, Letter}
  /\ Bool # U8
  <1>1. \A i \in DOMAIN Marks : Marks[i] \in Nat /\ \A j \in DOMAIN Marks : Marks[i] = Marks[j] => i = j
    BY TypesAssumption
  <1>2. /\ DOMAIN Marks = 1 .. 10
        /\ Marks[1] = Prefix /\ Marks[2] = Space /\ Marks[3] = Colons /\ Marks[4] = Less /\ Marks[5] = Greater
        /\ Marks[6] = Comma /\ Marks[7] = Vector /\ Marks[8] = Bool /\ Marks[9] = U8 /\ Marks[10] = Letter
    BY DEF Marks
  <1>3. \A i \in 1 .. 10 : Marks[i] \in Nat
    BY <1>1, <1>2
  <1>4. \A i, j \in 1 .. 10 : i # j => Marks[i] # Marks[j]
    BY <1>1, <1>2
  <1>5. /\ 1 \in 1 .. 10 /\ 2 \in 1 .. 10 /\ 3 \in 1 .. 10 /\ 4 \in 1 .. 10 /\ 5 \in 1 .. 10
        /\ 6 \in 1 .. 10 /\ 7 \in 1 .. 10 /\ 8 \in 1 .. 10 /\ 9 \in 1 .. 10 /\ 10 \in 1 .. 10
    OBVIOUS
  <1> DEFINE M == Marks
  <1> HIDE DEF M
  <1>6. {Prefix, Space, Colons, Less, Greater, Comma, Vector, Bool, U8, Letter} \subseteq Nat
    BY <1>2, <1>3, <1>5
  <1>7. \A j \in 1 .. 10 : j # 4 => Less # Marks[j]
    BY <1>2, <1>4, <1>5
  <1>8. \A j \in 1 .. 10 : j # 5 => Greater # Marks[j]
    BY <1>2, <1>4, <1>5
  <1>9. \A j \in 1 .. 10 : j # 6 => Comma # Marks[j]
    BY <1>2, <1>4, <1>5
  <1>10. \A j \in 1 .. 10 : j # 2 => Space # Marks[j]
    BY <1>2, <1>4, <1>5
  <1>11. \A j \in 1 .. 10 : j # 7 => Vector # Marks[j]
    BY <1>2, <1>4, <1>5
  <1>12. \A j \in 1 .. 10 : j # 3 => Colons # Marks[j]
    BY <1>2, <1>4, <1>5
  <1>13. Bool # U8
    BY <1>2, <1>4, <1>5
  <1>14. Less \notin {Prefix, Space, Colons, Greater, Comma, Vector, Bool, U8, Letter}
    BY <1>2, <1>5, <1>7
  <1>15. Greater \notin {Prefix, Space, Colons, Less, Comma, Vector, Bool, U8, Letter}
    BY <1>2, <1>5, <1>8
  <1>16. Comma \notin {Prefix, Space, Colons, Less, Greater, Vector, Bool, U8, Letter}
    BY <1>2, <1>5, <1>9
  <1>17. Space \notin {Prefix, Colons, Less, Greater, Comma, Vector, Bool, U8, Letter}
    BY <1>2, <1>5, <1>10
  <1>18. Vector \notin {Prefix, Space, Colons, Less, Greater, Comma, Bool, U8, Letter}
    BY <1>2, <1>5, <1>11
  <1>19. Colons \notin {Prefix, Space, Less, Greater, Comma, Vector, Bool, U8, Letter}
    BY <1>2, <1>5, <1>12
  <1> QED
    BY <1>6, <1>13, <1>14, <1>15, <1>16, <1>17, <1>18, <1>19

\* Depths, character by character.
DepthsOf(s) ==
  /\ Depth(s, 1) = 0 /\ \A i \in 1 .. Len(s) + 1 : Depth(s, i) \in Int
  /\ \A i \in 1 .. Len(s) : Depth(s, i + 1) = Depth(s, i) + Weight(s[i])

\* The depth of brackets, character by character.
LEMMA DepthRecursion ==
  ASSUME NEW s \in Seq(Nat)
  PROVE  DepthsOf(s)
  <1> DEFINE n == Len(s)
             W(c) == CASE c = Less -> 1 [] c = Greater -> -1 [] OTHER -> 0
             Eq(f) == f = [k \in 1 .. Len(s) + 1 |-> IF k = 1 THEN 0
                             ELSE f[k - 1] + CASE s[k - 1] = Less -> 1 [] s[k - 1] = Greater -> -1 [] OTHER -> 0]
             F == CHOOSE f : Eq(f)
             step == [p \in Int \X Int |-> p[2] + Weight(s[p[1] - 1])]
  <1>1. n \in Nat
    BY LenProperties
  <1>w. \A c : Weight(c) \in Int /\ Weight(c) = W(c)
    BY MarksDiffer DEF Weight
  <1>2. ASSUME NEW k \in 2 .. n + 1, NEW m \in Int
        PROVE  m + Weight(s[k - 1]) \in Int /\ step[<<k, m>>] = m + Weight(s[k - 1])
    <2>1. Weight(s[k - 1]) \in Int
      BY <1>w
    <2>2. step[<<k, m>>] = m + Weight(s[k - 1])
      OBVIOUS
    <2> QED
      BY <2>1, <2>2
  <1> HIDE DEF step, n, W
  <1>3. Steps(1, n + 1, Int, 0, step)
    <2>1. 1 \in Int /\ n + 1 \in Int /\ 1 <= n + 1 /\ 0 \in Int
      BY <1>1
    <2>2. (1 .. n + 1) \ {1} = 2 .. n + 1
      BY <1>1
    <2> QED
      BY <1>2, <2>1, <2>2 DEF Steps
  <1>4. PICK f \in [1 .. n + 1 -> Int] : RecursAlong(f, 1, n + 1, 0, step)
    BY <1>3, RecursionAlong
  <1>5. f[1] = 0 /\ \A k \in 2 .. n + 1 : f[k] = f[k - 1] + W(s[k - 1])
    <2>1. f[1] = 0
      BY <1>4 DEF RecursAlong
    <2>2. ASSUME NEW k \in 2 .. n + 1 PROVE f[k] = f[k - 1] + W(s[k - 1])
      <3>1. k \in (1 .. n + 1) \ {1} /\ k - 1 \in 1 .. n + 1
        BY <1>1
      <3>2. f[k] = step[<<k, f[k - 1]>>] /\ f[k - 1] \in Int
        BY <1>4, <3>1 DEF RecursAlong
      <3> QED
        BY <1>w, <1>2, <3>2
    <2> QED
      BY <2>1, <2>2
  <1>6. Eq(f)
    <2>1. \A k \in 1 .. n + 1 : f[k] = IF k = 1 THEN 0 ELSE f[k - 1] + W(s[k - 1])
      <3> SUFFICES ASSUME NEW k \in 1 .. n + 1 PROVE f[k] = IF k = 1 THEN 0 ELSE f[k - 1] + W(s[k - 1])
        OBVIOUS
      <3>1. k = 1 \/ k \in 2 .. n + 1
        BY <1>1
      <3> QED
        BY <1>5, <3>1
    <2>2. f = [k \in 1 .. n + 1 |-> IF k = 1 THEN 0 ELSE f[k - 1] + W(s[k - 1])]
      BY <1>4, <2>1
    <2> QED
      BY <2>2 DEF n, W
  <1>7. Eq(F)
    <2> HIDE DEF Eq
    <2> QED
      BY <1>6
  <1>8. \A i : Depth(s, i) = F[i]
    BY DEF Depth
  <1> HIDE DEF F
  <1>9. \A k \in 1 .. n + 1 : F[k] = IF k = 1 THEN 0 ELSE F[k - 1] + W(s[k - 1])
    <2>1. F = [k \in 1 .. n + 1 |-> IF k = 1 THEN 0 ELSE F[k - 1] + W(s[k - 1])]
      BY <1>7 DEF n, W
    <2> HIDE <1>7
    <2> QED
      BY <2>1
  <1>10. Depth(s, 1) = 0
    <2>1. 1 \in 1 .. n + 1 /\ 1 = 1
      BY <1>1
    <2>2. F[1] = IF 1 = 1 THEN 0 ELSE F[1 - 1] + W(s[1 - 1])
      BY <1>9, <2>1
    <2> QED
      BY <1>8, <2>2
  <1>11. \A i \in 1 .. n : Depth(s, i + 1) = Depth(s, i) + Weight(s[i])
    <2> SUFFICES ASSUME NEW i \in 1 .. n PROVE Depth(s, i + 1) = Depth(s, i) + Weight(s[i])
      OBVIOUS
    <2>1. i + 1 \in 1 .. n + 1 /\ i + 1 # 1 /\ (i + 1) - 1 = i
      BY <1>1
    <2>2. F[i + 1] = F[i] + W(s[i])
      BY <1>9, <2>1
    <2> QED
      BY <1>w, <1>8, <2>2
  <1>12. 1 .. n + 1 \subseteq {i \in 1 .. n + 1 : Depth(s, i) \in Int}
    <2> DEFINE S == {i \in 1 .. n + 1 : Depth(s, i) \in Int}
    <2>1. 1 \in S
      BY <1>1, <1>10
    <2>2. ASSUME NEW k \in 1 .. (n + 1) - 1, k \in S PROVE k + 1 \in S
      <3>1. k \in 1 .. n /\ k + 1 \in 1 .. n + 1
        BY <1>1
      <3>2. Depth(s, k + 1) = Depth(s, k) + Weight(s[k]) /\ Depth(s, k) \in Int /\ Weight(s[k]) \in Int
        BY <1>w, <1>11, <2>2, <3>1
      <3> QED
        BY <3>1, <3>2
    <2>3. 1 \in Int /\ n + 1 \in Int
      BY <1>1
    <2> HIDE DEF S
    <2>4. 1 .. n + 1 \subseteq S
      BY <2>1, <2>2, <2>3, InductionAlong
    <2> QED
      BY <2>4 DEF S
  <1> QED
    BY <1>10, <1>11, <1>12 DEF DepthsOf, n

\* Depths in a text behind another one go on from where that ended.
LEMMA DepthConcat ==
  ASSUME NEW a \in Seq(Nat), NEW b \in Seq(Nat)
  PROVE  /\ \A i \in 1 .. Len(a) + 1 : Depth(a \o b, i) = Depth(a, i)
         /\ \A j \in 1 .. Len(b) + 1 : Depth(a \o b, Len(a) + j) = Depth(a, Len(a) + 1) + Depth(b, j)
  <1> DEFINE s == a \o b
             n == Len(a)
             m == Len(b)
  <1>1. /\ s \in Seq(Nat) /\ Len(s) = n + m /\ n \in Nat /\ m \in Nat
        /\ \A i \in 1 .. n + m : s[i] = IF i <= n THEN a[i] ELSE b[i - n]
    BY ConcatProperties, LenProperties
  <1>2. DepthsOf(s) /\ DepthsOf(a) /\ DepthsOf(b)
    BY <1>1, DepthRecursion
  <1> HIDE DEF s
  <1>3. 1 .. n + 1 \subseteq {i \in 1 .. n + 1 : Depth(s, i) = Depth(a, i)}
    <2> DEFINE S == {i \in 1 .. n + 1 : Depth(s, i) = Depth(a, i)}
    <2>1. 1 \in S
      BY <1>1, <1>2 DEF DepthsOf
    <2>2. ASSUME NEW k \in 1 .. (n + 1) - 1, k \in S PROVE k + 1 \in S
      <3>1. k \in 1 .. n /\ k + 1 \in 1 .. n + 1 /\ k \in 1 .. n + m /\ k <= n
        BY <1>1
      <3>2. s[k] = a[k]
        BY <1>1, <3>1
      <3>3. Depth(s, k + 1) = Depth(s, k) + Weight(s[k]) /\ Depth(a, k + 1) = Depth(a, k) + Weight(a[k])
        BY <1>1, <1>2, <3>1 DEF DepthsOf
      <3>4. Depth(s, k) = Depth(a, k)
        BY <2>2
      <3> QED
        BY <3>1, <3>2, <3>3, <3>4
    <2>3. 1 \in Int /\ n + 1 \in Int
      BY <1>1
    <2> HIDE DEF S
    <2>4. 1 .. n + 1 \subseteq S
      BY <2>1, <2>2, <2>3, InductionAlong
    <2> QED
      BY <2>4 DEF S
  <1> DEFINE T == {j \in 1 .. m + 1 : Depth(s, n + j) = Depth(a, n + 1) + Depth(b, j)}
  <1>4. 1 \in T
    <2>1. n + 1 \in 1 .. n + 1 /\ 1 \in 1 .. m + 1
      BY <1>1
    <2>2. Depth(b, 1) = 0 /\ Depth(a, n + 1) \in Int
      BY <1>2, <2>1 DEF DepthsOf
    <2>3. Depth(s, n + 1) = Depth(a, n + 1)
      BY <1>3, <2>1
    <2> QED
      BY <2>1, <2>2, <2>3
  <1>5. ASSUME NEW k \in 1 .. (m + 1) - 1, k \in T PROVE k + 1 \in T
    <2>1. /\ k \in 1 .. m /\ k + 1 \in 1 .. m + 1 /\ n + k \in 1 .. n + m /\ ~(n + k <= n) /\ (n + k) - n = k
          /\ (n + k) + 1 = n + (k + 1) /\ n + 1 \in 1 .. n + 1 /\ k \in 1 .. m + 1
      BY <1>1
    <2>2. s[n + k] = b[k]
      BY <1>1, <2>1
    <2>3. Depth(s, n + (k + 1)) = Depth(s, n + k) + Weight(s[n + k])
          /\ Depth(b, k + 1) = Depth(b, k) + Weight(b[k])
      BY <1>1, <1>2, <2>1 DEF DepthsOf
    <2>4. Depth(s, n + k) = Depth(a, n + 1) + Depth(b, k)
      BY <1>5
    <2>5. Depth(a, n + 1) \in Int /\ Depth(b, k) \in Int /\ Weight(b[k]) \in Int
      BY <1>2, <2>1 DEF DepthsOf, Weight
    <2> QED
      BY <2>1, <2>2, <2>3, <2>4, <2>5
  <1>6. 1 .. m + 1 \subseteq T
    <2>1. 1 \in Int /\ m + 1 \in Int
      BY <1>1
    <2> HIDE DEF T
    <2> QED
      BY <1>4, <1>5, <2>1, InductionAlong
  <1> QED
    BY <1>3, <1>6 DEF s

\* A text that closes the brackets that it opens, and no other; without a comma outside them.
Balanced(s) ==
  /\ s \in Seq(Nat) /\ Depth(s, Len(s) + 1) = 0
  /\ \A i \in 1 .. Len(s) + 1 : Depth(s, i) >= 0
\* The commas of a text are inside its brackets.
Uncut(s) == \A i \in 1 .. Len(s) : s[i] = Comma => Depth(s, i) > 0

\* Two texts whose brackets match, one after the other,
LEMMA BalancedConcat ==
  ASSUME NEW a, NEW b, Balanced(a), Balanced(b)
  PROVE  Balanced(a \o b)
  <1> DEFINE s == a \o b
             n == Len(a)
             m == Len(b)
  <1>1. /\ s \in Seq(Nat) /\ Len(s) = n + m /\ n \in Nat /\ m \in Nat
    BY ConcatProperties, LenProperties DEF Balanced
  <1>2. /\ \A i \in 1 .. n + 1 : Depth(s, i) = Depth(a, i) /\ Depth(a, i) \in Int /\ Depth(a, i) >= 0
        /\ \A j \in 1 .. m + 1 : /\ Depth(s, n + j) = Depth(a, n + 1) + Depth(b, j)
                                 /\ Depth(b, j) \in Int /\ Depth(b, j) >= 0
    BY DepthConcat, DepthRecursion DEF Balanced, DepthsOf
  <1>3. Depth(a, n + 1) = 0 /\ Depth(b, m + 1) = 0
    BY DEF Balanced
  <1> HIDE DEF s, n, m
  <1>4. m + 1 \in 1 .. m + 1 /\ n + (m + 1) = (n + m) + 1
    BY <1>1
  <1>5. Depth(s, (n + m) + 1) = 0
    BY <1>2, <1>3, <1>4
  <1>6. ASSUME NEW i \in 1 .. (n + m) + 1 PROVE Depth(s, i) >= 0
    <2>1. CASE i <= n + 1
      <3>1. i \in 1 .. n + 1
        BY <1>1, <2>1
      <3> QED
        BY <1>2, <3>1
    <2>2. CASE ~(i <= n + 1)
      <3>1. i - n \in 1 .. m + 1 /\ n + (i - n) = i
        BY <1>1, <2>2
      <3> QED
        BY <1>2, <1>3, <3>1
    <2> QED
      BY <2>1, <2>2
  <1>7. Balanced(s)
    BY <1>1, <1>5, <1>6 DEF Balanced
  <1> QED
    BY <1>7 DEF s

\* have no comma outside brackets if neither has.
LEMMA UncutConcat ==
  ASSUME NEW a, NEW b, Balanced(a), Balanced(b), Uncut(a), Uncut(b)
  PROVE  Uncut(a \o b)
  <1> DEFINE s == a \o b
             n == Len(a)
             m == Len(b)
  <1>1. /\ Len(s) = n + m /\ n \in Nat /\ m \in Nat
        /\ \A i \in 1 .. n + m : s[i] = IF i <= n THEN a[i] ELSE b[i - n]
    BY ConcatProperties, LenProperties DEF Balanced
  <1>2. /\ \A i \in 1 .. n + 1 : Depth(s, i) = Depth(a, i)
        /\ \A j \in 1 .. m + 1 : Depth(s, n + j) = Depth(a, n + 1) + Depth(b, j) /\ Depth(b, j) \in Int
    BY DepthConcat, DepthRecursion DEF Balanced, DepthsOf
  <1>3. Depth(a, n + 1) = 0
    BY DEF Balanced
  <1> HIDE DEF s
  <1>4. ASSUME NEW i \in 1 .. n + m, s[i] = Comma PROVE Depth(s, i) > 0
    <2>1. CASE i <= n
      <3>1. i \in 1 .. n + 1 /\ i \in 1 .. n
        BY <1>1, <2>1
      <3> QED
        BY <1>1, <1>2, <1>4, <2>1, <3>1 DEF Uncut
    <2>2. CASE ~(i <= n)
      <3>1. i - n \in 1 .. m + 1 /\ n + (i - n) = i /\ i - n \in 1 .. m
        BY <1>1, <2>2
      <3>2. Depth(s, i) = Depth(b, i - n)
        BY <1>2, <1>3, <3>1
      <3>3. b[i - n] = Comma
        BY <1>1, <1>4, <2>2
      <3>4. Depth(b, i - n) > 0
        BY <3>1, <3>3 DEF Uncut
      <3> QED
        BY <3>2, <3>4
    <2> QED
      BY <2>1, <2>2
  <1> QED
    BY <1>1, <1>4 DEF Uncut, s

\* A text without brackets.
LEMMA NoBrackets ==
  ASSUME NEW s \in Seq(Nat), \A i \in 1 .. Len(s) : s[i] \notin {Less, Greater}
  PROVE  Balanced(s) /\ \A i \in 1 .. Len(s) + 1 : Depth(s, i) = 0
  <1> DEFINE n == Len(s)
             S == {i \in 1 .. n + 1 : Depth(s, i) = 0}
  <1>1. n \in Nat /\ DepthsOf(s)
    BY LenProperties, DepthRecursion
  <1>2. 1 \in S
    BY <1>1 DEF DepthsOf
  <1>3. ASSUME NEW k \in 1 .. (n + 1) - 1, k \in S PROVE k + 1 \in S
    <2>1. k \in 1 .. n /\ k + 1 \in 1 .. n + 1
      BY <1>1
    <2>2. Depth(s, k + 1) = Depth(s, k) + Weight(s[k])
      BY <1>1, <2>1 DEF DepthsOf
    <2>3. Depth(s, k) = 0 /\ Weight(s[k]) = 0
      BY <1>3, <2>1 DEF Weight
    <2> QED
      BY <2>1, <2>2, <2>3
  <1>4. 1 .. n + 1 \subseteq S
    <2>1. 1 \in Int /\ n + 1 \in Int
      BY <1>1
    <2> HIDE DEF S
    <2> QED
      BY <1>2, <1>3, <2>1, InductionAlong
  <1>5. \A i \in 1 .. n + 1 : Depth(s, i) = 0
    BY <1>4
  <1>6. n + 1 \in 1 .. n + 1
    BY <1>1
  <1> QED
    BY <1>5, <1>6 DEF Balanced

\* A text in brackets.
LEMMA Bracketed ==
  ASSUME NEW s, Balanced(s)
  PROVE  LET w == (<< Less >> \o s) \o << Greater >>
         IN  Balanced(w) /\ Uncut(w)
  <1> DEFINE o == << Less >>
             c == << Greater >>
             u == o \o s
             w == u \o c
             n == Len(s)
  <1>0. Less \in Nat /\ Greater \in Nat /\ Less # Greater /\ Comma \notin {Less, Greater}
    BY MarksDiffer
  <1>1. /\ o \in Seq(Nat) /\ Len(o) = 1 /\ o[1] = Less /\ c \in Seq(Nat) /\ Len(c) = 1 /\ c[1] = Greater
    BY <1>0
  <1> HIDE DEF o, c
  <1>2. /\ u \in Seq(Nat) /\ Len(u) = 1 + n /\ n \in Nat /\ s \in Seq(Nat)
        /\ \A i \in 1 .. 1 + n : u[i] = IF i <= 1 THEN o[i] ELSE s[i - 1]
    <2>1. s \in Seq(Nat)
      BY DEF Balanced
    <2>2. u \in Seq(Nat) /\ Len(u) = Len(o) + Len(s) /\ Len(s) \in Nat
          /\ \A i \in 1 .. Len(o) + Len(s) : u[i] = IF i <= Len(o) THEN o[i] ELSE s[i - Len(o)]
      BY <1>1, <2>1, ConcatProperties, LenProperties
    <2> QED
      BY <1>1, <2>1, <2>2
  <1>3. /\ w \in Seq(Nat) /\ Len(w) = n + 2
        /\ \A i \in 1 .. n + 2 : w[i] = IF i <= n + 1 THEN u[i] ELSE c[i - (n + 1)]
    <2> HIDE DEF u
    <2>1. w \in Seq(Nat) /\ Len(w) = Len(u) + Len(c)
          /\ \A i \in 1 .. Len(u) + Len(c) : w[i] = IF i <= Len(u) THEN u[i] ELSE c[i - Len(u)]
      BY <1>1, <1>2, ConcatProperties
    <2>2. Len(u) = n + 1 /\ Len(u) + Len(c) = n + 2
      BY <1>1, <1>2
    <2> QED
      BY <2>1, <2>2
  <1>4. Depth(o, 1) = 0 /\ Depth(o, 2) = 1
    <2>1. DepthsOf(o)
      BY <1>1, DepthRecursion
    <2>2. 1 \in 1 .. 1
      OBVIOUS
    <2>3. Depth(o, 1) = 0 /\ Depth(o, 1 + 1) = Depth(o, 1) + Weight(o[1])
      BY <1>1, <2>1, <2>2 DEF DepthsOf
    <2> QED
      BY <1>1, <2>3 DEF Weight
  <1>5. Depth(c, 1) = 0 /\ Depth(c, 2) = -1
    <2>1. DepthsOf(c)
      BY <1>1, DepthRecursion
    <2>2. 1 \in 1 .. 1
      OBVIOUS
    <2>3. Depth(c, 1) = 0 /\ Depth(c, 1 + 1) = Depth(c, 1) + Weight(c[1])
      BY <1>1, <2>1, <2>2 DEF DepthsOf
    <2> QED
      BY <1>0, <1>1, <2>3 DEF Weight
  <1>6. /\ Depth(u, 1) = 0
        /\ \A j \in 1 .. n + 1 : Depth(u, 1 + j) = 1 + Depth(s, j)
    <2>1. /\ \A i \in 1 .. Len(o) + 1 : Depth(u, i) = Depth(o, i)
          /\ \A j \in 1 .. n + 1 : Depth(u, Len(o) + j) = Depth(o, Len(o) + 1) + Depth(s, j)
      BY <1>1, <1>2, DepthConcat
    <2>2. 1 \in 1 .. Len(o) + 1 /\ Len(o) + 1 = 2
      BY <1>1
    <2> QED
      BY <1>1, <1>4, <2>1, <2>2
  <1>7. \A j \in 1 .. n + 1 : Depth(s, j) \in Int /\ Depth(s, j) >= 0
    BY <1>2, DepthRecursion DEF Balanced, DepthsOf
  <1>8. Depth(s, n + 1) = 0
    BY DEF Balanced
  <1> HIDE DEF u
  <1>9. /\ \A i \in 1 .. n + 2 : Depth(w, i) = Depth(u, i)
        /\ Depth(w, n + 3) = 0
    <2>1. /\ \A i \in 1 .. Len(u) + 1 : Depth(w, i) = Depth(u, i)
          /\ \A j \in 1 .. Len(c) + 1 : Depth(w, Len(u) + j) = Depth(u, Len(u) + 1) + Depth(c, j)
      BY <1>1, <1>2, DepthConcat
    <2>2. Len(u) + 1 = n + 2 /\ 2 \in 1 .. Len(c) + 1 /\ Len(u) + 2 = n + 3
      BY <1>1, <1>2
    <2>3. n + 1 \in 1 .. n + 1 /\ 1 + (n + 1) = n + 2
      BY <1>2
    <2>4. Depth(u, n + 2) = 1
      BY <1>6, <1>8, <2>3
    <2>5. Depth(w, Len(u) + 2) = Depth(u, Len(u) + 1) + Depth(c, 2)
      BY <2>1, <2>2
    <2> QED
      BY <1>5, <2>1, <2>2, <2>4, <2>5
  <1>10. \A i \in 1 .. n + 2 : i = 1 \/ (i - 1 \in 1 .. n + 1 /\ 1 + (i - 1) = i)
    BY <1>2
  <1>11. \A i \in 1 .. n + 2 : Depth(w, i) >= 0 /\ (i # 1 => Depth(w, i) > 0)
    <2> SUFFICES ASSUME NEW i \in 1 .. n + 2 PROVE Depth(w, i) >= 0 /\ (i # 1 => Depth(w, i) > 0)
      OBVIOUS
    <2>0. Depth(w, i) = Depth(u, i)
      BY <1>9
    <2> HIDE DEF w
    <2>1. CASE i = 1
      BY <1>6, <2>0, <2>1
    <2>2. CASE i # 1
      <3>1. i - 1 \in 1 .. n + 1 /\ 1 + (i - 1) = i
        BY <1>10, <2>2
      <3>2. Depth(u, 1 + (i - 1)) = 1 + Depth(s, i - 1)
        BY <1>6, <3>1
      <3>3. Depth(s, i - 1) \in Int /\ Depth(s, i - 1) >= 0
        BY <1>7, <3>1
      <3>4. Depth(u, i) = 1 + Depth(s, i - 1)
        BY <3>1, <3>2
      <3> QED
        BY <2>0, <3>3, <3>4
    <2> QED
      BY <2>1, <2>2
  <1> HIDE DEF w
  <1>12. Balanced(w)
    <2>1. Len(w) + 1 = n + 3 /\ \A i \in 1 .. n + 3 : i \in 1 .. n + 2 \/ i = n + 3
      BY <1>2, <1>3
    <2> QED
      BY <1>3, <1>9, <1>11, <2>1 DEF Balanced
  <1>13. Uncut(w)
    <2>1. 1 \in 1 .. n + 2 /\ 1 <= n + 1 /\ 1 \in 1 .. 1 + n /\ 1 <= 1
      BY <1>2
    <2>2. w[1] = Less
      BY <1>1, <1>2, <1>3, <2>1
    <2> QED
      BY <1>0, <1>3, <1>11, <2>2 DEF Uncut
  <1>14. w = (<< Less >> \o s) \o << Greater >>
    BY DEF w, u, o, c
  <1> QED
    BY <1>12, <1>13, <1>14

-----------------------------------------------------------------------------
(* Cutting a text at places. *)

\* Lists of texts, as Pieces makes them.
Lists == Seq(Seq(Nat)) \ {<< >>}

\* The pieces of a text that has one character more, the k-th.
Cutting(before, c, k, places) ==
  IF k \in places THEN Append(before, << >>) ELSE Append(Front(before), Append(Last(before), c))

\* The last piece, and those before it.
LEMMA LastPiece ==
  ASSUME NEW ss \in Lists
  PROVE  /\ Len(ss) \in Nat \ {0} /\ Last(ss) \in Seq(Nat)
         /\ Front(ss) \in Seq(Seq(Nat)) /\ Len(Front(ss)) = Len(ss) - 1
         /\ \A i \in 1 .. Len(ss) - 1 : Front(ss)[i] = ss[i]
  <1>1. ss \in Seq(Seq(Nat)) /\ Len(ss) \in Nat \ {0}
    BY EmptySeq DEF Lists
  <1>2. \A i \in 1 .. Len(ss) : ss[i] \in Seq(Nat)
    BY <1>1, ElementOfSeq
  <1> DEFINE n == Len(ss)
             f == SubSeq(ss, 1, n - 1)
  <1>3. n \in Nat \ {0} /\ \A i \in 1 .. n : ss[i] \in Seq(Nat)
    BY <1>1, <1>2
  <1> HIDE DEF n
  <1>4. 1 \in Int /\ n - 1 \in Int /\ n \in 1 .. n /\ \A i \in 1 .. n - 1 : ss[i] \in Seq(Nat)
    BY <1>3
  <1>5. /\ f \in Seq(Seq(Nat)) /\ Len(f) = (IF 1 <= n - 1 THEN n - 1 - 1 + 1 ELSE 0)
        /\ \A i \in 1 .. n - 1 - 1 + 1 : f[i] = ss[1 + i - 1]
    BY <1>4, SubSeqProperties
  <1> HIDE DEF f
  <1>6. Len(f) = n - 1 /\ \A i \in 1 .. n - 1 : f[i] = ss[i]
    <2>1. ASSUME NEW i \in 1 .. n - 1 PROVE f[i] = ss[i]
      <3>1. i \in 1 .. n - 1 - 1 + 1 /\ 1 + i - 1 = i
        BY <1>3
      <3> QED
        BY <1>5, <3>1
    <2> QED
      BY <1>3, <1>5, <2>1
  <1> QED
    BY <1>1, <1>3, <1>4, <1>5, <1>6 DEF n, f, Front, Last

\* A text that is longer is cut into texts.
LEMMA CuttingFacts ==
  ASSUME NEW ss \in Lists, NEW c \in Nat, NEW k, NEW P
  PROVE  Cutting(ss, c, k, P) \in Lists
  <1>1. /\ Last(ss) \in Seq(Nat) /\ Front(ss) \in Seq(Seq(Nat)) /\ ss \in Seq(Seq(Nat)) /\ << >> \in Seq(Nat)
    BY LastPiece, EmptySeq DEF Lists
  <1>2. Append(Last(ss), c) \in Seq(Nat)
    BY <1>1, AppendProperties
  <1>a. ASSUME NEW f \in Seq(Seq(Nat)), NEW l \in Seq(Nat) PROVE Append(f, l) \in Lists
    <2>1. Append(f, l) \in Seq(Seq(Nat)) /\ Append(f, l) # << >>
      BY AppendProperties
    <2> QED
      BY <2>1 DEF Lists
  <1>3. Append(ss, << >>) \in Lists
    BY <1>1, <1>a
  <1>4. Append(Front(ss), Append(Last(ss), c)) \in Lists
    BY <1>1, <1>2, <1>a
  <1> QED
    BY <1>3, <1>4 DEF Cutting

\* The pieces of a text, character by character.
LEMMA PiecesRecursion ==
  ASSUME NEW s \in Seq(Nat), NEW P
  PROVE  \E f \in [0 .. Len(s) -> Lists] :
           /\ f[0] = << << >> >> /\ \A k \in 1 .. Len(s) : f[k] = Cutting(f[k - 1], s[k], k, P)
           /\ Pieces(s, P) = f[Len(s)]
  <1> DEFINE n == Len(s)
             Eq(f) == f = [k \in 0 .. Len(s) |-> IF k = 0 THEN << << >> >>
                             ELSE LET before == f[k - 1] IN
                                  IF k \in P THEN Append(before, << >>)
                                  ELSE Append(Front(before), Append(Last(before), s[k]))]
             F == CHOOSE f : Eq(f)
             step == [p \in Nat \X Lists |-> Cutting(p[2], s[p[1]], p[1], P)]
  <1>1. n \in Nat /\ \A k \in 1 .. n : s[k] \in Nat
    BY LenProperties, ElementOfSeq
  <1>2. ASSUME NEW k \in 1 .. n, NEW m \in Lists
        PROVE  Cutting(m, s[k], k, P) \in Lists /\ step[<<k, m>>] = Cutting(m, s[k], k, P)
    <2>1. s[k] \in Nat /\ k \in Nat
      BY <1>1
    <2>2. step[<<k, m>>] = Cutting(m, s[k], k, P)
      BY <2>1
    <2> QED
      BY <2>1, <2>2, CuttingFacts
  <1> HIDE DEF step, n
  <1>3. Steps(0, n, Lists, << << >> >>, step)
    <2>1. 0 \in Int /\ n \in Int /\ 0 <= n
      BY <1>1
    <2>2. (0 .. n) \ {0} = 1 .. n
      BY <1>1
    <2>3. << << >> >> \in Lists
      <3>1. << >> \in Seq(Nat)
        BY EmptySeq
      <3> QED
        BY <3>1 DEF Lists
    <2> QED
      BY <1>2, <2>1, <2>2, <2>3 DEF Steps
  <1>4. PICK f \in [0 .. n -> Lists] : RecursAlong(f, 0, n, << << >> >>, step)
    BY <1>3, RecursionAlong
  <1>5. f[0] = << << >> >> /\ \A k \in 1 .. n : f[k] = Cutting(f[k - 1], s[k], k, P)
    <2>1. f[0] = << << >> >>
      BY <1>4 DEF RecursAlong
    <2>2. ASSUME NEW k \in 1 .. n PROVE f[k] = Cutting(f[k - 1], s[k], k, P)
      <3>1. k \in (0 .. n) \ {0} /\ k - 1 \in 0 .. n
        BY <1>1
      <3>2. f[k] = step[<<k, f[k - 1]>>] /\ f[k - 1] \in Lists
        BY <1>4, <3>1 DEF RecursAlong
      <3> QED
        BY <1>2, <3>2
    <2> QED
      BY <2>1, <2>2
  <1>6. Eq(f)
    <2>1. \A k \in 0 .. n : f[k] = IF k = 0 THEN << << >> >> ELSE Cutting(f[k - 1], s[k], k, P)
      <3> SUFFICES ASSUME NEW k \in 0 .. n
                   PROVE f[k] = IF k = 0 THEN << << >> >> ELSE Cutting(f[k - 1], s[k], k, P)
        OBVIOUS
      <3>1. k = 0 \/ k \in 1 .. n
        BY <1>1
      <3> QED
        BY <1>5, <3>1
    <2>2. f = [k \in 0 .. n |-> IF k = 0 THEN << << >> >> ELSE Cutting(f[k - 1], s[k], k, P)]
      BY <1>4, <2>1
    <2> QED
      BY <2>2 DEF n, Cutting
  <1>7. Eq(F)
    <2> HIDE DEF Eq
    <2> QED
      BY <1>6
  <1>8. Pieces(s, P) = F[n]
    BY DEF Pieces, n
  <1> HIDE DEF F
  <1>9. F = [k \in 0 .. n |-> IF k = 0 THEN << << >> >> ELSE Cutting(F[k - 1], s[k], k, P)]
    BY <1>7 DEF n, Cutting
  <1>10. \A k \in 0 .. n : F[k] = IF k = 0 THEN << << >> >> ELSE Cutting(F[k - 1], s[k], k, P)
    <2> HIDE <1>7
    <2> QED
      BY <1>9
  <1>11. 0 .. n \subseteq {k \in 0 .. n : F[k] = f[k]}
    <2> DEFINE S == {k \in 0 .. n : F[k] = f[k]}
    <2>0. 0 \in 0 .. n /\ 0 = 0
      BY <1>1
    <2>a. F[0] = IF 0 = 0 THEN << << >> >> ELSE Cutting(F[0 - 1], s[0], 0, P)
      BY <1>10, <2>0
    <2>b. F[0] = << << >> >>
      BY <2>a
    <2>1. 0 \in S
      BY <1>5, <2>0, <2>b
    <2>2. ASSUME NEW k \in 0 .. n - 1, k \in S PROVE k + 1 \in S
      <3>1. k + 1 \in 0 .. n /\ k + 1 \in 1 .. n /\ (k + 1) - 1 = k /\ k + 1 # 0
        BY <1>1
      <3>2. F[k + 1] = Cutting(F[k], s[k + 1], k + 1, P)
        BY <1>10, <3>1
      <3>3. f[k + 1] = Cutting(f[k], s[k + 1], k + 1, P)
        BY <1>5, <3>1
      <3> QED
        BY <2>2, <3>1, <3>2, <3>3
    <2>3. 0 \in Int /\ n \in Int
      BY <1>1
    <2> HIDE DEF S
    <2>4. 0 .. n \subseteq S
      BY <2>1, <2>2, <2>3, InductionAlong
    <2> QED
      BY <2>4 DEF S
  <1>12. F[n] = f[n]
    <2>1. n \in 0 .. n
      BY <1>1
    <2> QED
      BY <1>11, <2>1
  <1> QED
    BY <1>4, <1>5, <1>8, <1>12 DEF n

\* The empty text is one piece.
LEMMA PiecesEmpty ==
  ASSUME NEW P
  PROVE  Pieces(<< >>, P) = << << >> >>
  <1>1. << >> \in Seq(Nat) /\ Len(<< >>) = 0
    BY EmptySeq
  <1> DEFINE e == << >>
  <1>2. e \in Seq(Nat) /\ Len(e) = 0
    BY <1>1
  <1> HIDE DEF e
  <1>3. PICK f \in [0 .. Len(e) -> Lists] :
           /\ f[0] = << << >> >> /\ \A k \in 1 .. Len(e) : f[k] = Cutting(f[k - 1], e[k], k, P)
           /\ Pieces(e, P) = f[Len(e)]
    BY <1>2, PiecesRecursion
  <1>4. Pieces(e, P) = << << >> >>
    BY <1>2, <1>3
  <1> QED
    BY <1>4 DEF e

\* The pieces are some texts; one character more goes to the last of them, or begins another.
LEMMA PiecesAppend ==
  ASSUME NEW s \in Seq(Nat), NEW c \in Nat, NEW P
  PROVE  /\ Pieces(s, P) \in Lists
         /\ Pieces(Append(s, c), P) = Cutting(Pieces(s, P), c, Len(s) + 1, P)
  <1> DEFINE n == Len(s)
             t == Append(s, c)
  <1>1. n \in Nat /\ t \in Seq(Nat) /\ Len(t) = n + 1 /\ t[n + 1] = c /\ \A k \in 1 .. n : t[k] = s[k]
    BY AppendProperties, LenProperties
  <1> HIDE DEF t
  <1>2. PICK f \in [0 .. n -> Lists] :
           /\ f[0] = << << >> >> /\ \A k \in 1 .. n : f[k] = Cutting(f[k - 1], s[k], k, P)
           /\ Pieces(s, P) = f[n]
    BY PiecesRecursion
  <1>3. PICK g \in [0 .. Len(t) -> Lists] :
           /\ g[0] = << << >> >> /\ \A k \in 1 .. Len(t) : g[k] = Cutting(g[k - 1], t[k], k, P)
           /\ Pieces(t, P) = g[Len(t)]
    BY <1>1, PiecesRecursion
  <1> HIDE DEF n
  <1> DEFINE S == {k \in 0 .. n : g[k] = f[k]}
  <1>4. 0 \in S
    <2>1. 0 \in 0 .. n
      BY <1>1
    <2> QED
      BY <1>2, <1>3, <2>1
  <1>5. ASSUME NEW k \in 0 .. n - 1, k \in S PROVE k + 1 \in S
    <2>1. k + 1 \in 0 .. n /\ k + 1 \in 1 .. n /\ k + 1 \in 1 .. Len(t) /\ (k + 1) - 1 = k
      BY <1>1
    <2>2. g[k] = f[k]
      BY <1>5
    <2>3. /\ f[k + 1] = Cutting(f[k], s[k + 1], k + 1, P) /\ g[k + 1] = Cutting(g[k], t[k + 1], k + 1, P)
          /\ t[k + 1] = s[k + 1]
      BY <1>1, <1>2, <1>3, <2>1
    <2> QED
      BY <2>1, <2>2, <2>3
  <1>6. 0 .. n \subseteq S
    <2>1. 0 \in Int /\ n \in Int
      BY <1>1
    <2> HIDE DEF S
    <2> QED
      BY <1>4, <1>5, <2>1, InductionAlong
  <1>7. n \in 0 .. n /\ n + 1 \in 1 .. Len(t) /\ (n + 1) - 1 = n
    BY <1>1
  <1>8. g[n] = f[n] /\ f[n] \in Lists
    BY <1>2, <1>6, <1>7
  <1>9. g[n + 1] = Cutting(g[n], t[n + 1], n + 1, P)
    BY <1>3, <1>7
  <1> QED
    BY <1>1, <1>2, <1>3, <1>8, <1>9 DEF n, t

\* No piece is longer than the text.
LEMMA PiecesShorter ==
  ASSUME NEW s \in Seq(Nat), NEW P
  PROVE  \A k \in DOMAIN Pieces(s, P) : Len(Pieces(s, P)[k]) <= Len(s)
  <1> DEFINE Short(t) == \A k \in 1 .. Len(Pieces(t, P)) : Len(Pieces(t, P)[k]) <= Len(t)
             S == {t \in Seq(Nat) : Short(t)}
  <1>1. << >> \in S
    <2>1. << >> \in Seq(Nat) /\ Pieces(<< >>, P) = << << >> >>
      BY PiecesEmpty
    <2>2. \A k \in 1 .. Len(<< << >> >>) : Len(<< << >> >>[k]) <= Len(<< >>)
      OBVIOUS
    <2> QED
      BY <2>1, <2>2
  <1>2. ASSUME NEW t \in Seq(Nat), NEW x \in Nat, t \in S PROVE Append(t, x) \in S
    <2> DEFINE p == Pieces(t, P)
               n == Len(t)
               u == Append(t, x)
               q == Pieces(u, P)
               m == Len(p)
    <2>1. u \in Seq(Nat) /\ Len(u) = n + 1 /\ n \in Nat
      BY AppendProperties, LenProperties
    <2>2. p \in Lists /\ q = Cutting(p, x, n + 1, P)
      BY PiecesAppend
    <2>3. Short(t)
      BY <1>2
    <2>4. \A k \in 1 .. m : Len(p[k]) <= n
      BY <2>3
    <2> HIDE DEF p, q, u, n
    <2>5. /\ m \in Nat \ {0} /\ Last(p) \in Seq(Nat) /\ p \in Seq(Seq(Nat)) /\ Last(p) = p[m]
          /\ Front(p) \in Seq(Seq(Nat)) /\ Len(Front(p)) = m - 1
          /\ \A i \in 1 .. m - 1 : Front(p)[i] = p[i]
      BY <2>2, LastPiece DEF Last, Lists
    <2>e. << >> \in Seq(Nat) /\ Len(<< >>) = 0
      BY EmptySeq
    <2> HIDE DEF m
    <2>d. \A k \in 1 .. m : Len(p[k]) \in Nat
      <3> SUFFICES ASSUME NEW k \in 1 .. m PROVE Len(p[k]) \in Nat
        OBVIOUS
      <3>1. p[k] \in Seq(Nat)
        BY <2>5, ElementOfSeq DEF m
      <3> QED
        BY <3>1, LenProperties
    <2>6. CASE n + 1 \in P
      <3>1. q = Append(p, << >>)
        BY <2>2, <2>6 DEF Cutting
      <3>2. Len(q) = m + 1 /\ q[m + 1] = << >> /\ \A i \in 1 .. m : q[i] = p[i]
        BY <2>5, <2>e, <3>1, AppendProperties DEF m
      <3>3. ASSUME NEW k \in 1 .. m + 1 PROVE Len(q[k]) <= n + 1
        <4>1. CASE k = m + 1
          BY <2>1, <2>e, <3>2, <4>1
        <4>2. CASE k # m + 1
          <5>1. k \in 1 .. m
            BY <2>5, <4>2
          <5>2. q[k] = p[k] /\ Len(p[k]) <= n /\ Len(p[k]) \in Nat
            BY <2>4, <2>d, <3>2, <5>1 DEF m
          <5> QED
            BY <2>1, <5>2
        <4> QED
          BY <4>1, <4>2
      <3> QED
        BY <2>1, <3>2, <3>3 DEF q, u
    <2>7. CASE n + 1 \notin P
      <3> DEFINE l == Append(Last(p), x)
      <3>1. q = Append(Front(p), l)
        BY <2>2, <2>7 DEF Cutting
      <3>2. l \in Seq(Nat) /\ Len(l) = Len(p[m]) + 1
        BY <2>5, AppendProperties
      <3> HIDE DEF l
      <3>3. Len(q) = m /\ q[m] = l /\ \A i \in 1 .. m - 1 : q[i] = p[i]
        <4>1. Len(q) = Len(Front(p)) + 1 /\ q[Len(Front(p)) + 1] = l
              /\ \A i \in 1 .. Len(Front(p)) : q[i] = Front(p)[i]
          BY <2>5, <3>1, <3>2, AppendProperties
        <4>2. Len(Front(p)) + 1 = m /\ Len(Front(p)) = m - 1
          BY <2>5
        <4> QED
          BY <2>5, <4>1, <4>2
      <3>4. ASSUME NEW k \in 1 .. m PROVE Len(q[k]) <= n + 1
        <4>0. Len(p[k]) <= n /\ Len(p[k]) \in Nat
          BY <2>4, <2>d DEF m
        <4>1. CASE k = m
          BY <2>1, <3>2, <3>3, <4>0, <4>1
        <4>2. CASE k # m
          <5>1. k \in 1 .. m - 1
            BY <2>5, <4>2
          <5> QED
            BY <2>1, <3>3, <4>0, <5>1
        <4> QED
          BY <4>1, <4>2
      <3> QED
        BY <2>1, <3>3, <3>4 DEF q, u
    <2> QED
      BY <2>6, <2>7
  <1>3. Seq(Nat) \subseteq S
    <2> HIDE DEF S
    <2> QED
      BY <1>1, <1>2, ByAppending
  <1>4. Short(s)
    BY <1>3
  <1>5. DOMAIN Pieces(s, P) = 1 .. Len(Pieces(s, P))
    <2>1. Pieces(s, P) \in Seq(Seq(Nat))
      <3>1. 0 \in Nat
        OBVIOUS
      <3> QED
        BY <3>1, PiecesAppend DEF Lists
    <2> QED
      BY <2>1, LenProperties
  <1> QED
    BY <1>4, <1>5

\* Only the places within the text matter.
LEMMA PiecesAgree ==
  ASSUME NEW s \in Seq(Nat), NEW P, NEW Q, \A k \in 1 .. Len(s) : k \in P <=> k \in Q
  PROVE  Pieces(s, P) = Pieces(s, Q)
  <1> DEFINE Agree(n) == \A k \in 1 .. n : k \in P <=> k \in Q
             S == {t \in Seq(Nat) : Agree(Len(t)) => Pieces(t, P) = Pieces(t, Q)}
  <1>1. << >> \in S
    <2>1. << >> \in Seq(Nat)
      BY EmptySeq
    <2> QED
      BY <2>1, PiecesEmpty
  <1>2. ASSUME NEW t \in Seq(Nat), NEW x \in Nat, t \in S PROVE Append(t, x) \in S
    <2> DEFINE u == Append(t, x)
               n == Len(t)
    <2>1. u \in Seq(Nat) /\ Len(u) = n + 1 /\ n \in Nat
      BY AppendProperties, LenProperties
    <2>2. ASSUME Agree(n + 1) PROVE Pieces(u, P) = Pieces(u, Q)
      <3>1. n + 1 \in 1 .. n + 1 /\ \A k \in 1 .. n : k \in 1 .. n + 1
        BY <2>1
      <3>2. Agree(n) /\ (n + 1 \in P <=> n + 1 \in Q)
        BY <2>2, <3>1
      <3>3. Pieces(t, P) = Pieces(t, Q)
        BY <1>2, <3>2
      <3>4. Pieces(u, P) = Cutting(Pieces(t, P), x, n + 1, P) /\ Pieces(u, Q) = Cutting(Pieces(t, Q), x, n + 1, Q)
        BY PiecesAppend
      <3> QED
        BY <3>2, <3>3, <3>4 DEF Cutting
    <2> HIDE DEF u, n, Agree
    <2> QED
      BY <2>1, <2>2 DEF u
  <1>3. Seq(Nat) \subseteq S
    <2> HIDE DEF S
    <2> QED
      BY <1>1, <1>2, ByAppending
  <1> QED
    BY <1>3

\* A text that is not cut.
LEMMA PiecesUncut ==
  ASSUME NEW s \in Seq(Nat), NEW P, \A k \in 1 .. Len(s) : k \notin P
  PROVE  Pieces(s, P) = << s >>
  <1> DEFINE Whole(n) == \A k \in 1 .. n : k \notin P
             S == {t \in Seq(Nat) : Whole(Len(t)) => Pieces(t, P) = << t >>}
  <1>1. << >> \in S
    <2>1. << >> \in Seq(Nat)
      BY EmptySeq
    <2> QED
      BY <2>1, PiecesEmpty
  <1>2. ASSUME NEW t \in Seq(Nat), NEW x \in Nat, t \in S PROVE Append(t, x) \in S
    <2> DEFINE u == Append(t, x)
               n == Len(t)
    <2>1. u \in Seq(Nat) /\ Len(u) = n + 1 /\ n \in Nat
      BY AppendProperties, LenProperties
    <2>2. ASSUME Whole(n + 1) PROVE Pieces(u, P) = << u >>
      <3>1. n + 1 \in 1 .. n + 1 /\ \A k \in 1 .. n : k \in 1 .. n + 1
        BY <2>1
      <3>2. Whole(n) /\ n + 1 \notin P
        BY <2>2, <3>1
      <3>3. Pieces(t, P) = << t >>
        BY <1>2, <3>2
      <3>4. Pieces(u, P) = Cutting(Pieces(t, P), x, n + 1, P)
        BY PiecesAppend
      <3>5. Front(<< t >>) = << >> /\ Last(<< t >>) = t
        <4>1. Len(<< t >>) = 1 /\ << t >>[1] = t
          OBVIOUS
        <4>2. SubSeq(<< t >>, 1, 0) = << >>
          BY SubSeqEmpty
        <4> QED
          BY <4>1, <4>2 DEF Front, Last
      <3>6. Append(<< >>, u) = << u >>
        OBVIOUS
      <3> HIDE DEF u
      <3>7. Cutting(<< t >>, x, n + 1, P) = Append(<< >>, Append(t, x))
        BY <3>2, <3>5 DEF Cutting
      <3> QED
        BY <3>3, <3>4, <3>6, <3>7 DEF u
    <2> HIDE DEF u, n, Whole
    <2> QED
      BY <2>1, <2>2 DEF u
  <1>3. Seq(Nat) \subseteq S
    <2> HIDE DEF S
    <2> QED
      BY <1>1, <1>2, ByAppending
  <1> QED
    BY <1>3

\* A text with one place behind another one: one piece more.
LEMMA PiecesCut ==
  ASSUME NEW a \in Seq(Nat), NEW c \in Nat, NEW b \in Seq(Nat), NEW P, Len(a) + 1 \in P,
         \A k \in 1 .. Len(b) : Len(a) + 1 + k \notin P
  PROVE  Pieces(Append(a, c) \o b, P) = Append(Pieces(a, P), b)
  <1> DEFINE m == Len(a)
             w == Append(a, c)
             Q(n) == \A k \in 1 .. n : m + 1 + k \notin P
             S == {t \in Seq(Nat) : Q(Len(t)) => Pieces(w \o t, P) = Append(Pieces(a, P), t)}
  <1>0. m \in Nat /\ w \in Seq(Nat) /\ Len(w) = m + 1
    BY AppendProperties, LenProperties
  <1>a. Pieces(a, P) \in Lists
    BY PiecesAppend
  <1>1. << >> \in S
    <2>1. << >> \in Seq(Nat) /\ w \o << >> = w
      BY <1>0, EmptySeq, ConcatEmptySeq
    <2>2. Pieces(w, P) = Cutting(Pieces(a, P), c, m + 1, P)
      BY PiecesAppend
    <2>3. Pieces(w, P) = Append(Pieces(a, P), << >>)
      BY <2>2 DEF Cutting
    <2> HIDE DEF w
    <2> QED
      BY <2>1, <2>3
  <1>2. ASSUME NEW t \in Seq(Nat), NEW x \in Nat, t \in S PROVE Append(t, x) \in S
    <2> DEFINE u == Append(t, x)
               n == Len(t)
               v == w \o t
    <2>1. u \in Seq(Nat) /\ Len(u) = n + 1 /\ n \in Nat
      BY AppendProperties, LenProperties
    <2> HIDE DEF w
    <2>2. v \in Seq(Nat) /\ Len(v) = (m + 1) + n
      BY <1>0, ConcatProperties
    <2>3. w \o u = Append(v, x)
      <3>1. w \in Seq(Nat) /\ t \in Seq(Nat) /\ x \in Nat
        BY <1>0
      <3>2. w \o Append(t, x) = Append(w \o t, x)
        BY ONLY <3>1, ConcatAppend
      <3> QED
        BY <3>2
    <2> HIDE DEF v
    <2>4. ASSUME Q(n + 1) PROVE Pieces(w \o u, P) = Append(Pieces(a, P), u)
      <3>1. n + 1 \in 1 .. n + 1 /\ (\A k \in 1 .. n : k \in 1 .. n + 1) /\ Len(v) + 1 = m + 1 + (n + 1)
        BY <1>0, <2>1, <2>2
      <3>2. Q(n) /\ Len(v) + 1 \notin P
        BY <2>4, <3>1
      <3>3. Pieces(v, P) = Append(Pieces(a, P), t)
        BY <1>2, <3>2 DEF v
      <3>4. Pieces(Append(v, x), P) = Cutting(Pieces(v, P), x, Len(v) + 1, P)
        BY <2>2, PiecesAppend
      <3> DEFINE p == Pieces(a, P)
                 q == Append(p, t)
      <3>5. p \in Seq(Seq(Nat))
        BY <1>a DEF Lists
      <3> HIDE DEF p
      <3>6. Front(q) = p /\ Last(q) = t
        <4> DEFINE l == Len(p)
        <4>1. l \in Nat /\ q \in Seq(Seq(Nat)) /\ Len(q) = l + 1 /\ q[l + 1] = t /\ \A i \in 1 .. l : q[i] = p[i]
          BY <3>5, AppendProperties, LenProperties
        <4> HIDE DEF q
        <4>2. Last(q) = t
          BY <4>1 DEF Last
        <4>3. q \in Lists
          <5>1. q # << >>
            BY <4>1, EmptySeq
          <5> QED
            BY <4>1, <5>1 DEF Lists
        <4>4. /\ Front(q) \in Seq(Seq(Nat)) /\ Len(Front(q)) = Len(q) - 1
              /\ \A i \in 1 .. Len(q) - 1 : Front(q)[i] = q[i]
          BY <4>3, LastPiece
        <4>5. Len(q) - 1 = l
          BY <4>1
        <4>6. Front(q) = p
          <5> DEFINE f == Front(q)
          <5>1. f \in Seq(Seq(Nat)) /\ Len(f) = l /\ \A i \in 1 .. l : f[i] = p[i]
            BY <4>1, <4>4, <4>5
          <5> HIDE DEF f
          <5>2. f = p
            BY <3>5, <5>1, SeqEqual
          <5> QED
            BY <5>2 DEF f
        <4> QED
          BY <4>2, <4>6
      <3> HIDE DEF q
      <3>7. Cutting(q, x, Len(v) + 1, P) = Append(p, u)
        BY <3>2, <3>6 DEF Cutting
      <3> QED
        BY <2>3, <3>3, <3>4, <3>7 DEF p, q
    <2> HIDE DEF u, n, Q, m
    <2> QED
      BY <2>1, <2>4 DEF u
  <1>3. Seq(Nat) \subseteq S
    <2> HIDE DEF S
    <2> QED
      BY <1>1, <1>2, ByAppending
  <1> QED
    BY <1>3

-----------------------------------------------------------------------------
(* Stripping white space. *)

\* The least and the greatest of some numbers.
LEMMA Ends ==
  ASSUME NEW n \in Nat, NEW S, S \subseteq 1 .. n, S # {}
  PROVE  Min(S) \in S /\ Max(S) \in S /\ Min(S) <= Max(S)
  <1>1. \E x \in S : \A y \in S : x <= y
    <2>1. S \subseteq Nat
      OBVIOUS
    <2> QED
      BY <2>1, LeastNatural
  <1>2. \E x \in S : \A y \in S : x >= y
    <2> DEFINE T == {n - y : y \in S}
    <2>a. PICK x0 : x0 \in S
      OBVIOUS
    <2>b. n - x0 \in T /\ \A y \in S : n - y \in Nat
      BY <2>a
    <2>1. T \subseteq Nat /\ T # {}
      BY <2>b
    <2> HIDE DEF T
    <2>2. PICK z \in T : \A k \in T : z <= k
      BY <2>1, LeastNatural
    <2>3. PICK x \in S : z = n - x
      BY <2>2 DEF T
    <2>4. ASSUME NEW y \in S PROVE x >= y
      <3>1. n - y \in T /\ x \in Nat /\ y \in Nat
        BY DEF T
      <3>2. n - x <= n - y
        BY <2>2, <2>3, <3>1
      <3> QED
        BY <3>1, <3>2
    <2> QED
      BY <2>4
  <1>3. Min(S) \in S /\ \A y \in S : Min(S) <= y
    BY <1>1 DEF Min
  <1>4. Max(S) \in S
    BY <1>2 DEF Max
  <1> QED
    BY <1>3, <1>4

\* A part of a text is no longer than the text.
LEMMA PartOfText ==
  ASSUME NEW s \in Seq(Nat), NEW i \in Nat \ {0}, NEW j \in 0 .. Len(s)
  PROVE  /\ SubSeq(s, i, j) \in Seq(Nat) /\ Len(SubSeq(s, i, j)) = (IF i <= j THEN j - i + 1 ELSE 0)
         /\ Len(SubSeq(s, i, j)) <= j
         /\ \A k \in 1 .. j - i + 1 : SubSeq(s, i, j)[k] = s[i + k - 1]
  <1> DEFINE u == SubSeq(s, i, j)
             n == Len(s)
  <1>1. n \in Nat /\ \A k \in 1 .. n : s[k] \in Nat
    BY LenProperties, ElementOfSeq
  <1>2. j \in 0 .. n
    OBVIOUS
  <1> HIDE DEF n
  <1>3. i \in Int /\ j \in Int /\ j \in Nat /\ \A k \in i .. j : s[k] \in Nat
    BY <1>1, <1>2
  <1>4. u \in Seq(Nat) /\ Len(u) = (IF i <= j THEN j - i + 1 ELSE 0) /\ \A k \in 1 .. j - i + 1 : u[k] = s[i + k - 1]
    BY <1>3, SubSeqProperties
  <1> HIDE DEF u
  <1>5. Len(u) <= j
    BY <1>3, <1>4
  <1> QED
    BY <1>4, <1>5 DEF u

\* Stripping adds nothing.
LEMMA StripShorter ==
  ASSUME NEW s \in Seq(Nat)
  PROVE  Strip(s) \in Seq(Nat) /\ Len(Strip(s)) <= Len(s)
  <1> DEFINE dark == {i \in DOMAIN s : s[i] # Space}
             n == Len(s)
  <1>1. n \in Nat /\ DOMAIN s = 1 .. n
    BY LenProperties
  <1>2. CASE dark = {}
    <2>1. Strip(s) = << >>
      BY <1>2 DEF Strip
    <2> QED
      BY <1>1, <2>1, EmptySeq
  <1>3. CASE dark # {}
    <2>1. Strip(s) = SubSeq(s, Min(dark), Max(dark))
      BY <1>3 DEF Strip
    <2> HIDE DEF n
    <2>2. dark \subseteq 1 .. n
      BY <1>1
    <2> HIDE DEF dark
    <2>3. Min(dark) \in dark /\ Max(dark) \in dark
      BY <1>1, <1>3, <2>2, Ends
    <2>a. Min(dark) \in 1 .. n /\ Max(dark) \in 1 .. n
      BY <2>2, <2>3
    <2>4. Min(dark) \in Nat \ {0} /\ Max(dark) \in 0 .. n
      BY <1>1, <2>a
    <2>5. SubSeq(s, Min(dark), Max(dark)) \in Seq(Nat) /\ Len(SubSeq(s, Min(dark), Max(dark))) <= Max(dark)
      BY <2>4, PartOfText DEF n
    <2>6. Len(SubSeq(s, Min(dark), Max(dark))) \in Nat
      BY <2>5, LenProperties
    <2> QED
      BY <1>1, <2>1, <2>4, <2>5, <2>6 DEF n
  <1> QED
    BY <1>2, <1>3

\* White space around a text that neither begins nor ends with any.
LEMMA StripPadded ==
  ASSUME NEW w \in Seq(Nat), w # << >>, w[1] # Space, Last(w) # Space, NEW pad \in Seq({Space})
  PROVE  (pad \o w) \o pad \in Seq(Nat) /\ Strip((pad \o w) \o pad) = w
  <1> DEFINE u == pad \o w
             s == u \o pad
             p == Len(pad)
             n == Len(w)
             dark == {i \in DOMAIN s : s[i] # Space}
  <1>1. pad \in Seq(Nat) /\ p \in Nat /\ \A i \in 1 .. p : pad[i] = Space
    <2>1. {Space} \subseteq Nat
      BY MarksDiffer
    <2>2. pad \in Seq(Nat)
      BY <2>1, SeqMonotonic
    <2> QED
      BY <2>2, LenProperties, ElementOfSeq
  <1>2. n \in Nat \ {0} /\ w[n] # Space
    BY EmptySeq DEF Last
  <1>3. u \in Seq(Nat) /\ Len(u) = p + n /\ \A i \in 1 .. p + n : u[i] = IF i <= p THEN pad[i] ELSE w[i - p]
    BY <1>1, ConcatProperties
  <1> HIDE DEF u
  <1>4. /\ s \in Seq(Nat) /\ Len(s) = Len(u) + p
        /\ \A i \in 1 .. Len(u) + p : s[i] = IF i <= Len(u) THEN u[i] ELSE pad[i - Len(u)]
    BY <1>1, <1>3, ConcatProperties
  <1> HIDE DEF p, n, s
  <1>5. DOMAIN s = 1 .. (p + n) + p /\ Len(s) = (p + n) + p
    BY <1>3, <1>4, LenProperties
  <1>6. \A i \in 1 .. n : p + i \in 1 .. (p + n) + p /\ s[p + i] = w[i]
    <2> SUFFICES ASSUME NEW i \in 1 .. n PROVE p + i \in 1 .. (p + n) + p /\ s[p + i] = w[i]
      OBVIOUS
    <2>1. p + i \in 1 .. (p + n) + p /\ p + i \in 1 .. p + n /\ p + i <= p + n /\ ~(p + i <= p) /\ (p + i) - p = i
      BY <1>1, <1>2
    <2>2. s[p + i] = u[p + i]
      BY <1>3, <1>4, <2>1
    <2>3. u[p + i] = w[i]
      BY <1>3, <2>1
    <2> QED
      BY <2>1, <2>2, <2>3
  <1>7. p + 1 \in dark /\ p + n \in dark
    <2>1. 1 \in 1 .. n /\ n \in 1 .. n
      BY <1>2
    <2> QED
      BY <1>2, <1>5, <1>6, <2>1
  <1>8. \A i \in dark : i \in (p + 1) .. (p + n)
    <2> SUFFICES ASSUME NEW i \in 1 .. (p + n) + p, s[i] # Space PROVE i \in (p + 1) .. (p + n)
      BY <1>5
    <2>1. ~(i <= p)
      <3> SUFFICES ASSUME i <= p PROVE FALSE
        OBVIOUS
      <3>1. i \in 1 .. p /\ i <= p + n /\ i \in 1 .. p + n
        BY <1>1, <1>2
      <3>2. s[i] = u[i] /\ u[i] = pad[i]
        BY <1>3, <1>4, <3>1
      <3> QED
        BY <1>1, <3>1, <3>2
    <2>2. i <= p + n
      <3> SUFFICES ASSUME ~(i <= p + n) PROVE FALSE
        OBVIOUS
      <3>1. i - (p + n) \in 1 .. p
        BY <1>1, <1>2
      <3>2. s[i] = pad[i - (p + n)]
        BY <1>3, <1>4
      <3> QED
        BY <1>1, <3>1, <3>2
    <2> QED
      BY <1>1, <1>2, <2>1, <2>2
  <1>a. Strip(s) = SubSeq(s, Min(dark), Max(dark))
    BY <1>7 DEF Strip
  <1>b. dark \subseteq 1 .. (p + n) + p
    BY <1>5
  <1> HIDE DEF dark
  <1>9. Min(dark) = p + 1 /\ Max(dark) = p + n
    <2>1. \E x \in dark : \A y \in dark : x <= y
      BY <1>1, <1>2, <1>7, <1>8
    <2>2. \E x \in dark : \A y \in dark : x >= y
      BY <1>1, <1>2, <1>7, <1>8
    <2>3. Min(dark) \in dark /\ \A y \in dark : Min(dark) <= y
      BY <2>1 DEF Min
    <2>4. Max(dark) \in dark /\ \A y \in dark : Max(dark) >= y
      BY <2>2 DEF Max
    <2>5. Min(dark) \in (p + 1) .. (p + n) /\ Max(dark) \in (p + 1) .. (p + n)
      BY <1>8, <2>3, <2>4
    <2>6. Min(dark) <= p + 1 /\ Max(dark) >= p + n
      BY <1>7, <2>3, <2>4
    <2> QED
      BY <1>1, <1>2, <2>5, <2>6
  <1>10. SubSeq(s, p + 1, p + n) = w
    <2> DEFINE v == SubSeq(s, p + 1, p + n)
               i == p + 1
               j == p + n
    <2>0. i \in Nat \ {0} /\ j \in 0 .. Len(s) /\ j - i + 1 = n /\ i <= j
      BY <1>1, <1>2, <1>5
    <2> HIDE DEF i, j
    <2>1. /\ SubSeq(s, i, j) \in Seq(Nat) /\ Len(SubSeq(s, i, j)) = (IF i <= j THEN j - i + 1 ELSE 0)
          /\ \A k \in 1 .. j - i + 1 : SubSeq(s, i, j)[k] = s[i + k - 1]
      BY <1>4, <2>0, PartOfText
    <2>2. v \in Seq(Nat) /\ Len(v) = n /\ \A k \in 1 .. n : v[k] = s[i + k - 1]
      BY <2>0, <2>1 DEF i, j
    <2> HIDE DEF v
    <2>3. ASSUME NEW k \in 1 .. n PROVE v[k] = w[k]
      <3>1. i + k - 1 = p + k
        BY <1>1 DEF i
      <3> QED
        BY <1>6, <2>2, <3>1
    <2>4. v = w
      BY <2>2, <2>3, SeqEqual DEF n
    <2> QED
      BY <2>4 DEF v
  <1> QED
    BY <1>4, <1>9, <1>10, <1>a DEF s, u

-----------------------------------------------------------------------------
(* The types inside a type are shorter texts. *)

\* Stripping the pieces of a text.
LEMMA StripAllFacts ==
  ASSUME NEW p \in Lists
  PROVE  /\ StripAll(p) \in Lists /\ Len(StripAll(p)) = Len(p)
         /\ \A k \in 1 .. Len(p) : StripAll(p)[k] = Strip(p[k]) /\ Len(StripAll(p)[k]) <= Len(p[k])
  <1> DEFINE n == Len(p)
             q == StripAll(p)
  <1>1. p \in Seq(Seq(Nat)) /\ n \in Nat \ {0} /\ DOMAIN p = 1 .. n
    BY EmptySeq, LenProperties DEF Lists
  <1>2. \A k \in 1 .. n : p[k] \in Seq(Nat)
    BY <1>1, ElementOfSeq
  <1>3. \A k \in 1 .. n : Strip(p[k]) \in Seq(Nat) /\ Len(Strip(p[k])) <= Len(p[k])
    BY <1>2, StripShorter
  <1>4. q = [k \in 1 .. n |-> Strip(p[k])]
    BY <1>1 DEF StripAll
  <1> HIDE DEF q, n
  <1>5. q \in [1 .. n -> Seq(Nat)] /\ \A k \in 1 .. n : q[k] = Strip(p[k])
    BY <1>3, <1>4
  <1>6. q \in Seq(Seq(Nat)) /\ Len(q) = n
    <2> HIDE <1>4
    <2> QED
      BY <1>1, <1>5 DEF Seq
  <1>7. q # << >>
    BY <1>1, <1>6, EmptySeq
  <1> QED
    BY <1>3, <1>5, <1>6, <1>7 DEF n, q, Lists

\* The parameters of a type are no longer than the text they are in.
LEMMA SplitShorter ==
  ASSUME NEW s \in Seq(Nat)
  PROVE  /\ SplitTypeParams(s) \in Seq(Seq(Nat))
         /\ \A k \in 1 .. Len(SplitTypeParams(s)) : Len(SplitTypeParams(s)[k]) <= Len(s)
  <1> DEFINE P == {i \in DOMAIN s : s[i] = Comma /\ Depth(s, i) = 0}
             p == Pieces(s, P)
             q == StripAll(p)
             r == SplitTypeParams(s)
             n == Len(p)
  <1>1. p \in Lists
    <2>1. 0 \in Nat
      OBVIOUS
    <2> HIDE DEF P
    <2> QED
      BY <2>1, PiecesAppend
  <1>2. \A k \in DOMAIN p : Len(p[k]) <= Len(s)
    <2> HIDE DEF P
    <2> QED
      BY PiecesShorter
  <1>3. r = IF Last(q) = << >> THEN Front(q) ELSE q
    BY DEF SplitTypeParams
  <1> HIDE DEF p, P, r
  <1>4. /\ q \in Lists /\ Len(q) = n /\ \A k \in 1 .. n : Len(q[k]) <= Len(p[k])
    BY <1>1, StripAllFacts
  <1>5. p \in Seq(Seq(Nat)) /\ DOMAIN p = 1 .. n /\ q \in Seq(Seq(Nat)) /\ n \in Nat
    BY <1>1, <1>4, LenProperties DEF Lists
  <1> HIDE DEF q, n
  <1>6. \A k \in 1 .. n : Len(q[k]) \in Nat /\ Len(p[k]) \in Nat
    <2> SUFFICES ASSUME NEW k \in 1 .. n PROVE Len(q[k]) \in Nat /\ Len(p[k]) \in Nat
      OBVIOUS
    <2>1. q[k] \in Seq(Nat) /\ p[k] \in Seq(Nat)
      BY <1>4, <1>5, ElementOfSeq DEF n
    <2> QED
      BY <2>1, LenProperties
  <1>7. Len(s) \in Nat
    BY LenProperties
  <1>8. \A k \in 1 .. n : Len(q[k]) <= Len(s)
    <2> SUFFICES ASSUME NEW k \in 1 .. n PROVE Len(q[k]) <= Len(s)
      OBVIOUS
    <2>1. Len(q[k]) <= Len(p[k]) /\ Len(p[k]) <= Len(s)
      BY <1>2, <1>4, <1>5
    <2>2. Len(q[k]) \in Nat /\ Len(p[k]) \in Nat
      BY <1>6
    <2> QED
      BY <1>7, <2>1, <2>2
  <1>9. CASE Last(q) = << >>
    <2>1. r = Front(q)
      BY <1>3, <1>9
    <2>2. Front(q) \in Seq(Seq(Nat)) /\ Len(Front(q)) = n - 1 /\ \A i \in 1 .. n - 1 : Front(q)[i] = q[i]
      BY <1>4, LastPiece
    <2>3. \A k \in 1 .. n - 1 : k \in 1 .. n
      BY <1>5
    <2> QED
      BY <1>8, <2>1, <2>2, <2>3 DEF r
  <1>10. CASE Last(q) # << >>
    BY <1>3, <1>4, <1>5, <1>8, <1>10 DEF r
  <1> QED
    BY <1>9, <1>10

\* Without its last character a text is no longer.
LEMMA WithoutLastShorter ==
  ASSUME NEW s \in Seq(Nat)
  PROVE  /\ WithoutLast(s) \in Seq(Nat) /\ Len(WithoutLast(s)) <= Len(s)
         /\ s = << >> => WithoutLast(s) = << >>
  <1>0. Letter \in Nat
    BY MarksDiffer
  <1>1. CASE s = << >>
    <2>1. Len(s) = 0
      BY <1>1
    <2>2. WithoutLast(s) = SubSeq(s, 1, Len(s) - 1)
      BY <1>1 DEF WithoutLast
    <2>3. SubSeq(s, 1, Len(s) - 1) = << >>
      BY <2>1, SubSeqEmpty
    <2> QED
      BY <1>1, <2>2, <2>3
  <1>2. CASE s # << >>
    <2> DEFINE n == Len(s)
               f == SubSeq(s, 1, n - 1)
    <2>1. n \in Nat \ {0} /\ n - 1 \in 0 .. n
      BY <1>2, EmptySeq
    <2>2. f \in Seq(Nat) /\ Len(f) <= n - 1 /\ Len(f) \in Nat
      <3>1. 1 \in Nat \ {0}
        OBVIOUS
      <3>2. f \in Seq(Nat) /\ Len(f) <= n - 1
        BY <2>1, <3>1, PartOfText
      <3> QED
        BY <3>2, LenProperties
    <2>3. WithoutLast(s) = Append(f, Letter) \/ WithoutLast(s) = f
      BY <1>2 DEF WithoutLast, Front
    <2> HIDE DEF f, n
    <2>4. Append(f, Letter) \in Seq(Nat) /\ Len(Append(f, Letter)) = Len(f) + 1
      BY <1>0, <2>2, AppendProperties
    <2> DEFINE w == WithoutLast(s)
               g == Append(f, Letter)
    <2>a. w = g \/ w = f
      BY <2>3
    <2>b. g \in Seq(Nat) /\ Len(g) = Len(f) + 1
      BY <2>4
    <2> HIDE DEF w, g
    <2>c. Len(g) <= n /\ Len(f) <= n
      BY <2>1, <2>2, <2>b
    <2>5. w \in Seq(Nat) /\ Len(w) <= n
      BY <2>2, <2>a, <2>b, <2>c
    <2> QED
      BY <1>2, <2>5 DEF n, w
  <1> QED
    BY <1>1, <1>2

\* The first bracket is in the text or right behind it.
LEMMA OpenFacts ==
  ASSUME NEW s \in Seq(Nat)
  PROVE  Open(s) \in 1 .. Len(s) + 1
  <1> DEFINE n == Len(s)
             S == {i \in DOMAIN s : s[i] = Less /\ Depth(s, i) = 0} \union {n + 1}
  <1>1. n \in Nat /\ DOMAIN s = 1 .. n
    BY LenProperties
  <1>2. Open(s) = Min(S)
    BY DEF Open
  <1> HIDE DEF n
  <1>3. S \subseteq 1 .. n + 1 /\ S # {} /\ n + 1 \in Nat
    BY <1>1
  <1> HIDE DEF S
  <1>4. Min(S) \in S
    BY <1>3, Ends
  <1> QED
    BY <1>2, <1>3, <1>4 DEF n

\* The parameters of a struct are shorter than its text.
LEMMA StructParamsShorter ==
  ASSUME NEW s \in Seq(Nat)
  PROVE  /\ StructParams(s) \in Seq(Seq(Nat))
         /\ \A k \in 1 .. Len(StructParams(s)) : Len(StructParams(s)[k]) < Len(s)
  <1> DEFINE n == Len(s)
             o == Open(s)
             u == SubSeq(s, o + 1, n)
             i == WithoutLast(u)
             r == StructParams(s)
  <1>1. n \in Nat /\ o \in 1 .. n + 1
    BY LenProperties, OpenFacts
  <1>2. u \in Seq(Nat) /\ Len(u) = (IF o + 1 <= n THEN n - (o + 1) + 1 ELSE 0)
    <2> HIDE DEF o
    <2>1. o + 1 \in Nat \ {0} /\ n \in 0 .. Len(s)
      BY <1>1
    <2> QED
      BY <2>1, PartOfText
  <1>3. r = IF i = << >> THEN << >> ELSE SplitTypeParams(i)
    BY DEF StructParams
  <1> HIDE DEF u, r, o, n
  <1>4. i \in Seq(Nat) /\ Len(i) <= Len(u) /\ Len(i) \in Nat /\ Len(u) \in Nat
    <2>1. i \in Seq(Nat) /\ Len(i) <= Len(u)
      BY <1>2, WithoutLastShorter
    <2> QED
      BY <1>2, <2>1, LenProperties
  <1> HIDE DEF i
  <1>5. CASE i = << >>
    <2>1. r = << >>
      BY <1>3, <1>5
    <2>2. r \in Seq(Seq(Nat)) /\ Len(r) = 0
      BY <2>1, EmptySeq
    <2> QED
      BY <2>2 DEF r
  <1>6. CASE i # << >>
    <2>1. r = SplitTypeParams(i)
      BY <1>3, <1>6
    <2>2. r \in Seq(Seq(Nat)) /\ \A k \in 1 .. Len(r) : Len(r[k]) <= Len(i)
      BY <1>4, <2>1, SplitShorter
    <2>3. Len(i) \in Nat \ {0}
      BY <1>4, <1>6, EmptySeq
    <2>4. Len(u) < n
      BY <1>1, <1>2, <1>4, <2>3
    <2>5. ASSUME NEW k \in 1 .. Len(r) PROVE Len(r[k]) < n
      <3>1. r[k] \in Seq(Nat)
        BY <2>2, ElementOfSeq
      <3>2. Len(r[k]) \in Nat
        BY <3>1, LenProperties
      <3> QED
        BY <1>1, <1>4, <2>2, <2>4, <3>2
    <2> QED
      BY <2>2, <2>5 DEF r, n
  <1> QED
    BY <1>5, <1>6

\* A type is one of the four kinds.
LEMMA TagKindFacts ==
  ASSUME NEW s
  PROVE  /\ TagKind(s) \in {"bool", "u8", "vector", "struct"}
         /\ TagKind(s) = "vector" => Len(s) > 2 /\ s[1] = Vector /\ s[2] = Less /\ Last(s) = Greater
  BY DEF TagKind

\* So are the types inside any type.
LEMMA InnerShorter ==
  ASSUME NEW s \in Seq(Nat)
  PROVE  /\ Inner(s) \in Seq(Seq(Nat))
         /\ \A k \in 1 .. Len(Inner(s)) : Len(Inner(s)[k]) < Len(s)
  <1>0. TagKind(s) \in {"bool", "u8", "vector", "struct"}
    BY TagKindFacts
  <1>1. CASE TagKind(s) = "vector"
    <2> DEFINE u == SubSeq(s, 3, Len(s) - 1)
    <2>1. Len(s) \in Nat /\ Len(s) > 2
      BY <1>1, TagKindFacts, LenProperties
    <2>2. Inner(s) = << u >>
      BY <1>1 DEF Inner
    <2>3. u \in Seq(Nat) /\ Len(u) <= Len(s) - 1 /\ Len(u) \in Nat
      <3>1. 3 \in Nat \ {0} /\ Len(s) - 1 \in 0 .. Len(s)
        BY <2>1
      <3>2. u \in Seq(Nat) /\ Len(u) <= Len(s) - 1
        BY <3>1, PartOfText
      <3> QED
        BY <3>2, LenProperties
    <2> HIDE DEF u
    <2>4. Len(<< u >>) = 1 /\ << u >>[1] = u /\ << u >> \in Seq(Seq(Nat)) /\ \A k \in 1 .. 1 : k = 1
      BY <2>3
    <2>5. Len(u) < Len(s)
      BY <2>1, <2>3
    <2> QED
      BY <2>2, <2>4, <2>5
  <1>2. CASE TagKind(s) = "struct" /\ Len(StructName(s)) = 3
    <2>1. Inner(s) = StructParams(s)
      BY <1>2 DEF Inner
    <2> QED
      BY <2>1, StructParamsShorter
  <1>3. CASE ~(TagKind(s) = "vector") /\ ~(TagKind(s) = "struct" /\ Len(StructName(s)) = 3)
    <2>1. Inner(s) = << >>
      BY <1>0, <1>3 DEF Inner
    <2> QED
      BY <2>1, EmptySeq
  <1> QED
    BY <1>1, <1>2, <1>3

-----------------------------------------------------------------------------
(* The fields of a type tag: its own, then those of the types inside it.   *)

\* The fields of a type, without those of the types inside it.
OwnFields(s) ==
  << Variant(TypeTagKind[TagKind(s)]) >> \o (IF TagKind(s) = "struct" THEN StructTag(s) ELSE << >>)

\* A literal of three and one more.
LEMMA ThreeAndOne ==
  ASSUME NEW a, NEW b, NEW c, NEW d
  PROVE  << a, b, c >> \o << d >> = << a, b, c, d >>
  <1> DEFINE X == {a, b, c, d}
             p == << a, b, c >>
             q == << d >>
             t == << a, b, c, d >>
             u == p \o q
  <1>1. /\ p \in Seq(X) /\ Len(p) = 3 /\ p[1] = a /\ p[2] = b /\ p[3] = c
        /\ q \in Seq(X) /\ Len(q) = 1 /\ q[1] = d
        /\ t \in Seq(X) /\ Len(t) = 4 /\ t[1] = a /\ t[2] = b /\ t[3] = c /\ t[4] = d
    OBVIOUS
  <1> HIDE DEF X, p, q, t
  <1>2. /\ u \in Seq(X) /\ Len(u) = Len(p) + Len(q)
        /\ \A i \in 1 .. Len(p) + Len(q) : u[i] = IF i <= Len(p) THEN p[i] ELSE q[i - Len(p)]
    BY <1>1, ConcatProperties
  <1>3. Len(u) = 4 /\ \A i \in 1 .. 4 : u[i] = IF i <= 3 THEN p[i] ELSE q[i - 3]
    <2>1. Len(p) + Len(q) = 4 /\ Len(p) = 3
      BY <1>1
    <2> QED
      BY <1>2, <2>1
  <1> HIDE DEF u
  <1>4. \A i \in 1 .. 4 : u[i] = t[i]
    <2>1. \A i \in 1 .. 4 : i = 1 \/ i = 2 \/ i = 3 \/ i = 4
      OBVIOUS
    <2>2. u[1] = a /\ u[2] = b /\ u[3] = c /\ u[4] = d
      BY <1>1, <1>3
    <2> QED
      BY <1>1, <2>1, <2>2
  <1>5. u = t
    BY <1>1, <1>2, <1>3, <1>4, SeqEqual
  <1> QED
    BY <1>5 DEF u, p, q, t

\* The name of a struct is made of texts.
LEMMA StructNameFacts ==
  ASSUME NEW s \in Seq(Nat)
  PROVE  StructName(s) \in Seq(Seq(Nat))
  <1> DEFINE base == SubSeq(s, 1, Open(s) - 1)
             P == {i \in DOMAIN base : base[i] = Colons}
  <1>1. Open(s) \in 1 .. Len(s) + 1 /\ Len(s) \in Nat
    BY OpenFacts, LenProperties
  <1>2. base \in Seq(Nat)
    <2>1. 1 \in Nat \ {0} /\ Open(s) - 1 \in 0 .. Len(s)
      BY <1>1
    <2> QED
      BY <2>1, PartOfText
  <1>3. StructName(s) = Pieces(base, P)
    BY DEF StructName
  <1> HIDE DEF base, P
  <1>4. 0 \in Nat
    OBVIOUS
  <1> QED
    BY <1>2, <1>3, <1>4, PiecesAppend DEF Lists

\* The numbers of the kinds of types.
LEMMA TagVariant ==
  ASSUME NEW s
  PROVE  /\ TagKind(s) = "bool" => TypeTagKind[TagKind(s)] = 0
         /\ TagKind(s) = "u8" => TypeTagKind[TagKind(s)] = 1
         /\ TagKind(s) = "vector" => TypeTagKind[TagKind(s)] = 6
         /\ TagKind(s) = "struct" => TypeTagKind[TagKind(s)] = 7
         /\ TypeTagKind[TagKind(s)] \in Nat
  <1>1. TagKind(s) \in {"bool", "u8", "vector", "struct"}
    BY TagKindFacts
  <1> QED
    BY <1>1 DEF TypeTagKind

\* What is written for a struct are fields, refused or not,
LEMMA StructTagFacts ==
  ASSUME NEW s \in Seq(Nat)
  PROVE  StructTag(s) \in Seq(Fields)
  <1> DEFINE n == StructName(s)
  <1>0. n \in Seq(Seq(Nat))
    BY StructNameFacts
  <1>1. CASE Len(n) # 3
    <2>1. StructTag(s) = << Fixed(Refused) >>
      BY <1>1 DEF StructTag
    <2>2. Fixed(Refused) = [kind |-> "fixed", width |-> 0, value |-> Refused]
      BY DEF Fixed, Val
    <2>3. Fixed(Refused) \in Fields
      BY <2>2 DEF Fields, Kinds, Data
    <2> QED
      BY <2>1, <2>3
  <1>2. CASE Len(n) = 3
    <2>1. n[1] \in Seq(Nat) /\ n[2] \in Seq(Nat) /\ n[3] \in Seq(Nat)
      <3>1. 1 \in 1 .. Len(n) /\ 2 \in 1 .. Len(n) /\ 3 \in 1 .. Len(n)
        BY <1>2
      <3> HIDE DEF n
      <3> QED
        BY <1>0, <3>1, ElementOfSeq
    <2>2. StructTag(s) = << Fixed(AddressBytes(n[1])), Str(n[2]), Str(n[3]), Length(StructParams(s)) >>
      BY <1>2 DEF StructTag
    <2> HIDE DEF n
    <2>3. << Fixed(AddressBytes(n[1])) >> \in Seq(Fields) /\ << Str(n[2]) >> \in Seq(Fields)
          /\ << Str(n[3]) >> \in Seq(Fields)
      <3>1. "address" \in IdRoles
        BY DEF IdRoles
      <3>2. Laid(<< Id("address") >>, << Fixed(AddressBytes(n[1])) >>, << Fact("address", n[1]) >>, FALSE)
        BY <2>1, <3>1, LaidId
      <3>3. /\ Laid(<< Name("tag_name") >>, << Str(n[2]) >>, << Fact("tag_name", n[2]) >>, FALSE)
            /\ Laid(<< Name("tag_name") >>, << Str(n[3]) >>, << Fact("tag_name", n[3]) >>, FALSE)
        BY <2>1, LaidName
      <3> QED
        BY <3>2, <3>3 DEF Laid
    <2>4. Length(StructParams(s)) \in Fields
      <3>1. Len(StructParams(s)) \in Nat
        BY StructParamsShorter, LenProperties
      <3>2. Length(StructParams(s)) = Variant(Len(StructParams(s)))
        BY DEF Length, Variant
      <3> QED
        BY <3>1, <3>2, VariantIsField
    <2> DEFINE a == Fixed(AddressBytes(n[1]))
               b == Str(n[2])
               c == Str(n[3])
               d == Length(StructParams(s))
    <2> HIDE DEF a, b, c, d
    <2>5. a \in Fields /\ b \in Fields /\ c \in Fields /\ d \in Fields
      <3>1. << a >> \in Seq(Fields) /\ << b >> \in Seq(Fields) /\ << c >> \in Seq(Fields)
        BY <2>3 DEF a, b, c
      <3>2. 1 \in 1 .. Len(<< a >>) /\ 1 \in 1 .. Len(<< b >>) /\ 1 \in 1 .. Len(<< c >>)
            /\ << a >>[1] = a /\ << b >>[1] = b /\ << c >>[1] = c
        OBVIOUS
      <3>3. << a >>[1] \in Fields
        BY <3>1, <3>2, ElementOfSeq
      <3>4. << b >>[1] \in Fields
        BY <3>1, <3>2, ElementOfSeq
      <3>5. << c >>[1] \in Fields
        BY <3>1, <3>2, ElementOfSeq
      <3> QED
        BY <2>4, <3>2, <3>3, <3>4, <3>5 DEF d
    <2>6. << a, b, c, d >> \in Seq(Fields)
      BY <2>5
    <2>7. StructTag(s) = << a, b, c, d >>
      BY <2>2 DEF a, b, c, d
    <2> QED
      BY <2>6, <2>7
  <1> QED
    BY <1>1, <1>2

\* and so they are for any type.
LEMMA OwnFieldsFacts ==
  ASSUME NEW s \in Seq(Nat)
  PROVE  OwnFields(s) \in Seq(Fields)
  <1>1. << Variant(TypeTagKind[TagKind(s)]) >> \in Seq(Fields)
    BY TagVariant, VariantIsField
  <1>2. StructTag(s) \in Seq(Fields) /\ << >> \in Seq(Fields)
    BY StructTagFacts, EmptySeq
  <1>3. (IF TagKind(s) = "struct" THEN StructTag(s) ELSE << >>) \in Seq(Fields)
    BY <1>2
  <1> DEFINE a == << Variant(TypeTagKind[TagKind(s)]) >>
             b == IF TagKind(s) = "struct" THEN StructTag(s) ELSE << >>
  <1>4. a \in Seq(Fields) /\ b \in Seq(Fields)
    BY <1>1, <1>3
  <1>5. OwnFields(s) = a \o b
    BY DEF OwnFields
  <1> HIDE DEF a, b
  <1> QED
    BY <1>4, <1>5, ConcatProperties

\* A type tag, from the type tags inside it.
LEMMA TypeTagRecursion ==
  ASSUME NEW s \in Seq(Nat)
  PROVE  TypeTag(s) = OwnFields(s) \o FlattenSeq([k \in DOMAIN Inner(s) |-> TypeTag(Inner(s)[k])])
  <1> DEFINE D == Seq(Nat)
             X == Seq(Fields)
             rank == [t \in D |-> Len(t)]
             parts == [t \in D |-> Inner(t)]
             step == [p \in D \X Seq(X) |-> OwnFields(p[1]) \o FlattenSeq(p[2])]
             Eq(f) == f = [t \in Seq(Nat) |-> LET inner == Inner(t) IN
                        << Variant(TypeTagKind[TagKind(t)]) >>
                          \o (IF TagKind(t) = "struct" THEN StructTag(t) ELSE << >>)
                          \o FlattenSeq([k \in DOMAIN inner |-> f[inner[k]]])]
             F == CHOOSE f : Eq(f)
  <1>1. \A t \in D : Len(t) \in Nat /\ Inner(t) \in Seq(D) /\ DOMAIN Inner(t) = 1 .. Len(Inner(t))
                     /\ Len(Inner(t)) \in Nat /\ \A k \in 1 .. Len(Inner(t)) : Len(Inner(t)[k]) < Len(t)
    <2> SUFFICES ASSUME NEW t \in D
                 PROVE  Len(t) \in Nat /\ Inner(t) \in Seq(D) /\ DOMAIN Inner(t) = 1 .. Len(Inner(t))
                        /\ Len(Inner(t)) \in Nat /\ \A k \in 1 .. Len(Inner(t)) : Len(Inner(t)[k]) < Len(t)
      OBVIOUS
    <2>1. Inner(t) \in Seq(D) /\ \A k \in 1 .. Len(Inner(t)) : Len(Inner(t)[k]) < Len(t)
      BY InnerShorter
    <2>2. Len(t) \in Nat
      BY LenProperties
    <2>3. DOMAIN Inner(t) = 1 .. Len(Inner(t)) /\ Len(Inner(t)) \in Nat
      BY <2>1, LenProperties
    <2> QED
      BY <2>1, <2>2, <2>3
  <1>2. \A t \in D : parts[t] = Inner(t) /\ rank[t] = Len(t)
    OBVIOUS
  <1>3. parts \in [D -> Seq(D)] /\ rank \in [D -> Nat]
    BY <1>1
  <1>4. ASSUME NEW t \in D, NEW g \in [1 .. Len(Inner(t)) -> X]
        PROVE  step[<<t, g>>] = OwnFields(t) \o FlattenSeq(g) /\ step[<<t, g>>] \in X
    <2>1. g \in Seq(X)
      <3> DEFINE n == Len(Inner(t))
      <3>1. n \in Nat /\ g \in [1 .. n -> X]
        BY <1>1
      <3> HIDE DEF n, X
      <3> QED
        BY ONLY <3>1 DEF Seq
    <2>2. step[<<t, g>>] = OwnFields(t) \o FlattenSeq(g)
      BY <2>1
    <2> HIDE DEF step
    <2>3. OwnFields(t) \in Seq(Fields)
      BY OwnFieldsFacts
    <2>4. Len(Inner(t)) \in Nat
      BY <1>1
    <2>5. FlattenSeq(g) \in Seq(Fields)
      BY <2>4, FlattenInSeq
    <2>6. OwnFields(t) \o FlattenSeq(g) \in Seq(Fields)
      BY <2>3, <2>5, ConcatProperties
    <2> QED
      BY <2>2, <2>6
  <1> HIDE DEF step, rank, parts
  <1>5. Branches(D, X, rank, parts, step)
    <2>1. \A t \in D : \A k \in DOMAIN parts[t] : rank[parts[t][k]] < rank[t]
      <3> SUFFICES ASSUME NEW t \in D, NEW k \in DOMAIN parts[t] PROVE rank[parts[t][k]] < rank[t]
        OBVIOUS
      <3>1. parts[t] = Inner(t) /\ k \in 1 .. Len(Inner(t)) /\ Inner(t) \in Seq(D)
        BY <1>1, <1>2
      <3>2. Inner(t)[k] \in D
        BY <3>1, ElementOfSeq
      <3>3. rank[Inner(t)[k]] = Len(Inner(t)[k]) /\ rank[t] = Len(t)
        BY <1>2, <3>2
      <3> QED
        BY <1>1, <3>1, <3>3
    <2>2. \A t \in D : \A g \in [DOMAIN parts[t] -> X] : step[<<t, g>>] \in X
      BY <1>1, <1>2, <1>4, Zenon
    <2> HIDE DEF D, X
    <2> QED
      BY <1>3, <2>1, <2>2 DEF Branches
  <1>6. PICK f \in [D -> X] : Answers(f, D, parts, step)
    <2> HIDE DEF D, X, Eq, F
    <2> QED
      BY <1>5, RecursionOnParts
  <1>7. \A t \in D : f[t] = OwnFields(t) \o FlattenSeq([k \in DOMAIN Inner(t) |-> f[Inner(t)[k]]])
    <2> SUFFICES ASSUME NEW t \in D
                 PROVE  f[t] = OwnFields(t) \o FlattenSeq([k \in DOMAIN Inner(t) |-> f[Inner(t)[k]]])
      OBVIOUS
    <2> DEFINE g == [k \in 1 .. Len(Inner(t)) |-> f[Inner(t)[k]]]
    <2>1. parts[t] = Inner(t) /\ DOMAIN Inner(t) = 1 .. Len(Inner(t)) /\ Inner(t) \in Seq(D)
      BY <1>1, <1>2
    <2>2. [k \in DOMAIN parts[t] |-> f[parts[t][k]]] = g
      BY <2>1
    <2>3. g \in [1 .. Len(Inner(t)) -> X]
      <3>1. \A k \in 1 .. Len(Inner(t)) : Inner(t)[k] \in D
        BY <2>1, ElementOfSeq
      <3>2. \A k \in 1 .. Len(Inner(t)) : f[Inner(t)[k]] \in X
        BY <1>6, <3>1
      <3> QED
        BY <3>2
    <2>4. f[t] = step[<<t, g>>]
      BY <1>6, <2>2 DEF Answers
    <2>5. [k \in DOMAIN Inner(t) |-> f[Inner(t)[k]]] = g
      BY <2>1
    <2> HIDE DEF g
    <2> QED
      BY <1>4, <2>3, <2>4, <2>5
  <1>8. Eq(f)
    <2>1. f = [t \in D |-> OwnFields(t) \o FlattenSeq([k \in DOMAIN Inner(t) |-> f[Inner(t)[k]]])]
      BY <1>6, <1>7
    <2> QED
      BY <2>1 DEF OwnFields
  <1>9. Eq(F)
    <2> HIDE DEF Eq
    <2> QED
      BY <1>8
  <1>10. \A t : TypeTag(t) = F[t]
    BY DEF TypeTag
  <1> HIDE DEF F
  <1>11. F = [t \in D |-> OwnFields(t) \o FlattenSeq([k \in DOMAIN Inner(t) |-> F[Inner(t)[k]]])]
    BY <1>9 DEF OwnFields
  <1>12. F[s] = OwnFields(s) \o FlattenSeq([k \in DOMAIN Inner(s) |-> F[Inner(s)[k]]])
    <2>1. s \in D
      OBVIOUS
    <2> HIDE <1>9 DEF D
    <2> QED
      BY <1>11, <2>1
  <1>13. [k \in DOMAIN Inner(s) |-> F[Inner(s)[k]]] = [k \in DOMAIN Inner(s) |-> TypeTag(Inner(s)[k])]
    BY <1>10
  <1> QED
    BY <1>10, <1>12, <1>13

-----------------------------------------------------------------------------
(* A type tag as the node reads it. *)

\* What the node expects where a type is written.
TagThings == << Enum("TypeTag") >>

\* A primitive type.
LEMMA LaidPrimitive ==
  ASSUME NEW good, NEW s \in Seq(Nat), TagKind(s) \in {"bool", "u8"}
  PROVE  Laid(TagThings, TypeTag(s), << Fact("TypeTag", TagKind(s)) >>, good)
  <1> DEFINE n == TypeTagKind[TagKind(s)]
  <1>1. n \in {0, 1} /\ n = TypeTagKind[TagKind(s)]
    BY TagVariant
  <1>2. Variants("TypeTag", n) = << >>
    BY <1>1 DEF Variants
  <1>3. OwnFields(s) = << Variant(n) >> \o << >>
    BY DEF OwnFields
  <1>4. Inner(s) = << >>
    BY DEF Inner
  <1>5. TypeTag(s) = << Variant(n) >> \o << >>
    <2> DEFINE o == OwnFields(s)
    <2>1. TypeTag(s) = o \o FlattenSeq([k \in DOMAIN Inner(s) |-> TypeTag(Inner(s)[k])])
      BY TypeTagRecursion
    <2>2. FlattenSeq([k \in DOMAIN Inner(s) |-> TypeTag(Inner(s)[k])]) = << >>
      <3>1. [k \in DOMAIN Inner(s) |-> TypeTag(Inner(s)[k])] = << >>
        BY <1>4
      <3> QED
        BY <3>1 DEF FlattenSeq
    <2>3. o \in Seq(Fields)
      BY OwnFieldsFacts
    <2> HIDE DEF o
    <2>4. o \o << >> = o
      BY <2>3, ConcatEmptySeq
    <2> QED
      BY <1>3, <2>1, <2>2, <2>4 DEF o
  <1> HIDE DEF n
  <1>6. Means("TypeTag", n, TagKind(s)) /\ TagKind(s) \in Words
    BY <1>1, Zenon DEF Means, IdRoles, Words
  <1>7. Laid(Variants("TypeTag", n), << >>, << >>, good)
    BY <1>2, LaidNothing
  <1> DEFINE w == TagKind(s)
  <1>8. n \in Nat /\ w \in Words /\ Means("TypeTag", n, w)
    BY <1>1, <1>6
  <1> HIDE DEF w
  <1>9. Laid(<< Enum("TypeTag") >>, << Variant(n) >> \o << >>, << Fact("TypeTag", w) >> \o << >>, good)
    BY <1>7, <1>8, LaidTagged
  <1>10. << Fact("TypeTag", w) >> \o << >> = << Fact("TypeTag", w) >>
    BY ConcatEmptySeq
  <1> QED
    BY <1>5, <1>9, <1>10 DEF TagThings, w

\* A vector.
LEMMA LaidVector ==
  ASSUME NEW good, NEW s \in Seq(Nat), TagKind(s) = "vector", NEW u, Inner(s) = << u >>,
         NEW facts, Laid(TagThings, TypeTag(u), facts, good)
  PROVE  Laid(TagThings, TypeTag(s), << Fact("TypeTag", "vector") >> \o facts, good)
  <1>1. TypeTagKind[TagKind(s)] = 6
    BY TagVariant
  <1>2. Variants("TypeTag", 6) = TagThings
    BY DEF Variants, TagThings
  <1> DEFINE v == << Variant(6) >>
             o == OwnFields(s)
             i == TypeTag(u)
  <1>0. i \in Seq(Fields)
    BY DEF Laid
  <1>3. o = v \o << >> /\ v \in Seq(Fields)
    <2>1. v \in Seq(Fields)
      BY VariantIsField
    <2> QED
      BY <1>1, <2>1 DEF OwnFields
  <1>4. o = v
    <2>1. v \o << >> = v
      <3> HIDE DEF v
      <3> QED
        BY <1>3, ConcatEmptySeq
    <2> QED
      BY <1>3, <2>1
  <1>5. TypeTag(s) = v \o i
    <2> DEFINE ss == [k \in DOMAIN Inner(s) |-> TypeTag(Inner(s)[k])]
    <2>1. ss = [k \in 1 .. 1 |-> i]
      <3>1. DOMAIN Inner(s) = 1 .. 1 /\ \A k \in 1 .. 1 : Inner(s)[k] = u
        OBVIOUS
      <3> QED
        BY <3>1
    <2>2. TypeTag(s) = o \o FlattenSeq(ss)
      BY TypeTagRecursion
    <2> HIDE DEF ss, i, o
    <2>3. FlattenSeq(ss) = i
      BY <1>0, <2>1, FlattenOne
    <2> QED
      BY <1>4, <2>2, <2>3
  <1> HIDE DEF i
  <1>6. Means("TypeTag", 6, "vector") /\ "vector" \in Words
    BY DEF Means, IdRoles, Words, TypeTagKind
  <1>7. Laid(Variants("TypeTag", 6), i, facts, good)
    BY <1>2 DEF i
  <1> DEFINE n == 6
             w == "vector"
  <1>8. n \in Nat /\ w \in Words /\ Means("TypeTag", n, w) /\ Laid(Variants("TypeTag", n), i, facts, good)
    BY <1>6, <1>7
  <1> HIDE DEF n, w
  <1>9. Laid(<< Enum("TypeTag") >>, << Variant(n) >> \o i, << Fact("TypeTag", w) >> \o facts, good)
    BY <1>8, LaidTagged
  <1> QED
    BY <1>5, <1>9 DEF TagThings, n, w

\* What the author of a struct means by its name.
NameFacts(name) == << Fact("address", name[1]), Fact("tag_module", name[2]), Fact("tag_name", name[3]) >>

\* A struct, or a type text without a bracket.
LEMMA LaidStruct ==
  ASSUME NEW good, NEW s \in Seq(Nat), TagKind(s) = "struct", Len(StructName(s)) = 3,
         NEW facts, facts = [k \in DOMAIN Inner(s) |-> facts[k]],
         \A k \in DOMAIN Inner(s) : Laid(TagThings, TypeTag(Inner(s)[k]), facts[k], good)
  PROVE  Laid(TagThings, TypeTag(s),
              << Fact("TypeTag", "struct") >> \o (NameFacts(StructName(s)) \o FlattenSeq(facts)), good)
  <1> DEFINE name == StructName(s)
             inner == Inner(s)
             fields == [k \in DOMAIN inner |-> TypeTag(inner[k])]
             head == << Fixed(AddressBytes(name[1])), Str(name[2]), Str(name[3]) >>
             l == << Length(inner) >>
             F == FlattenSeq(fields)
             v == << Variant(7) >>
  <1>1. TypeTagKind[TagKind(s)] = 7
    BY TagVariant
  <1>2. inner = StructParams(s)
    BY DEF Inner
  <1>3. inner \in Seq(Seq(Nat)) /\ name \in Seq(Seq(Nat))
    BY InnerShorter, StructNameFacts
  <1>4. name[1] \in Seq(Nat) /\ name[2] \in Seq(Nat) /\ name[3] \in Seq(Nat)
    <2>1. 1 \in 1 .. Len(name) /\ 2 \in 1 .. Len(name) /\ 3 \in 1 .. Len(name)
      OBVIOUS
    <2> HIDE DEF name
    <2> QED
      BY <1>3, <2>1, ElementOfSeq
  <1>5. Laid(<< Id("address"), Name("tag_module"), Name("tag_name") >>, head, NameFacts(name), good)
    <2> HIDE DEF name
    <2>1. "address" \in IdRoles
      BY DEF IdRoles
    <2>2. Laid(<< Id("address") >>, << Fixed(AddressBytes(name[1])) >>, << Fact("address", name[1]) >>, good)
      BY <1>4, <2>1, LaidId
    <2>3. Laid(<< Name("tag_module") >>, << Str(name[2]) >>, << Fact("tag_module", name[2]) >>, good)
      BY <1>4, LaidName
    <2>4. Laid(<< Name("tag_name") >>, << Str(name[3]) >>, << Fact("tag_name", name[3]) >>, good)
      BY <1>4, LaidName
    <2>5. Laid((<< Id("address") >> \o << Name("tag_module") >>) \o << Name("tag_name") >>,
               (<< Fixed(AddressBytes(name[1])) >> \o << Str(name[2]) >>) \o << Str(name[3]) >>,
               (<< Fact("address", name[1]) >> \o << Fact("tag_module", name[2]) >>)
                 \o << Fact("tag_name", name[3]) >>, good)
      BY <2>2, <2>3, <2>4, LaidBoth
    <2> QED
      BY <2>5, ThreeOnes DEF NameFacts
  <1> HIDE DEF head
  <1>6. Laid(<< Vec("TypeTag") >>, l \o F, FlattenSeq(facts), good)
    <2>1. Element("TypeTag") = << Enum("TypeTag") >> /\ "TypeTag" \in Words
      BY DEF Element, Words
    <2>2. Items(inner)
      <3>1. Len(inner) \in Nat /\ inner \in [1 .. Len(inner) -> Seq(Nat)]
        BY <1>3, LenProperties
      <3> HIDE DEF inner
      <3> QED
        BY <3>1 DEF Items
    <2>3. /\ fields = [k \in DOMAIN inner |-> fields[k]] /\ facts = [k \in DOMAIN inner |-> facts[k]]
          /\ \A k \in DOMAIN inner : Laid(Element("TypeTag"), fields[k], facts[k], good)
      BY <2>1 DEF TagThings
    <2> HIDE DEF fields, inner
    <2> QED
      BY <2>1, <2>2, <2>3, LaidItems
  <1>7. head \in Seq(Fields) /\ l \o F \in Seq(Fields)
    BY <1>5, <1>6 DEF Laid
  <1>8. l \in Seq(Fields)
    <2>1. Len(inner) \in Nat
      BY <1>3, LenProperties
    <2>2. Length(inner) = Variant(Len(inner))
      BY DEF Length, Variant
    <2>3. Length(inner) \in Fields
      BY <2>1, <2>2, VariantIsField
    <2> QED
      BY <2>3
  <1>9. F \in Seq(Fields)
    <2> DEFINE n == Len(inner)
    <2>1. n \in Nat /\ DOMAIN inner = 1 .. n
      BY <1>3, LenProperties
    <2>2. \A k \in DOMAIN inner : TypeTag(inner[k]) \in Seq(Fields)
      BY DEF Laid
    <2>3. fields \in [1 .. n -> Seq(Fields)]
      BY <2>1, <2>2
    <2> HIDE DEF fields, n
    <2> QED
      BY <2>1, <2>3, FlattenInSeq
  <1>10. v \in Seq(Fields)
    BY VariantIsField
  <1>11. StructTag(s) = head \o l
    <2>1. StructTag(s) = << Fixed(AddressBytes(name[1])), Str(name[2]), Str(name[3]), Length(StructParams(s)) >>
      BY DEF StructTag
    <2>2. << Fixed(AddressBytes(name[1])), Str(name[2]), Str(name[3]) >> \o << Length(StructParams(s)) >>
            = << Fixed(AddressBytes(name[1])), Str(name[2]), Str(name[3]), Length(StructParams(s)) >>
      BY ThreeAndOne
    <2> QED
      BY <1>2, <2>1, <2>2 DEF head
  <1>12. TypeTag(s) = (v \o (head \o l)) \o F
    <2>1. OwnFields(s) = v \o StructTag(s)
      BY <1>1 DEF OwnFields
    <2>2. TypeTag(s) = OwnFields(s) \o F
      BY TypeTagRecursion
    <2> QED
      BY <1>11, <2>1, <2>2
  <1> DEFINE t == TypeTag(s)
             lF == l \o F
  <1>a. t = (v \o (head \o l)) \o F
    BY <1>12
  <1> HIDE DEF v, head, l, F, t
  <1>13. t = v \o (head \o (l \o F))
    <2>1. Associates(Fields)
      BY Associative
    <2>2. head \o l \in Seq(Fields)
      BY <1>7, <1>8, ConcatProperties
    <2>3. (v \o (head \o l)) \o F = v \o ((head \o l) \o F)
      BY <1>9, <1>10, <2>1, <2>2, ZenonT(40) DEF Associates
    <2>4. (head \o l) \o F = head \o (l \o F)
      BY <1>7, <1>8, <1>9, <2>1, ZenonT(40) DEF Associates
    <2> QED
      BY <1>a, <2>3, <2>4
  <1>14. Variants("TypeTag", 7) = << Id("address"), Name("tag_module"), Name("tag_name") >> \o << Vec("TypeTag") >>
    <2>1. Variants("TypeTag", 7) = << Id("address"), Name("tag_module"), Name("tag_name"), Vec("TypeTag") >>
      BY DEF Variants
    <2> QED
      BY <2>1, ThreeAndOne
  <1> DEFINE n == 7
             w == "struct"
             rest == head \o (l \o F)
             more == NameFacts(name) \o FlattenSeq(facts)
  <1>15. Laid(Variants("TypeTag", 7), rest, more, good)
    <2> DEFINE nf == NameFacts(name)
               ff == FlattenSeq(facts)
               a == << Id("address"), Name("tag_module"), Name("tag_name") >>
               b == << Vec("TypeTag") >>
    <2>1. Laid(a, head, nf, good) /\ Laid(b, lF, ff, good)
      BY <1>5, <1>6
    <2> HIDE DEF nf, ff, a, b, lF
    <2>2. Laid(a \o b, head \o lF, nf \o ff, good)
      BY <2>1, LaidBoth
    <2> QED
      BY <1>14, <2>2 DEF nf, ff, a, b, lF
  <1>16. Means("TypeTag", 7, "struct") /\ "struct" \in Words
    BY DEF Means, IdRoles, Words, TypeTagKind
  <1>17. n \in Nat /\ w \in Words /\ Means("TypeTag", n, w) /\ Laid(Variants("TypeTag", n), rest, more, good)
    BY <1>15, <1>16
  <1> HIDE DEF n, w, rest, more
  <1>18. Laid(<< Enum("TypeTag") >>, << Variant(n) >> \o rest, << Fact("TypeTag", w) >> \o more, good)
    BY <1>17, LaidTagged
  <1> QED
    BY <1>13, <1>18 DEF TagThings, n, w, v, rest, more, t

\* A struct name that is not one is refused.
LEMMA LaidBadName ==
  ASSUME NEW s \in Seq(Nat), TagKind(s) = "struct", Len(StructName(s)) # 3
  PROVE  TypeTag(s) \in Seq(Fields) /\ ~Serializable(TypeTag(s))
  <1> DEFINE o == OwnFields(s)
             r == << Fixed(Refused) >>
             v == << Variant(7) >>
             t == TypeTag(s)
  <1>1. Inner(s) = << >>
    BY DEF Inner
  <1>2. t = o
    <2>1. t = o \o FlattenSeq([k \in DOMAIN Inner(s) |-> TypeTag(Inner(s)[k])])
      BY TypeTagRecursion
    <2>2. FlattenSeq([k \in DOMAIN Inner(s) |-> TypeTag(Inner(s)[k])]) = << >>
      <3>1. [k \in DOMAIN Inner(s) |-> TypeTag(Inner(s)[k])] = << >>
        BY <1>1
      <3> QED
        BY <3>1 DEF FlattenSeq
    <2>3. o \in Seq(Fields)
      BY OwnFieldsFacts
    <2> HIDE DEF o, t
    <2> QED
      BY <2>1, <2>2, <2>3, ConcatEmptySeq
  <1>3. o = v \o r /\ r = StructTag(s)
    <2>1. TypeTagKind[TagKind(s)] = 7 /\ StructTag(s) = << Fixed(Refused) >>
      BY TagVariant DEF StructTag
    <2> QED
      BY <2>1 DEF OwnFields
  <1>4. v \in Seq(Fields) /\ r \in Seq(Fields)
    <2>1. v \in Seq(Fields)
      BY VariantIsField
    <2>2. StructTag(s) \in Seq(Fields)
      BY StructTagFacts
    <2> QED
      BY <1>3, <2>1, <2>2
  <1>5. ~Serializable(r)
    <2>1. r[1].value = Refused /\ 1 \in DOMAIN r
      BY DEF Fixed, Val
    <2> HIDE DEF r
    <2> QED
      BY <2>1 DEF Serializable
  <1>6. o \in Seq(Fields)
    BY OwnFieldsFacts
  <1> HIDE DEF o, r, v, t
  <1>7. ~Serializable(v \o r)
    BY <1>4, <1>5, SerializableParts
  <1> QED
    BY <1>2, <1>3, <1>6, <1>7 DEF t

\* Whatever the text: either it is refused, or the node reads what is written for it.
LEMMA AnyTypeLaid ==
  ASSUME NEW s \in Seq(Nat), NEW facts \in Seq(Facts)
  PROVE  Laid(TagThings, TypeTag(s), facts, FALSE)
  <1> DEFINE L(t, f) == Laid(TagThings, TypeTag(t), f, FALSE)
             Claim(t) == \A f \in Seq(Facts) : L(t, f)
             S == {n \in Nat : \A t \in Seq(Nat) : Len(t) < n => Claim(t)}
  <1>1. \A t, f : L(t, f) => \A g \in Seq(Facts) : L(t, g)
    BY DEF Laid
  <1>e. << >> \in Seq(Facts)
    BY EmptySeq
  <1>2. 0 \in S
    <2>1. \A t \in Seq(Nat) : Len(t) \in Nat
      BY LenProperties
    <2>2. \A t \in Seq(Nat) : ~(Len(t) < 0)
      BY <2>1
    <2> HIDE DEF Claim
    <2> QED
      BY <2>2
  <1>3. ASSUME NEW n \in Nat, n \in S PROVE n + 1 \in S
    <2> SUFFICES ASSUME NEW t \in Seq(Nat), Len(t) < n + 1 PROVE Claim(t)
      <3> HIDE DEF Claim
      <3> QED
        OBVIOUS
    <2>0. TagKind(t) \in {"bool", "u8", "vector", "struct"}
      BY TagKindFacts
    <2>1. /\ Inner(t) \in Seq(Seq(Nat)) /\ DOMAIN Inner(t) = 1 .. Len(Inner(t))
          /\ \A k \in DOMAIN Inner(t) : Inner(t)[k] \in Seq(Nat) /\ Claim(Inner(t)[k])
      <3>1. Inner(t) \in Seq(Seq(Nat)) /\ \A k \in 1 .. Len(Inner(t)) : Len(Inner(t)[k]) < Len(t)
        BY InnerShorter
      <3>2. DOMAIN Inner(t) = 1 .. Len(Inner(t)) /\ \A k \in 1 .. Len(Inner(t)) : Inner(t)[k] \in Seq(Nat)
        BY <3>1, LenProperties, ElementOfSeq
      <3>3. ASSUME NEW k \in 1 .. Len(Inner(t)) PROVE Claim(Inner(t)[k])
        <4>1. Inner(t)[k] \in Seq(Nat) /\ Len(Inner(t)[k]) < Len(t)
          BY <3>1, <3>2
        <4>2. Len(Inner(t)[k]) \in Nat /\ Len(t) \in Nat
          BY <4>1, LenProperties
        <4>3. Len(Inner(t)[k]) < n
          BY <4>1, <4>2
        <4> HIDE DEF Claim
        <4> QED
          BY <1>3, <4>1, <4>3
      <3> HIDE DEF Claim
      <3> QED
        BY <3>1, <3>2, <3>3
    <2>2. CASE TagKind(t) \in {"bool", "u8"}
      <3>1. L(t, << Fact("TypeTag", TagKind(t)) >>)
        BY <2>2, LaidPrimitive
      <3> HIDE DEF L
      <3> QED
        BY <1>1, <3>1
    <2>3. CASE TagKind(t) = "vector"
      <3> DEFINE u == SubSeq(t, 3, Len(t) - 1)
                 e == << >>
      <3>1. Inner(t) = << u >>
        BY <2>3 DEF Inner
      <3> HIDE DEF u
      <3>2. 1 \in DOMAIN Inner(t) /\ Inner(t)[1] = u
        BY <3>1
      <3>3. Claim(u)
        <4> HIDE DEF Claim
        <4> QED
          BY <2>1, <3>2
      <3>4. Laid(TagThings, TypeTag(u), e, FALSE)
        BY <1>e, <3>3
      <3> HIDE DEF e
      <3>5. L(t, << Fact("TypeTag", "vector") >> \o e)
        BY <2>3, <3>1, <3>4, LaidVector
      <3> HIDE DEF L
      <3> QED
        BY <1>1, <3>5
    <2>4. CASE TagKind(t) = "struct" /\ Len(StructName(t)) # 3
      <3>1. TypeTag(t) \in Seq(Fields) /\ ~Serializable(TypeTag(t))
        BY <2>4, LaidBadName
      <3>2. TagThings \in Seq(Things)
        <4>1. "TypeTag" \in Words
          BY DEF Words
        <4>2. Enum("TypeTag") \in Things
          BY <4>1, EnumIsThing
        <4> QED
          BY <4>2 DEF TagThings
      <3> QED
        BY <3>1, <3>2 DEF Laid
    <2>5. CASE TagKind(t) = "struct" /\ Len(StructName(t)) = 3
      <3> DEFINE ff == [k \in DOMAIN Inner(t) |-> << >>]
                 inner == Inner(t)
      <3>1. \A k \in DOMAIN inner : Laid(TagThings, TypeTag(inner[k]), ff[k], FALSE)
        <4> SUFFICES ASSUME NEW k \in DOMAIN inner PROVE Laid(TagThings, TypeTag(inner[k]), ff[k], FALSE)
          OBVIOUS
        <4>1. Claim(inner[k]) /\ ff[k] = << >>
          <5> HIDE DEF Claim
          <5> QED
            BY <2>1
        <4> HIDE DEF ff, inner
        <4>2. L(inner[k], << >>)
          BY <1>e, <4>1
        <4> QED
          BY <4>1, <4>2
      <3>2. ff = [k \in DOMAIN Inner(t) |-> ff[k]]
        OBVIOUS
      <3> HIDE DEF ff
      <3>3. L(t, << Fact("TypeTag", "struct") >> \o (NameFacts(StructName(t)) \o FlattenSeq(ff)))
        BY <2>5, <3>1, <3>2, LaidStruct
      <3> HIDE DEF L
      <3> QED
        BY <1>1, <3>3
    <2> QED
      BY <2>0, <2>2, <2>3, <2>4, <2>5
  <1>4. Nat \subseteq S
    <2> HIDE DEF S
    <2> QED
      BY <1>2, <1>3, NaturalsByInduction
  <1>5. Claim(s)
    <2>1. Len(s) + 1 \in Nat /\ Len(s) < Len(s) + 1
      BY LenProperties
    <2>2. Len(s) + 1 \in S
      BY <1>4, <2>1
    <2> HIDE DEF Claim
    <2> QED
      BY <2>1, <2>2
  <1> QED
    BY <1>5

-----------------------------------------------------------------------------
(* The table of types. *)

\* What the assumptions say of a type of the table.
LEMMA TypeFields ==
  ASSUME NEW i \in DOMAIN Types
  PROVE  LET t == Types[i] IN
         /\ t.tag \in {"bool", "u8", "vector", "struct"}
         /\ t.address \in Seq(Nat) /\ t.module \in Seq(Nat) /\ t.name \in Seq(Nat) /\ t.pad \in Seq({Space})
         /\ t.params \in Seq(Nat) /\ Len(t.params) \in Nat /\ DOMAIN t.params = 1 .. Len(t.params)
         /\ \A k \in DOMAIN t.params : t.params[k] \in 1 .. i - 1 /\ t.params[k] \in DOMAIN Types
         /\ t.tag = "vector" => Len(t.params) = 1
         /\ t.tag \in {"bool", "u8"} => t.params = << >>
         /\ i \in Nat \ {0}
  <1> DEFINE t == Types[i]
             R == [tag : DOMAIN TypeTagKind, address : Seq(Nat), module : Seq(Nat), name : Seq(Nat),
                   params : Seq(Nat), pad : Seq({Space})]
             n == Len(Types)
  <1>1. Types \in Seq(R)
    BY TypesAssumption
  <1>2. n \in Nat /\ DOMAIN Types = 1 .. n /\ t \in R
    <2> HIDE DEF R
    <2>1. n \in Nat /\ DOMAIN Types = 1 .. n
      BY <1>1, LenProperties
    <2> QED
      BY <1>1, <2>1, ElementOfSeq
  <1>3. DOMAIN TypeTagKind = {"bool", "u8", "vector", "struct"}
    BY DEF TypeTagKind
  <1>4. /\ \A k \in DOMAIN t.params : t.params[k] \in 1 .. i - 1
        /\ t.tag = "vector" => Len(t.params) = 1 /\ t.pad = << >>
        /\ t.tag \in {"bool", "u8"} => t.params = << >>
    BY TypesAssumption
  <1> HIDE DEF t, n
  <1>5. t.params \in Seq(Nat)
    BY <1>2
  <1>6. Len(t.params) \in Nat /\ DOMAIN t.params = 1 .. Len(t.params)
    BY <1>5, LenProperties
  <1>7. i \in 1 .. n /\ \A k \in 1 .. i - 1 : k \in DOMAIN Types
    BY <1>2
  <1>8. i \in Nat \ {0}
    BY <1>2, <1>7
  <1>9. /\ t.tag \in {"bool", "u8", "vector", "struct"}
        /\ t.address \in Seq(Nat) /\ t.module \in Seq(Nat) /\ t.name \in Seq(Nat) /\ t.pad \in Seq({Space})
    BY <1>2, <1>3
  <1> QED
    BY <1>4, <1>5, <1>6, <1>7, <1>8, <1>9 DEF t

\* Recursion over the table: a type after the types it is made of.
Params == [i \in DOMAIN Types |-> Types[i].params]
\* A type comes after those it is made of.
Places == [i \in DOMAIN Types |-> i]

\* A recursion along the table of types.
LEMMA TableBranches ==
  ASSUME NEW X, NEW step,
         \A i \in DOMAIN Types : \A g \in [DOMAIN Types[i].params -> X] : step[<<i, g>>] \in X
  PROVE  Branches(DOMAIN Types, X, Places, Params, step)
  <1>1. \A i \in DOMAIN Types : i \in Nat
    BY TypeFields
  <1>2. Places \in [DOMAIN Types -> Nat]
    BY <1>1 DEF Places
  <1>3. ASSUME NEW i \in DOMAIN Types PROVE Types[i].params \in Seq(DOMAIN Types)
    <2> DEFINE p == Types[i].params
               n == Len(p)
    <2>1. n \in Nat /\ DOMAIN p = 1 .. n /\ p \in Seq(Nat) /\ \A k \in DOMAIN p : p[k] \in DOMAIN Types
      BY TypeFields
    <2>2. p \in [1 .. n -> Nat]
      <3> HIDE DEF p
      <3> QED
        BY <2>1, LenProperties
    <2> HIDE DEF p, n
    <2>3. p \in [1 .. n -> DOMAIN Types]
      BY <2>1, <2>2
    <2>4. p \in Seq(DOMAIN Types)
      BY <2>1, <2>3 DEF Seq
    <2> QED
      BY <2>4 DEF p
  <1>4. Params \in [DOMAIN Types -> Seq(DOMAIN Types)] /\ \A i \in DOMAIN Types : Params[i] = Types[i].params
    BY <1>3 DEF Params
  <1>5. ASSUME NEW i \in DOMAIN Types, NEW k \in DOMAIN Params[i] PROVE Places[Params[i][k]] < Places[i]
    <2>1. Types[i].params[k] \in 1 .. i - 1 /\ Types[i].params[k] \in DOMAIN Types /\ i \in Nat
      BY <1>4, TypeFields
    <2>2. Places[Types[i].params[k]] = Types[i].params[k] /\ Places[i] = i
      BY <2>1 DEF Places
    <2> QED
      BY <1>4, <2>1, <2>2
  <1>6. \A i \in DOMAIN Types : \A g \in [DOMAIN Params[i] -> X] : step[<<i, g>>] \in X
    BY <1>4, Zenon
  <1> QED
    BY <1>2, <1>4, <1>5, <1>6 DEF Branches

\* What holds of a type if it holds of the types it is made of, holds of every type.
LEMMA TableInduction ==
  ASSUME NEW S, \A i \in DOMAIN Types : (\A k \in DOMAIN Types[i].params : Types[i].params[k] \in S) => i \in S
  PROVE  DOMAIN Types \subseteq S
  <1> DEFINE T == {n \in Nat : \A i \in DOMAIN Types : i < n => i \in S}
  <1>0. \A i \in DOMAIN Types : i \in Nat
    BY TypeFields
  <1>1. 0 \in T
    BY <1>0
  <1>2. ASSUME NEW n \in Nat, n \in T PROVE n + 1 \in T
    <2> SUFFICES ASSUME NEW i \in DOMAIN Types, i < n + 1 PROVE i \in S
      OBVIOUS
    <2>1. ASSUME NEW k \in DOMAIN Types[i].params PROVE Types[i].params[k] \in S
      <3>1. Types[i].params[k] \in 1 .. i - 1 /\ Types[i].params[k] \in DOMAIN Types
        BY TypeFields
      <3>2. Types[i].params[k] < n
        BY <1>0, <3>1
      <3> QED
        BY <1>2, <3>1, <3>2
    <2> QED
      BY <2>1
  <1>3. Nat \subseteq T
    <2> HIDE DEF T
    <2> QED
      BY <1>1, <1>2, NaturalsByInduction
  <1>4. ASSUME NEW i \in DOMAIN Types PROVE i \in S
    <2>1. i + 1 \in T /\ i < i + 1
      BY <1>0, <1>3
    <2> QED
      BY <2>1
  <1> QED
    BY <1>4

\* What the author of a type means, without the types it is made of.
OwnFacts(t) ==
  << Fact("TypeTag", t.tag) >>
    \o (IF t.tag = "struct" THEN << Fact("address", t.address), Fact("tag_module", t.module),
                                    Fact("tag_name", t.name) >>
        ELSE << >>)

\* These are facts.
LEMMA OwnFactsFacts ==
  ASSUME NEW i \in DOMAIN Types
  PROVE  OwnFacts(Types[i]) \in Seq(Facts)
  <1> DEFINE t == Types[i]
             a == << Fact("TypeTag", t.tag) >>
             n == << Fact("address", t.address), Fact("tag_module", t.module), Fact("tag_name", t.name) >>
             b == IF t.tag = "struct" THEN n ELSE << >>
  <1>1. /\ t.tag \in {"bool", "u8", "vector", "struct"}
        /\ t.address \in Seq(Nat) /\ t.module \in Seq(Nat) /\ t.name \in Seq(Nat)
    BY TypeFields
  <1> HIDE DEF t
  <1>2. t.tag \in Words /\ "TypeTag" \in Words /\ "address" \in Words /\ "tag_module" \in Words /\ "tag_name" \in Words
    BY <1>1, ZenonT(60) DEF Words
  <1>3. \A role \in Words, meant \in Data \cup Words : Fact(role, meant) \in Facts
    BY DEF Fact, Facts
  <1>4. t.address \in Data /\ t.module \in Data /\ t.name \in Data
    BY <1>1 DEF Data
  <1>5. Fact("TypeTag", t.tag) \in Facts /\ Fact("address", t.address) \in Facts
        /\ Fact("tag_module", t.module) \in Facts /\ Fact("tag_name", t.name) \in Facts
    BY <1>2, <1>3, <1>4
  <1>6. a \in Seq(Facts) /\ n \in Seq(Facts) /\ << >> \in Seq(Facts)
    BY <1>5, EmptySeq
  <1>7. b \in Seq(Facts)
    BY <1>6
  <1>8. OwnFacts(t) = a \o b
    BY DEF OwnFacts
  <1> HIDE DEF a, b
  <1>9. OwnFacts(t) \in Seq(Facts)
    BY <1>6, <1>7, <1>8, ConcatProperties
  <1> QED
    BY <1>9 DEF t

\* The facts of a type: its own, then those of the types it is made of.
LEMMA TypeFactsRecursion ==
  ASSUME NEW i \in DOMAIN Types
  PROVE  /\ TypeFacts(i) = OwnFacts(Types[i])
                             \o FlattenSeq([k \in DOMAIN Types[i].params |-> TypeFacts(Types[i].params[k])])
         /\ TypeFacts(i) \in Seq(Facts)
  <1> DEFINE D == DOMAIN Types
             X == Seq(Facts)
             step == [p \in D \X Seq(X) |-> OwnFacts(Types[p[1]]) \o FlattenSeq(p[2])]
             Rec(f, j) == OwnFacts(Types[j]) \o FlattenSeq([k \in DOMAIN Types[j].params |-> f[Types[j].params[k]]])
             Eq(f) == f = [j \in DOMAIN Types |-> LET t == Types[j] IN
                 << Fact("TypeTag", t.tag) >>
                   \o (IF t.tag = "struct" THEN << Fact("address", t.address), Fact("tag_module", t.module),
                                                   Fact("tag_name", t.name) >>
                       ELSE << >>)
                   \o FlattenSeq([k \in DOMAIN t.params |-> f[t.params[k]]])]
             F == CHOOSE f : Eq(f)
  <1>1. \A j \in D : /\ DOMAIN Types[j].params = 1 .. Len(Types[j].params) /\ Len(Types[j].params) \in Nat
                     /\ \A k \in DOMAIN Types[j].params : Types[j].params[k] \in D
    BY TypeFields
  <1>2. ASSUME NEW j \in D, NEW g \in [DOMAIN Types[j].params -> X]
        PROVE  step[<<j, g>>] = OwnFacts(Types[j]) \o FlattenSeq(g) /\ step[<<j, g>>] \in X
    <2>1. g \in Seq(X)
      <3> DEFINE n == Len(Types[j].params)
      <3>1. n \in Nat /\ g \in [1 .. n -> X]
        BY <1>1
      <3> HIDE DEF n, X
      <3> QED
        BY ONLY <3>1 DEF Seq
    <2>2. step[<<j, g>>] = OwnFacts(Types[j]) \o FlattenSeq(g)
      BY <2>1
    <2> HIDE DEF step
    <2>3. OwnFacts(Types[j]) \in Seq(Facts)
      BY OwnFactsFacts
    <2>4. Len(Types[j].params) \in Nat /\ g \in [1 .. Len(Types[j].params) -> X]
      BY <1>1
    <2>5. FlattenSeq(g) \in Seq(Facts)
      BY <2>4, FlattenInSeq
    <2>6. OwnFacts(Types[j]) \o FlattenSeq(g) \in Seq(Facts)
      BY <2>3, <2>5, ConcatProperties
    <2> QED
      BY <2>2, <2>6
  <1> HIDE DEF step
  <1>3. Branches(D, X, Places, Params, step)
    <2>1. \A j \in DOMAIN Types : \A g \in [DOMAIN Types[j].params -> X] : step[<<j, g>>] \in X
      BY <1>2, Zenon
    <2> HIDE DEF X
    <2> QED
      BY <2>1, TableBranches
  <1>4. PICK f \in [D -> X] : Answers(f, D, Params, step)
    <2> HIDE DEF D, X, Eq, F
    <2> QED
      BY <1>3, RecursionOnParts
  <1>5. \A j \in D : f[j] = Rec(f, j)
    <2> SUFFICES ASSUME NEW j \in D PROVE f[j] = Rec(f, j)
      OBVIOUS
    <2> DEFINE g == [k \in DOMAIN Types[j].params |-> f[Types[j].params[k]]]
    <2>1. Params[j] = Types[j].params
      BY DEF Params
    <2>2. [k \in DOMAIN Params[j] |-> f[Params[j][k]]] = g
      BY <2>1
    <2>3. g \in [DOMAIN Types[j].params -> X]
      BY <1>1, <1>4
    <2>4. f[j] = step[<<j, g>>]
      BY <1>4, <2>2, Zenon DEF Answers
    <2>5. Rec(f, j) = OwnFacts(Types[j]) \o FlattenSeq(g)
      OBVIOUS
    <2> HIDE DEF g, Rec
    <2> QED
      BY <1>2, <2>3, <2>4, <2>5
  <1>6. Eq(f)
    <2>1. f = [j \in D |-> Rec(f, j)]
      BY <1>4, <1>5
    <2> QED
      BY <2>1, Zenon DEF OwnFacts
  <1>7. Eq(F)
    <2> HIDE DEF Eq
    <2> QED
      BY <1>6
  <1>8. \A j : TypeFacts(j) = F[j]
    BY DEF TypeFacts
  <1> HIDE DEF F
  <1>9. F = [j \in D |-> Rec(F, j)]
    BY <1>7, Zenon DEF OwnFacts
  <1>10. \A j \in D : F[j] = Rec(F, j)
    <2> HIDE <1>7
    <2> HIDE DEF Rec
    <2> QED
      BY <1>9
  <1> DEFINE S == {j \in D : F[j] = f[j]}
  <1>11. ASSUME NEW j \in DOMAIN Types, \A k \in DOMAIN Types[j].params : Types[j].params[k] \in S PROVE j \in S
    <2>1. \A k \in DOMAIN Types[j].params : F[Types[j].params[k]] = f[Types[j].params[k]]
      BY <1>11
    <2>2. Rec(F, j) = Rec(f, j)
      BY <2>1
    <2> HIDE DEF Rec
    <2> QED
      BY <1>5, <1>10, <2>2
  <1>12. DOMAIN Types \subseteq S
    <2> HIDE DEF S
    <2> QED
      BY <1>11, TableInduction
  <1>13. F[i] \in Seq(Facts)
    BY <1>4, <1>12
  <1>14. TypeFacts(i) = Rec(F, i) /\ \A j : F[j] = TypeFacts(j)
    BY <1>8, <1>10
  <1> QED
    BY <1>8, <1>13, <1>14

\* A list begins with a comma.
LEMMA ListedFacts ==
  ASSUME NEW n \in Nat \ {0}, NEW texts, \A k \in 1 .. n : texts[k] \in Seq(Nat), NEW pad \in Seq({Space})
  PROVE  /\ Tail(Listed(texts, pad, n)) \in Seq(Nat)
         /\ \A k \in 1 .. n : << Comma >> \o pad \o texts[k] \o pad = << Comma >> \o (pad \o texts[k] \o pad)
         /\ \A k \in 1 .. n : pad \o texts[k] \o pad \in Seq(Nat)
  <1> DEFINE Item(k) == << Comma >> \o pad \o texts[k] \o pad
             Body(k) == pad \o texts[k] \o pad
             ss == [k \in 1 .. n |-> Item(k)]
  <1>1. << Comma >> \in Seq(Nat) /\ pad \in Seq(Nat) /\ Comma \in Nat
    <2>1. Comma \in Nat /\ {Space} \subseteq Nat
      BY MarksDiffer
    <2> QED
      BY <2>1, SeqMonotonic
  <1>2. Associates(Nat)
    BY Associative
  <1>3. ASSUME NEW k \in 1 .. n PROVE Item(k) = << Comma >> \o Body(k) /\ Body(k) \in Seq(Nat)
    <2> DEFINE c == << Comma >>
               w == texts[k]
    <2>1. c \in Seq(Nat) /\ w \in Seq(Nat)
      BY <1>1
    <2> HIDE DEF c, w
    <2>2. pad \o w \in Seq(Nat) /\ (pad \o w) \o pad \in Seq(Nat)
      BY <1>1, <2>1, ConcatProperties
    <2>3. (c \o pad) \o w = c \o (pad \o w)
      BY <1>1, <1>2, <2>1, ZenonT(40) DEF Associates
    <2>4. (c \o (pad \o w)) \o pad = c \o ((pad \o w) \o pad)
      BY <1>1, <1>2, <2>1, <2>2, ZenonT(40) DEF Associates
    <2> QED
      BY <2>2, <2>3, <2>4 DEF c, w
  <1>4. \A k \in 1 .. n : Item(k) \in Seq(Nat)
    <2> SUFFICES ASSUME NEW k \in 1 .. n PROVE Item(k) \in Seq(Nat)
      OBVIOUS
    <2>1. Item(k) = << Comma >> \o Body(k) /\ Body(k) \in Seq(Nat)
      BY <1>3
    <2> HIDE DEF Item, Body
    <2>2. << Comma >> \o Body(k) \in Seq(Nat)
      BY <1>1, <2>1, ConcatProperties
    <2> QED
      BY <2>1, <2>2
  <1>a. Listed(texts, pad, n) = FlattenSeq(ss)
    BY DEF Listed
  <1>b. \A k \in 1 .. n : ss[k] = Item(k)
    OBVIOUS
  <1> HIDE DEF Item, Body
  <1>5. ss \in [1 .. n -> Seq(Nat)]
    BY <1>4
  <1> HIDE DEF ss
  <1> DEFINE m == n - 1
  <1>6. m \in Nat /\ m + 1 = n /\ 1 \in 1 .. n
    OBVIOUS
  <1>c. \A k \in 1 .. m : k + 1 \in 1 .. n
    BY <1>6
  <1> HIDE DEF m
  <1> DEFINE r == FlattenSeq([k \in 1 .. m |-> ss[k + 1]])
  <1>d. ss \in [1 .. m + 1 -> Seq(Nat)]
    BY <1>5, <1>6
  <1>7. FlattenSeq(ss) = ss[1] \o r
    <2>1. FlattenSeq(ss) = ss[1] \o FlattenSeq([k \in 1 .. m |-> ss[k + 1]])
      BY <1>6, <1>d, FlattenFirst, ZenonT(60)
    <2> QED
      BY <2>1
  <1>8. r \in Seq(Nat)
    <2> DEFINE tt == [k \in 1 .. m |-> ss[k + 1]]
    <2>1. tt \in [1 .. m -> Seq(Nat)]
      BY <1>5, <1>c
    <2> HIDE DEF tt
    <2>2. FlattenSeq(tt) \in Seq(Nat)
      BY <1>6, <2>1, FlattenInSeq
    <2> QED
      BY <2>2 DEF tt
  <1> HIDE DEF r
  <1> DEFINE b == Body(1)
             c == << Comma >>
  <1>9. ss[1] = c \o b /\ b \in Seq(Nat) /\ c \in Seq(Nat)
    BY <1>1, <1>3, <1>6, <1>b
  <1> HIDE DEF b, c
  <1>10. (c \o b) \o r = c \o (b \o r)
    BY <1>2, <1>8, <1>9, ZenonT(40) DEF Associates
  <1>11. b \o r \in Seq(Nat)
    BY <1>8, <1>9, ConcatProperties
  <1> DEFINE j == b \o r
  <1>12. j \in Seq(Nat) /\ FlattenSeq(ss) = << Comma >> \o j
    BY <1>7, <1>9, <1>10, <1>11 DEF c
  <1> HIDE DEF j
  <1>13. Tail(<< Comma >> \o j) = j
    BY <1>1, <1>12, HeadOfOne
  <1>14. Tail(Listed(texts, pad, n)) \in Seq(Nat)
    BY <1>12, <1>13, <1>a
  <1> QED
    BY <1>3, <1>14 DEF Item, Body

\* What a struct is written with, before the types it is made of.
StructBase(t) == t.address \o << Colons >> \o t.module \o << Colons >> \o t.name

\* How a type is written is a text.
LEMMA WrittenOfFacts ==
  ASSUME NEW i \in DOMAIN Types, NEW texts \in [DOMAIN Types[i].params -> Seq(Nat)]
  PROVE  WrittenOf(Types[i], texts) \in Seq(Nat)
  <1> DEFINE t == Types[i]
             n == Len(t.params)
  <1>1. /\ t.tag \in {"bool", "u8", "vector", "struct"}
        /\ t.address \in Seq(Nat) /\ t.module \in Seq(Nat) /\ t.name \in Seq(Nat) /\ t.pad \in Seq({Space})
        /\ n \in Nat /\ DOMAIN t.params = 1 .. n /\ t.params \in Seq(Nat)
        /\ t.tag = "vector" => n = 1
    BY TypeFields
  <1>2. texts \in [1 .. n -> Seq(Nat)]
    BY <1>1
  <1> HIDE DEF t, n
  <1>3. /\ << Bool >> \in Seq(Nat) /\ << U8 >> \in Seq(Nat) /\ << Vector, Less >> \in Seq(Nat)
        /\ << Colons >> \in Seq(Nat) /\ << Less >> \in Seq(Nat) /\ << Greater >> \in Seq(Nat)
        /\ << >> \in Seq(Nat)
    <2>1. Bool \in Nat /\ U8 \in Nat /\ Vector \in Nat /\ Less \in Nat /\ Colons \in Nat /\ Greater \in Nat
      BY MarksDiffer
    <2> QED
      BY <2>1
  <1> DEFINE Joined(a, b) == a \o b
  <1>4. \A a, b \in Seq(Nat) : a \o b \in Seq(Nat)
    BY ConcatProperties
  <1>5. CASE t.tag = "bool"
    BY <1>3, <1>5 DEF WrittenOf, t
  <1>6. CASE t.tag = "u8"
    BY <1>3, <1>6 DEF WrittenOf, t
  <1>7. CASE t.tag = "vector"
    <2>1. texts[1] \in Seq(Nat)
      BY <1>1, <1>2, <1>7
    <2> DEFINE a == << Vector, Less >>
               b == texts[1]
               c == << Greater >>
    <2>2. WrittenOf(t, texts) = (a \o b) \o c
      BY <1>7 DEF WrittenOf
    <2>3. a \in Seq(Nat) /\ b \in Seq(Nat) /\ c \in Seq(Nat)
      BY <1>3, <2>1
    <2> HIDE DEF a, b, c
    <2>4. (a \o b) \o c \in Seq(Nat)
      BY <1>4, <2>3
    <2> QED
      BY <2>2, <2>4 DEF t
  <1>8. CASE t.tag = "struct"
    <2> DEFINE l == Tail(Listed(texts, t.pad, n))
               rest == IF t.params = << >> THEN << >> ELSE << Less >> \o l \o << Greater >>
    <2>1. WrittenOf(t, texts) = StructBase(t) \o rest
      BY <1>8 DEF WrittenOf, StructBase, n
    <2>2. StructBase(t) \in Seq(Nat)
      BY <1>1, <1>3, <1>4 DEF StructBase
    <2>3. t.params # << >> => n \in Nat \ {0}
      BY <1>1, EmptySeq DEF n
    <2>4. t.params # << >> => l \in Seq(Nat)
      <3> SUFFICES ASSUME t.params # << >> PROVE l \in Seq(Nat)
        OBVIOUS
      <3> DEFINE pad == t.pad
      <3>1. n \in Nat \ {0} /\ pad \in Seq({Space}) /\ \A k \in 1 .. n : texts[k] \in Seq(Nat)
        BY <1>1, <1>2, <2>3
      <3> HIDE DEF pad
      <3>2. Tail(Listed(texts, pad, n)) \in Seq(Nat)
        BY <3>1, ListedFacts
      <3> QED
        BY <3>2 DEF pad
    <2> HIDE DEF l
    <2>5. rest \in Seq(Nat)
      BY <1>3, <1>4, <2>4
    <2> HIDE DEF rest
    <2>6. StructBase(t) \o rest \in Seq(Nat)
      BY <1>4, <2>2, <2>5
    <2> QED
      BY <2>1, <2>6 DEF t
  <1> QED
    BY <1>1, <1>5, <1>6, <1>7, <1>8

\* How a type is written, from how the types it is made of are.
LEMMA WrittenRecursion ==
  ASSUME NEW i \in DOMAIN Types
  PROVE  /\ Written(i) = WrittenOf(Types[i], [k \in DOMAIN Types[i].params |-> Written(Types[i].params[k])])
         /\ Written(i) \in Seq(Nat)
  <1> DEFINE D == DOMAIN Types
             X == Seq(Nat)
             step == [p \in D \X Seq(X) |-> WrittenOf(Types[p[1]], p[2])]
             Rec(f, j) == WrittenOf(Types[j], [k \in DOMAIN Types[j].params |-> f[Types[j].params[k]]])
             Eq(f) == f = [j \in DOMAIN Types |->
                             WrittenOf(Types[j], [k \in DOMAIN Types[j].params |-> f[Types[j].params[k]]])]
             F == CHOOSE f : Eq(f)
  <1>1. \A j \in D : /\ DOMAIN Types[j].params = 1 .. Len(Types[j].params) /\ Len(Types[j].params) \in Nat
                     /\ \A k \in DOMAIN Types[j].params : Types[j].params[k] \in D
                     /\ Types[j].tag = "vector" => 1 \in DOMAIN Types[j].params
                     /\ Types[j].tag \in {"bool", "u8", "vector", "struct"}
    BY TypeFields
  <1>2. ASSUME NEW j \in D, NEW g \in [DOMAIN Types[j].params -> X]
        PROVE  step[<<j, g>>] = WrittenOf(Types[j], g) /\ step[<<j, g>>] \in X
    <2>1. g \in Seq(X)
      <3> DEFINE n == Len(Types[j].params)
      <3>1. n \in Nat /\ g \in [1 .. n -> X]
        BY <1>1
      <3> HIDE DEF n, X
      <3> QED
        BY ONLY <3>1 DEF Seq
    <2>2. step[<<j, g>>] = WrittenOf(Types[j], g)
      BY <2>1
    <2> HIDE DEF step
    <2>3. WrittenOf(Types[j], g) \in Seq(Nat)
      BY WrittenOfFacts
    <2> QED
      BY <2>2, <2>3
  <1> HIDE DEF step
  <1>3. Branches(D, X, Places, Params, step)
    <2>1. \A j \in DOMAIN Types : \A g \in [DOMAIN Types[j].params -> X] : step[<<j, g>>] \in X
      BY <1>2, Zenon
    <2> HIDE DEF X
    <2> QED
      BY <2>1, TableBranches
  <1>4. PICK f \in [D -> X] : Answers(f, D, Params, step)
    <2> HIDE DEF D, X, Eq, F
    <2> QED
      BY <1>3, RecursionOnParts
  <1>5. \A j \in D : f[j] = Rec(f, j)
    <2> SUFFICES ASSUME NEW j \in D PROVE f[j] = Rec(f, j)
      OBVIOUS
    <2> DEFINE g == [k \in DOMAIN Types[j].params |-> f[Types[j].params[k]]]
    <2>1. Params[j] = Types[j].params
      BY DEF Params
    <2>2. [k \in DOMAIN Params[j] |-> f[Params[j][k]]] = g
      BY <2>1
    <2>3. g \in [DOMAIN Types[j].params -> X]
      BY <1>1, <1>4
    <2>4. f[j] = step[<<j, g>>]
      BY <1>4, <2>2 DEF Answers
    <2>5. Rec(f, j) = WrittenOf(Types[j], g)
      OBVIOUS
    <2> HIDE DEF g, Rec
    <2> QED
      BY <1>2, <2>3, <2>4, <2>5
  <1>6. Eq(f)
    <2>1. f = [j \in D |-> Rec(f, j)]
      <3> HIDE DEF Rec
      <3> QED
        BY <1>4, <1>5
    <2> QED
      BY <2>1
  <1>7. Eq(F)
    <2> HIDE DEF Eq
    <2> QED
      BY <1>6
  <1>8. \A j : Written(j) = F[j]
    BY DEF Written
  <1> HIDE DEF F
  <1>9. F = [j \in D |-> Rec(F, j)]
    BY <1>7
  <1>10. \A j \in D : F[j] = Rec(F, j)
    <2> HIDE <1>7
    <2> HIDE DEF Rec
    <2> QED
      BY <1>9
  <1> DEFINE S == {j \in D : F[j] = f[j]}
  <1>11. ASSUME NEW j \in DOMAIN Types, \A k \in DOMAIN Types[j].params : Types[j].params[k] \in S PROVE j \in S
    <2>1. \A k \in DOMAIN Types[j].params : F[Types[j].params[k]] = f[Types[j].params[k]]
      BY <1>11
    <2>2. Rec(F, j) = Rec(f, j)
      BY <2>1
    <2> HIDE DEF Rec
    <2> QED
      BY <1>5, <1>10, <2>2
  <1>12. DOMAIN Types \subseteq S
    <2> HIDE DEF S
    <2> QED
      BY <1>11, TableInduction
  <1>13. F[i] \in Seq(Nat)
    BY <1>4, <1>12
  <1>14. Written(i) = Rec(F, i) /\ \A j : F[j] = Written(j)
    BY <1>8, <1>10
  <1> QED
    BY <1>8, <1>13, <1>14

-----------------------------------------------------------------------------
(* How the types of the table are written. *)

\* The text of a type: its brackets match, its commas are inside them, no white space around it.
TypeText(w) == Balanced(w) /\ Uncut(w) /\ w # << >> /\ w[1] # Space /\ Last(w) # Space

\* The places at which split_generic_params cuts.
Commas(s) == {i \in DOMAIN s : s[i] = Comma /\ Depth(s, i) = 0}

\* White space around the text of a type does not open or cut it.
LEMMA PaddedText ==
  ASSUME NEW w, TypeText(w), NEW pad \in Seq({Space})
  PROVE  LET b == (pad \o w) \o pad
         IN  Balanced(b) /\ Uncut(b) /\ b # << >> /\ Strip(b) = w
  <1>1. /\ w \in Seq(Nat) /\ Balanced(w) /\ Uncut(w) /\ w # << >> /\ w[1] # Space /\ Last(w) # Space
    BY DEF TypeText, Balanced
  <1>2. Space \in Nat /\ Space \notin {Less, Greater, Comma}
    BY MarksDiffer
  <1>3. pad \in Seq(Nat) /\ \A i \in 1 .. Len(pad) : pad[i] = Space
    <2>1. {Space} \subseteq Nat
      BY <1>2
    <2>2. \A i \in 1 .. Len(pad) : pad[i] \in {Space}
      BY LenProperties
    <2> QED
      BY <2>1, <2>2, SeqMonotonic
  <1>4. Balanced(pad)
    BY <1>2, <1>3, NoBrackets
  <1>5. Uncut(pad)
    BY <1>2, <1>3 DEF Uncut
  <1> DEFINE a == pad \o w
             b == a \o pad
  <1>6. Balanced(a) /\ Uncut(a)
    BY <1>1, <1>4, <1>5, BalancedConcat, UncutConcat
  <1>7. Len(b) = (Len(pad) + Len(w)) + Len(pad) /\ Len(pad) \in Nat /\ Len(w) \in Nat /\ Len(w) # 0
    <2>1. a \in Seq(Nat) /\ Len(a) = Len(pad) + Len(w)
      BY <1>1, <1>3, ConcatProperties
    <2> HIDE DEF a
    <2>2. Len(b) = Len(a) + Len(pad)
      BY <1>3, <2>1, ConcatProperties
    <2>3. Len(pad) \in Nat /\ Len(w) \in Nat /\ (Len(w) = 0 => w = << >>)
      BY <1>1, <1>3, LenProperties, EmptySeq
    <2> HIDE DEF b
    <2> QED
      BY <1>1, <2>1, <2>2, <2>3
  <1> HIDE DEF a
  <1>8. Balanced(b) /\ Uncut(b)
    BY <1>4, <1>5, <1>6, BalancedConcat, UncutConcat
  <1>9. b # << >>
    <2> HIDE DEF b
    <2>1. Len(<< >>) = 0
      OBVIOUS
    <2>2. Len(b) # 0
      BY <1>7
    <2> QED
      BY <2>1, <2>2
  <1>10. Strip((pad \o w) \o pad) = w
    BY <1>1, StripPadded
  <1> QED
    BY <1>8, <1>9, <1>10 DEF a

\* A list of texts is cut after its last comma.
LEMMA CutAfter ==
  ASSUME NEW a, NEW b, Balanced(a), Balanced(b), Uncut(b)
  PROVE  LET s == Append(a, Comma) \o b
         IN  Balanced(s) /\ Pieces(s, Commas(s)) = Append(Pieces(a, Commas(a)), b)
  <1> DEFINE c == << Comma >>
             ac == Append(a, Comma)
             s == ac \o b
             n == Len(a)
  <1>1. a \in Seq(Nat) /\ b \in Seq(Nat) /\ Comma \in Nat /\ c \in Seq(Nat) /\ Len(c) = 1 /\ c[1] = Comma
    <2>1. Comma \in Nat
      BY MarksDiffer
    <2> QED
      BY <2>1 DEF Balanced
  <1>2. Balanced(c)
    <2>1. Comma \notin {Less, Greater}
      BY MarksDiffer
    <2>2. \A i \in 1 .. Len(c) : c[i] \notin {Less, Greater}
      BY <1>1, <2>1
    <2> HIDE DEF c
    <2> QED
      BY <1>1, <2>2, NoBrackets
  <1>3. ac = a \o c
    BY <1>1, AppendIsConcat
  <1> HIDE DEF c
  <1>4. Balanced(ac) /\ ac \in Seq(Nat) /\ Len(ac) = n + 1 /\ ac[n + 1] = Comma /\ n \in Nat
        /\ \A k \in 1 .. n : ac[k] = a[k]
    BY <1>1, <1>2, <1>3, BalancedConcat, AppendProperties, LenProperties
  <1>5. \A i \in 1 .. n + 1 : Depth(ac, i) = Depth(a, i)
    BY <1>1, <1>3, DepthConcat
  <1> HIDE DEF ac
  <1>6. Balanced(s) /\ s \in Seq(Nat) /\ Len(s) = (n + 1) + Len(b) /\ Len(b) \in Nat
    <2>1. Balanced(s)
      BY <1>1, <1>4, BalancedConcat
    <2>2. s \in Seq(Nat) /\ Len(s) = Len(ac) + Len(b)
      BY <1>1, <1>4, ConcatProperties
    <2>3. Len(b) \in Nat
      BY <1>1, LenProperties
    <2> QED
      BY <1>4, <2>1, <2>2, <2>3
  <1>7. \A i \in 1 .. Len(ac) + Len(b) : s[i] = IF i <= Len(ac) THEN ac[i] ELSE b[i - Len(ac)]
    BY <1>1, <1>4, ConcatProperties
  <1>8. /\ \A i \in 1 .. Len(ac) + 1 : Depth(s, i) = Depth(ac, i)
        /\ \A j \in 1 .. Len(b) + 1 : Depth(s, Len(ac) + j) = Depth(ac, Len(ac) + 1) + Depth(b, j)
    BY <1>1, <1>4, DepthConcat
  <1>9. DOMAIN s = 1 .. (n + 1) + Len(b)
    BY <1>6, LenProperties
  <1> HIDE DEF s
  <1> DEFINE P == Commas(s)
  <1>10. n + 1 \in P
    <2>1. n + 1 \in DOMAIN s /\ n + 1 \in 1 .. Len(ac) + 1 /\ n + 1 \in 1 .. n + 1 /\ n + 1 <= Len(ac)
          /\ n + 1 \in 1 .. Len(ac) + Len(b)
      BY <1>4, <1>6, <1>9
    <2>2. s[n + 1] = Comma
      BY <1>4, <1>7, <2>1
    <2>3. Depth(s, n + 1) = 0
      BY <1>5, <1>8, <2>1 DEF Balanced
    <2> QED
      BY <2>1, <2>2, <2>3 DEF Commas
  <1>11. ASSUME NEW k \in 1 .. Len(b) PROVE n + 1 + k \notin P
    <2>1. /\ n + 1 + k \in 1 .. Len(ac) + Len(b) /\ ~(n + 1 + k <= Len(ac)) /\ (n + 1 + k) - Len(ac) = k
          /\ k \in 1 .. Len(b) + 1 /\ Len(ac) + k = n + 1 + k
      BY <1>4, <1>6
    <2>2. s[n + 1 + k] = b[k]
      BY <1>7, <2>1
    <2>3. Depth(ac, Len(ac) + 1) = 0
      BY <1>4 DEF Balanced
    <2>4. Depth(b, k) \in Int
      BY <1>1, <2>1, DepthRecursion DEF DepthsOf
    <2>5. Depth(s, n + 1 + k) = Depth(b, k)
      BY <1>8, <2>1, <2>3, <2>4
    <2>6. b[k] = Comma => Depth(b, k) > 0
      BY DEF Uncut
    <2> QED
      BY <2>2, <2>4, <2>5, <2>6 DEF Commas
  <1>12. ASSUME NEW k \in 1 .. n PROVE k \in P <=> k \in Commas(a)
    <2>1. /\ k \in 1 .. Len(ac) + Len(b) /\ k <= Len(ac) /\ k \in 1 .. Len(ac) + 1 /\ k \in 1 .. n + 1
          /\ k \in DOMAIN s
      BY <1>4, <1>6, <1>9
    <2>2. s[k] = a[k] /\ Depth(s, k) = Depth(a, k)
      BY <1>4, <1>5, <1>7, <1>8, <2>1
    <2>3. k \in DOMAIN a
      BY <1>1, LenProperties
    <2> QED
      BY <2>1, <2>2, <2>3 DEF Commas
  <1> HIDE DEF P
  <1>13. Pieces(Append(a, Comma) \o b, P) = Append(Pieces(a, P), b)
    BY <1>1, <1>10, <1>11, PiecesCut
  <1>14. Pieces(a, P) = Pieces(a, Commas(a))
    BY <1>1, <1>12, PiecesAgree
  <1> QED
    BY <1>6, <1>13, <1>14 DEF P, s, ac

\* A text without a comma of its own is not cut.
LEMMA NotCut ==
  ASSUME NEW b, Balanced(b), Uncut(b)
  PROVE  Pieces(b, Commas(b)) = << b >>
  <1>1. b \in Seq(Nat)
    BY DEF Balanced
  <1>2. ASSUME NEW k \in 1 .. Len(b) PROVE k \notin Commas(b)
    <2>1. b[k] = Comma => Depth(b, k) > 0
      BY DEF Uncut
    <2> QED
      BY <2>1 DEF Commas
  <1> QED
    BY <1>1, <1>2, PiecesUncut

\* The list of the first k texts, each padded, begins with a comma and is cut into them.
ListCut(texts, pad, k) ==
  \E j : /\ Listed(texts, pad, k) = << Comma >> \o j
         /\ Balanced(j) /\ j # << >>
         /\ Pieces(j, Commas(j)) = [i \in 1 .. k |-> (pad \o texts[i]) \o pad]

\* A list with one text more ends with it.
LEMMA ListedAppend ==
  ASSUME NEW texts, NEW pad \in Seq({Space}), NEW k \in Nat,
         \A i \in 1 .. k + 1 : texts[i] \in Seq(Nat)
  PROVE  LET b == (pad \o texts[k + 1]) \o pad
         IN  Listed(texts, pad, k + 1) = Listed(texts, pad, k) \o (<< Comma >> \o b)
  <1> DEFINE Item(i) == << Comma >> \o pad \o texts[i] \o pad
             Body(i) == (pad \o texts[i]) \o pad
             ss == [i \in 1 .. k + 1 |-> Item(i)]
             l == Listed(texts, pad, k)
  <1>1. ASSUME NEW i \in 1 .. k + 1 PROVE Item(i) = << Comma >> \o Body(i) /\ Item(i) \in Seq(Nat)
    <2> DEFINE n == k + 1
    <2>1. n \in Nat \ {0} /\ \A m \in 1 .. n : texts[m] \in Seq(Nat)
      OBVIOUS
    <2>2. i \in 1 .. n
      OBVIOUS
    <2> HIDE DEF n
    <2>3. Item(i) = << Comma >> \o Body(i) /\ Body(i) \in Seq(Nat)
      <3>1. \A m \in 1 .. n : texts[m] \in Seq(Nat)
        BY <2>1
      <3>2. /\ Tail(Listed(texts, pad, n)) \in Seq(Nat)
            /\ \A m \in 1 .. n : << Comma >> \o pad \o texts[m] \o pad = << Comma >> \o (pad \o texts[m] \o pad)
            /\ \A m \in 1 .. n : pad \o texts[m] \o pad \in Seq(Nat)
        <4>1. n \in Nat \ {0} /\ pad \in Seq({Space})
          BY <2>1
        <4> HIDE DEF Item, ss, l
        <4> QED
          BY ONLY <3>1, <4>1, ListedFacts
      <3> QED
        BY <2>2, <3>2
    <2>4. << Comma >> \in Seq(Nat)
      <3>1. Comma \in Nat
        BY MarksDiffer
      <3> QED
        BY <3>1
    <2> DEFINE c == << Comma >>
               b == Body(i)
    <2>5. c \in Seq(Nat) /\ b \in Seq(Nat) /\ Item(i) = c \o b
      BY <2>3, <2>4
    <2> HIDE DEF c, b, Item
    <2>6. c \o b \in Seq(Nat)
      BY <2>5, ConcatProperties
    <2> QED
      BY <2>5, <2>6 DEF c, b
  <1>2. /\ Listed(texts, pad, k + 1) = FlattenSeq(ss)
        /\ l = FlattenSeq([i \in 1 .. k |-> Item(i)])
    BY DEF Listed
  <1>3. [i \in 1 .. k |-> Item(i)] = [i \in 1 .. k |-> ss[i]] /\ ss[k + 1] = Item(k + 1)
    <2>1. k + 1 \in 1 .. k + 1 /\ \A i \in 1 .. k : i \in 1 .. k + 1
      OBVIOUS
    <2> HIDE DEF Item
    <2> QED
      BY <2>1
  <1>4. ss \in [1 .. k + 1 -> Seq(Nat)]
    <2>1. \A i \in 1 .. k + 1 : Item(i) \in Seq(Nat)
      BY <1>1
    <2> HIDE DEF Item
    <2> QED
      BY <2>1
  <1>5. k + 1 \in 1 .. k + 1
    OBVIOUS
  <1> HIDE DEF Item, ss, l
  <1>6. FlattenSeq(ss) = FlattenSeq([i \in 1 .. k |-> ss[i]]) \o ss[k + 1]
    BY <1>4, FlattenAppend
  <1>7. FlattenSeq(ss) = l \o Item(k + 1)
    BY <1>2, <1>3, <1>6
  <1>8. Item(k + 1) = << Comma >> \o Body(k + 1)
    BY <1>1, <1>5
  <1> QED
    BY <1>2, <1>7, <1>8 DEF l

\* The cut of a list, however long.
LEMMA ListPieces ==
  ASSUME NEW n \in Nat \ {0}, NEW texts, \A i \in 1 .. n : TypeText(texts[i]), NEW pad \in Seq({Space})
  PROVE  ListCut(texts, pad, n)
  <1> DEFINE Body(i) == (pad \o texts[i]) \o pad
             S == {k \in 1 .. n : ListCut(texts, pad, k)}
  <1>1. ASSUME NEW i \in 1 .. n
        PROVE  texts[i] \in Seq(Nat) /\ Balanced(Body(i)) /\ Uncut(Body(i)) /\ Body(i) # << >> /\ Body(i) \in Seq(Nat)
    <2>1. TypeText(texts[i])
      OBVIOUS
    <2>2. Balanced(Body(i)) /\ Uncut(Body(i)) /\ Body(i) # << >>
      BY <2>1, PaddedText
    <2>3. texts[i] \in Seq(Nat) /\ Body(i) \in Seq(Nat)
      BY <2>1, <2>2 DEF TypeText, Balanced
    <2> QED
      BY <2>2, <2>3
  <1> DEFINE c == << Comma >>
  <1>2. Comma \in Nat /\ c \in Seq(Nat)
    <2>1. Comma \in Nat
      BY MarksDiffer
    <2> QED
      BY <2>1
  <1>3. 1 \in S
    <2> DEFINE b == Body(1)
    <2>1. 1 \in 1 .. n /\ 0 + 1 = 1 /\ 0 \in Nat
      OBVIOUS
    <2>2. Balanced(b) /\ Uncut(b) /\ b # << >> /\ b \in Seq(Nat) /\ texts[1] \in Seq(Nat)
      BY <1>1, <2>1
    <2>3. Listed(texts, pad, 0 + 1) = Listed(texts, pad, 0) \o (c \o b)
      <3>1. \A i \in 1 .. 0 + 1 : texts[i] \in Seq(Nat)
        BY <2>2
      <3>2. 0 \in Nat
        OBVIOUS
      <3>3. Listed(texts, pad, 0 + 1) = Listed(texts, pad, 0) \o (<< Comma >> \o ((pad \o texts[0 + 1]) \o pad))
        BY ONLY <3>1, <3>2, pad \in Seq({Space}), ListedAppend
      <3>4. texts[0 + 1] = texts[1]
        BY <2>1
      <3> QED
        BY <3>3, <3>4
    <2>4. Listed(texts, pad, 0) = << >>
      <3>1. [k \in 1 .. 0 |-> << Comma >> \o pad \o texts[k] \o pad] = << >>
        OBVIOUS
      <3> QED
        BY <3>1 DEF Listed, FlattenSeq
    <2>5. Pieces(b, Commas(b)) = << b >>
      BY <2>2, NotCut
    <2>6. << b >> = [i \in 1 .. 1 |-> Body(i)]
      <3>1. \A i \in 1 .. 1 : Body(i) = b
        OBVIOUS
      <3> HIDE DEF Body, b
      <3> QED
        BY <3>1
    <2> HIDE DEF b, c
    <2>7. c \o b \in Seq(Nat)
      BY <1>2, <2>2, ConcatProperties
    <2>8. << >> \o (c \o b) = c \o b
      BY <2>7, ConcatEmptySeq
    <2>9. Listed(texts, pad, 1) = c \o b
      BY <2>1, <2>3, <2>4, <2>8
    <2> QED
      BY <2>1, <2>2, <2>5, <2>6, <2>9 DEF ListCut, c
  <1>4. ASSUME NEW k \in 1 .. n - 1, k \in S PROVE k + 1 \in S
    <2> DEFINE b == Body(k + 1)
    <2>1. k + 1 \in 1 .. n /\ k \in Nat /\ \A i \in 1 .. k + 1 : i \in 1 .. n
      OBVIOUS
    <2>2. Balanced(b) /\ Uncut(b) /\ b # << >> /\ b \in Seq(Nat)
      BY <1>1, <2>1
    <2>3. PICK j : /\ Listed(texts, pad, k) = << Comma >> \o j
                   /\ Balanced(j) /\ j # << >>
                   /\ Pieces(j, Commas(j)) = [i \in 1 .. k |-> (pad \o texts[i]) \o pad]
      BY <1>4 DEF ListCut
    <2>4. Listed(texts, pad, k + 1) = (c \o j) \o (c \o b)
      <3>1. \A i \in 1 .. k + 1 : texts[i] \in Seq(Nat)
        BY <1>1, <2>1
      <3>2. Listed(texts, pad, k + 1) = Listed(texts, pad, k) \o (<< Comma >> \o ((pad \o texts[k + 1]) \o pad))
        BY <2>1, <3>1, ListedAppend
      <3> QED
        BY <2>3, <3>2
    <2> DEFINE s == Append(j, Comma) \o b
    <2>5. Balanced(s) /\ Pieces(s, Commas(s)) = Append(Pieces(j, Commas(j)), b)
      BY <2>2, <2>3, CutAfter
    <2>6. j \in Seq(Nat)
      BY <2>3 DEF Balanced
    <2>7. (c \o j) \o (c \o b) = c \o s /\ s # << >>
      <3>1. Append(j, Comma) = j \o c
        BY <1>2, <2>6, AppendIsConcat
      <3>2. Associates(Nat)
        BY Associative
      <3> HIDE DEF b, c
      <3>3. c \o b \in Seq(Nat) /\ j \o c \in Seq(Nat) /\ Len(j \o c) = Len(j) + Len(c)
        BY <1>2, <2>2, <2>6, ConcatProperties
      <3>4. (c \o j) \o (c \o b) = c \o (j \o (c \o b))
        BY <1>2, <2>6, <3>2, <3>3, ZenonT(40) DEF Associates
      <3>5. (j \o c) \o b = j \o (c \o b)
        BY <1>2, <2>2, <2>6, <3>2, ZenonT(40) DEF Associates
      <3>6. s # << >>
        <4>1. s \in Seq(Nat) /\ Len(s) = Len(j \o c) + Len(b)
          <5>1. s = (j \o c) \o b
            BY <3>1
          <5> DEFINE w == j \o c
          <5>2. w \in Seq(Nat)
            BY <3>3
          <5> HIDE DEF w
          <5>3. w \o b \in Seq(Nat) /\ Len(w \o b) = Len(w) + Len(b)
            BY <2>2, <5>2, ConcatProperties
          <5> QED
            BY <5>1, <5>3 DEF w
        <4>2. Len(b) \in Nat /\ Len(j) \in Nat /\ Len(c) = 1
          BY <2>2, <2>6, LenProperties DEF c
        <4> HIDE DEF s
        <4>3. Len(s) # 0 /\ Len(<< >>) = 0
          BY <3>3, <4>1, <4>2
        <4> QED
          BY <4>3
      <3> QED
        BY <3>1, <3>4, <3>5, <3>6
    <2>8. Append(Pieces(j, Commas(j)), b) = [i \in 1 .. k + 1 |-> Body(i)]
      <3> DEFINE p == [i \in 1 .. k |-> Body(i)]
                 X == Seq(Nat)
      <3>1. p \in Seq(X) /\ Len(p) = k /\ \A i \in 1 .. k : p[i] = Body(i)
        <4>1. \A i \in 1 .. k : Body(i) \in X
          BY <1>1, <2>1
        <4> HIDE DEF Body, X
        <4> QED
          BY <2>1, <4>1
      <3>2. Append(p, b) = [i \in 1 .. k + 1 |-> Body(i)]
        <4> DEFINE q == [i \in 1 .. k + 1 |-> Body(i)]
                   r == Append(p, b)
        <4>1. q \in Seq(X) /\ Len(q) = k + 1 /\ \A i \in 1 .. k + 1 : q[i] = Body(i)
          <5>1. \A i \in 1 .. k + 1 : Body(i) \in X
            BY <1>1, <2>1
          <5> HIDE DEF Body, X
          <5> QED
            BY <2>1, <5>1
        <4>2. r \in Seq(X) /\ Len(r) = k + 1 /\ r[k + 1] = b /\ \A i \in 1 .. k : r[i] = p[i]
          <5>1. b \in X
            BY <2>2
          <5> HIDE DEF p, b, X
          <5> QED
            BY <2>1, <3>1, <5>1, AppendProperties
        <4> HIDE DEF p, q, r, X
        <4>3. \A i \in 1 .. k + 1 : r[i] = q[i]
          <5> SUFFICES ASSUME NEW i \in 1 .. k + 1 PROVE r[i] = q[i]
            OBVIOUS
          <5>1. i \in 1 .. k \/ i = k + 1
            BY <2>1
          <5> HIDE DEF Body
          <5> QED
            BY <3>1, <4>1, <4>2, <5>1 DEF b
        <4>4. r = q
          BY <4>1, <4>2, <4>3, SeqEqual
        <4> QED
          BY <4>4 DEF q, r
      <3> QED
        BY <2>3, <3>2
    <2> HIDE DEF s, b
    <2>9. ListCut(texts, pad, k + 1)
      BY <2>4, <2>5, <2>7, <2>8 DEF ListCut
    <2> QED
      BY <2>1, <2>9
  <1>5. 1 \in Int /\ n \in Int /\ n \in 1 .. n
    OBVIOUS
  <1>6. 1 .. n \subseteq S
    <2> HIDE DEF S
    <2> QED
      BY <1>3, <1>4, <1>5, InductionAlong
  <1> QED
    BY <1>5, <1>6

\* A list of texts is split into them.
LEMMA SplitListed ==
  ASSUME NEW n \in Nat \ {0}, NEW texts, \A i \in 1 .. n : TypeText(texts[i]), NEW pad \in Seq({Space})
  PROVE  LET inner == Tail(Listed(texts, pad, n))
         IN  Balanced(inner) /\ inner # << >> /\ SplitTypeParams(inner) = [i \in 1 .. n |-> texts[i]]
  <1> DEFINE Body(i) == (pad \o texts[i]) \o pad
             p == [i \in 1 .. n |-> Body(i)]
             X == Seq(Nat)
  <1>1. PICK j : /\ Listed(texts, pad, n) = << Comma >> \o j
                 /\ Balanced(j) /\ j # << >>
                 /\ Pieces(j, Commas(j)) = [i \in 1 .. n |-> (pad \o texts[i]) \o pad]
    BY ListPieces, ZenonT(60) DEF ListCut
  <1>2. j \in Seq(Nat) /\ Comma \in Nat
    BY <1>1, MarksDiffer DEF Balanced
  <1>3. Tail(Listed(texts, pad, n)) = j
    BY <1>1, <1>2, HeadOfOne
  <1>4. Pieces(j, Commas(j)) = p /\ p \in Lists
    BY <1>1, <1>2, PiecesAppend, MarksDiffer
  <1>5. \A i \in 1 .. n : p[i] = Body(i)
    OBVIOUS
  <1>6. \A i \in 1 .. n : Strip(Body(i)) = texts[i]
    BY PaddedText
  <1>7. Len(p) = n
    OBVIOUS
  <1> HIDE DEF p, Body
  <1> DEFINE q == StripAll(p)
  <1>8. q \in Lists /\ Len(q) = n /\ \A i \in 1 .. n : q[i] = texts[i]
    BY <1>4, <1>5, <1>6, <1>7, StripAllFacts
  <1>9. SplitTypeParams(j) = IF Last(q) = << >> THEN Front(q) ELSE q
    BY <1>4 DEF SplitTypeParams, Commas
  <1> HIDE DEF q
  <1>10. Last(q) # << >>
    <2>1. Last(q) = q[n] /\ n \in 1 .. n
      BY <1>8 DEF Last
    <2> QED
      BY <1>8, <2>1 DEF TypeText
  <1>11. q = [i \in 1 .. n |-> texts[i]]
    <2>1. DOMAIN q = 1 .. n /\ q = [i \in DOMAIN q |-> q[i]]
      BY <1>8, LenProperties DEF Lists
    <2> QED
      BY <1>8, <2>1
  <1> QED
    BY <1>1, <1>3, <1>9, <1>10, <1>11

\* The two halves of a text.
LEMMA Halves ==
  ASSUME NEW a \in Seq(Nat), NEW b \in Seq(Nat)
  PROVE  /\ SubSeq(a \o b, 1, Len(a)) = a
         /\ SubSeq(a \o b, Len(a) + 1, Len(a \o b)) = b
  <1> DEFINE w == a \o b
             m == Len(a)
             n == Len(b)
  <1>1. /\ w \in Seq(Nat) /\ Len(w) = m + n /\ m \in Nat /\ n \in Nat
        /\ \A i \in 1 .. m + n : w[i] = IF i <= m THEN a[i] ELSE b[i - m]
    BY ConcatProperties, LenProperties
  <1> HIDE DEF w
  <1> DEFINE f == SubSeq(w, 1, m)
             l == SubSeq(w, m + 1, m + n)
  <1>2. 1 \in Nat \ {0} /\ m \in 0 .. Len(w) /\ m + 1 \in Nat \ {0} /\ m + n \in 0 .. Len(w)
    BY <1>1
  <1>3. /\ f \in Seq(Nat) /\ Len(f) = (IF 1 <= m THEN m - 1 + 1 ELSE 0)
        /\ \A k \in 1 .. m - 1 + 1 : f[k] = w[1 + k - 1]
    BY <1>1, <1>2, PartOfText
  <1> DEFINE i == m + 1
             j == m + n
  <1>4. i \in Nat \ {0} /\ j \in 0 .. Len(w)
    BY <1>2
  <1> HIDE DEF i, j
  <1>5. /\ SubSeq(w, i, j) \in Seq(Nat) /\ Len(SubSeq(w, i, j)) = (IF i <= j THEN j - i + 1 ELSE 0)
        /\ \A k \in 1 .. j - i + 1 : SubSeq(w, i, j)[k] = w[i + k - 1]
    BY <1>1, <1>4, PartOfText
  <1>6. l = SubSeq(w, i, j)
    BY DEF i, j
  <1> HIDE DEF f, l
  <1>7. Len(f) = m /\ \A k \in 1 .. m : f[k] = a[k]
    <2>1. m - 1 + 1 = m /\ (~(1 <= m) => m = 0)
      BY <1>1
    <2>2. Len(f) = m
      BY <1>3, <2>1
    <2>3. ASSUME NEW k \in 1 .. m PROVE f[k] = a[k]
      <3>1. 1 + k - 1 = k /\ k \in 1 .. m - 1 + 1 /\ k \in 1 .. m + n /\ k <= m
        BY <1>1
      <3> QED
        BY <1>1, <1>3, <3>1
    <2> QED
      BY <2>2, <2>3
  <1>8. f = a
    <2>1. Len(f) = Len(a)
      BY <1>7
    <2> QED
      BY <1>3, <1>7, <2>1, SeqEqual DEF m
  <1>9. Len(l) = n /\ \A k \in 1 .. n : l[k] = b[k]
    <2>1. j - i + 1 = n /\ (~(i <= j) => n = 0)
      BY <1>1 DEF i, j
    <2>2. Len(l) = n
      BY <1>5, <1>6, <2>1
    <2>3. ASSUME NEW k \in 1 .. n PROVE l[k] = b[k]
      <3>1. i + k - 1 = m + k /\ m + k \in 1 .. m + n /\ ~(m + k <= m) /\ (m + k) - m = k
        BY <1>1 DEF i
      <3>2. l[k] = w[m + k]
        BY <1>5, <1>6, <2>1, <3>1
      <3> QED
        BY <1>1, <3>1, <3>2
    <2> QED
      BY <2>2, <2>3
  <1>10. l = b
    <2>1. Len(l) = Len(b)
      BY <1>9
    <2> QED
      BY <1>5, <1>6, <1>9, <2>1, SeqEqual DEF n
  <1> QED
    BY <1>1, <1>8, <1>10 DEF f, l, w, m

\* The end of a text that ends with ">" is cut off.
LEMMA WithoutGreater ==
  ASSUME NEW s \in Seq(Nat)
  PROVE  WithoutLast(s \o << Greater >>) = s
  <1> DEFINE g == << Greater >>
             w == s \o g
             n == Len(s)
  <1>1. g \in Seq(Nat) /\ Len(g) = 1 /\ g[1] = Greater
    <2>1. Greater \in Nat
      BY MarksDiffer
    <2> QED
      BY <2>1
  <1> HIDE DEF g
  <1>2. /\ w \in Seq(Nat) /\ Len(w) = n + 1 /\ n \in Nat
        /\ \A i \in 1 .. n + Len(g) : w[i] = IF i <= n THEN s[i] ELSE g[i - n]
    <2>1. /\ w \in Seq(Nat) /\ Len(w) = n + Len(g)
          /\ \A i \in 1 .. n + Len(g) : w[i] = IF i <= n THEN s[i] ELSE g[i - n]
      BY <1>1, ConcatProperties
    <2>2. n \in Nat
      BY LenProperties
    <2> QED
      BY <1>1, <2>1, <2>2
  <1>3. SubSeq(w, 1, n) = s
    BY <1>1, Halves
  <1> HIDE DEF w
  <1>4. Last(w) = Greater
    <2>1. n + 1 \in 1 .. n + Len(g) /\ ~(n + 1 <= n) /\ (n + 1) - n = 1
      BY <1>1, <1>2
    <2>2. w[n + 1] = Greater
      BY <1>1, <1>2, <2>1
    <2> QED
      BY <1>2, <2>2 DEF Last
  <1>5. Greater \notin {Prefix, Colons, Vector, Bool, U8}
    BY MarksDiffer
  <1>6. WithoutLast(w) = SubSeq(w, 1, Len(w) - 1)
    BY <1>4, <1>5 DEF WithoutLast
  <1>7. Len(w) - 1 = n
    BY <1>2
  <1> QED
    BY <1>3, <1>6, <1>7 DEF w, g

\* The first "<" comes after a text without one.
LEMMA OpenAfter ==
  ASSUME NEW a \in Seq(Nat), \A i \in 1 .. Len(a) : a[i] \notin {Less, Greater},
         NEW b \in Seq(Nat), b = << >> \/ b[1] = Less
  PROVE  Open(a \o b) = Len(a) + 1
  <1> DEFINE w == a \o b
             m == Len(a)
             n == Len(b)
             S == {i \in DOMAIN w : w[i] = Less /\ Depth(w, i) = 0} \union {Len(w) + 1}
  <1>1. /\ w \in Seq(Nat) /\ Len(w) = m + n /\ m \in Nat /\ n \in Nat
        /\ \A i \in 1 .. m + n : w[i] = IF i <= m THEN a[i] ELSE b[i - m]
    BY ConcatProperties, LenProperties
  <1>2. DOMAIN w = 1 .. m + n
    BY <1>1, LenProperties
  <1>3. \A i \in 1 .. m + 1 : Depth(w, i) = Depth(a, i)
    BY DepthConcat
  <1>4. \A i \in 1 .. m + 1 : Depth(a, i) = 0
    BY NoBrackets
  <1>5. Open(w) = Min(S)
    BY DEF Open
  <1> HIDE DEF w
  <1>6. ASSUME NEW i \in S PROVE m + 1 <= i /\ i \in Int
    <2>1. CASE i = Len(w) + 1
      BY <1>1, <2>1
    <2>2. CASE i \in DOMAIN w /\ w[i] = Less
      <3>1. i \in 1 .. m + n
        BY <1>2, <2>2
      <3>2. ~(i <= m)
        <4> SUFFICES ASSUME i <= m PROVE FALSE
          OBVIOUS
        <4>1. i \in 1 .. m
          BY <3>1
        <4>2. a[i] = Less
          BY <1>1, <2>2, <3>1
        <4> QED
          BY <4>1, <4>2
      <3> QED
        BY <1>1, <3>1, <3>2
    <2> QED
      BY <2>1, <2>2
  <1>7. m + 1 \in S
    <2>1. CASE b = << >>
      <3>1. n = 0
        BY <2>1
      <3> QED
        BY <1>1, <3>1
    <2>2. CASE b # << >> /\ b[1] = Less
      <3>1. n # 0
        BY <2>2, EmptySeq
      <3>2. m + 1 \in 1 .. m + n /\ ~(m + 1 <= m) /\ (m + 1) - m = 1 /\ m + 1 \in 1 .. m + 1
        BY <1>1, <3>1
      <3>3. w[m + 1] = Less
        BY <1>1, <2>2, <3>2
      <3>4. Depth(w, m + 1) = 0
        BY <1>3, <1>4, <3>2
      <3> QED
        BY <1>2, <3>2, <3>3, <3>4
    <2> QED
      BY <2>1, <2>2
  <1> HIDE DEF S
  <1>8. \A x \in S : (\A y \in S : x <= y) => x = m + 1
    <2> SUFFICES ASSUME NEW x \in S, \A y \in S : x <= y PROVE x = m + 1
      OBVIOUS
    <2>1. x <= m + 1 /\ m + 1 <= x /\ x \in Int
      BY <1>6, <1>7
    <2> QED
      BY <1>1, <2>1
  <1>9. \E x \in S : \A y \in S : x <= y
    BY <1>6, <1>7
  <1>10. Min(S) = m + 1
    BY <1>8, <1>9 DEF Min
  <1> QED
    BY <1>5, <1>10 DEF w

\* The text of a vector.
LEMMA VectorText ==
  ASSUME NEW u, TypeText(u)
  PROVE  LET w == (<< Vector, Less >> \o u) \o << Greater >>
         IN  TypeText(w) /\ TagKind(w) = "vector" /\ Inner(w) = << u >>
  <1> DEFINE v == << Vector >>
             l == << Less >>
             h == << Vector, Less >>
             g == << Greater >>
             a == h \o u
             w == a \o g
             n == Len(u)
  <1>0. u \in Seq(Nat) /\ Balanced(u) /\ u # << >>
    BY DEF TypeText, Balanced
  <1>1. /\ Vector \in Nat /\ Less \in Nat /\ Greater \in Nat
        /\ Vector \notin {Less, Greater, Comma, Space} /\ Greater # Space
    BY MarksDiffer
  <1>2. /\ v \in Seq(Nat) /\ l \in Seq(Nat) /\ g \in Seq(Nat) /\ h \in Seq(Nat) /\ h = v \o l
        /\ Len(v) = 1 /\ v[1] = Vector /\ Len(g) = 1 /\ g[1] = Greater /\ Len(h) = 2 /\ h[1] = Vector /\ h[2] = Less
    BY <1>1, TwoOnes
  <1>3. n \in Nat /\ n # 0
    BY <1>0, LenProperties, EmptySeq
  <1>4. TypeText(v)
    <2>1. \A i \in 1 .. Len(v) : v[i] \notin {Less, Greater}
      BY <1>1, <1>2
    <2> HIDE DEF v
    <2>2. Balanced(v)
      BY <1>2, <2>1, NoBrackets
    <2>3. Uncut(v)
      BY <1>1, <1>2 DEF Uncut
    <2>4. v # << >> /\ Last(v) = Vector
      <3>1. Len(<< >>) = 0
        OBVIOUS
      <3> QED
        BY <1>2, <3>1 DEF Last
    <2> QED
      BY <1>1, <1>2, <2>2, <2>3, <2>4 DEF TypeText
  <1> HIDE DEF v, l, h, g
  <1>5. w = v \o ((l \o u) \o g)
    <2>1. Associates(Nat)
      BY Associative
    <2>2. l \o u \in Seq(Nat)
      BY <1>0, <1>2, ConcatProperties
    <2>3. (v \o l) \o u = v \o (l \o u)
      BY <1>0, <1>2, <2>1, ZenonT(40) DEF Associates
    <2> DEFINE x == l \o u
    <2>4. (v \o x) \o g = v \o (x \o g)
      <3> HIDE DEF x
      <3>1. x \in Seq(Nat)
        BY <2>2 DEF x
      <3> QED
        BY <1>2, <2>1, <3>1, ZenonT(40) DEF Associates
    <2> QED
      BY <1>2, <2>3, <2>4
  <1>6. Balanced(w) /\ Uncut(w)
    <2> DEFINE b == (l \o u) \o g
    <2>1. Balanced(b) /\ Uncut(b)
      BY <1>0, Bracketed DEF l, g
    <2> HIDE DEF b, w
    <2>2. Balanced(v) /\ Uncut(v)
      BY <1>4 DEF TypeText
    <2>3. w = v \o b
      BY <1>5 DEF b
    <2> QED
      BY <2>1, <2>2, <2>3, BalancedConcat, UncutConcat
  <1>7. a \in Seq(Nat) /\ Len(a) = 2 + n /\ \A i \in 1 .. 2 + n : a[i] = IF i <= 2 THEN h[i] ELSE u[i - 2]
    <2>1. /\ a \in Seq(Nat) /\ Len(a) = Len(h) + n
          /\ \A i \in 1 .. Len(h) + n : a[i] = IF i <= Len(h) THEN h[i] ELSE u[i - Len(h)]
      BY <1>0, <1>2, ConcatProperties
    <2> QED
      BY <1>2, <2>1
  <1> HIDE DEF a
  <1>8. w \in Seq(Nat) /\ Len(w) = n + 3 /\ \A i \in 1 .. n + 3 : w[i] = IF i <= n + 2 THEN a[i] ELSE g[i - (n + 2)]
    <2>1. /\ w \in Seq(Nat) /\ Len(w) = Len(a) + Len(g)
          /\ \A i \in 1 .. Len(a) + Len(g) : w[i] = IF i <= Len(a) THEN a[i] ELSE g[i - Len(a)]
      BY <1>2, <1>7, ConcatProperties
    <2>2. Len(a) = n + 2 /\ (n + 2) + Len(g) = n + 3
      BY <1>2, <1>3, <1>7
    <2> QED
      BY <2>1, <2>2
  <1> HIDE DEF w
  <1>9. w[1] = Vector /\ w[2] = Less /\ w[n + 3] = Greater /\ \A i \in 1 .. n : w[i + 2] = u[i]
    <2>1. /\ 1 \in 1 .. n + 3 /\ 2 \in 1 .. n + 3 /\ n + 3 \in 1 .. n + 3 /\ 1 <= n + 2 /\ 2 <= n + 2
          /\ ~(n + 3 <= n + 2) /\ (n + 3) - (n + 2) = 1 /\ 1 \in 1 .. 2 + n /\ 2 \in 1 .. 2 + n
      BY <1>3
    <2>a. a[1] = h[1] /\ a[2] = h[2]
      BY <1>7, <2>1
    <2>b. w[1] = a[1] /\ w[2] = a[2]
      BY <1>8, <2>1
    <2>2. w[1] = Vector
      BY <1>2, <2>a, <2>b
    <2>3. w[2] = Less
      BY <1>2, <2>a, <2>b
    <2>4. w[n + 3] = Greater
      BY <1>2, <1>8, <2>1
    <2>5. ASSUME NEW i \in 1 .. n PROVE w[i + 2] = u[i]
      <3>1. i + 2 \in 1 .. n + 3 /\ i + 2 <= n + 2 /\ i + 2 \in 1 .. 2 + n /\ ~(i + 2 <= 2) /\ (i + 2) - 2 = i
        BY <1>3
      <3> QED
        BY <1>7, <1>8, <3>1
    <2> QED
      BY <2>2, <2>3, <2>4, <2>5
  <1>10. Last(w) = Greater /\ Len(w) > 2 /\ w # << >> /\ Len(w) # 1
    <2>1. Len(<< >>) = 0 /\ n + 3 > 2 /\ n + 3 # 1 /\ n + 3 # 0
      BY <1>3
    <2> QED
      BY <1>8, <1>9, <2>1 DEF Last
  <1>11. TypeText(w)
    BY <1>1, <1>6, <1>9, <1>10 DEF TypeText
  <1>12. TagKind(w) = "vector"
    <2>1. w # << Bool >> /\ w # << U8 >>
      <3>1. Len(<< Bool >>) = 1 /\ Len(<< U8 >>) = 1
        OBVIOUS
      <3> QED
        BY <1>10, <3>1
    <2> QED
      BY <1>9, <1>10, <2>1 DEF TagKind
  <1>13. SubSeq(w, 3, Len(w) - 1) = u
    <2> DEFINE x == SubSeq(w, 3, n + 2)
    <2>1. 3 \in Nat \ {0} /\ n + 2 \in 0 .. Len(w) /\ n + 2 - 3 + 1 = n /\ 3 <= n + 2 /\ Len(w) - 1 = n + 2
      BY <1>3, <1>8
    <2>2. /\ x \in Seq(Nat) /\ Len(x) = (IF 3 <= n + 2 THEN n + 2 - 3 + 1 ELSE 0)
          /\ \A k \in 1 .. n + 2 - 3 + 1 : x[k] = w[3 + k - 1]
      <3> DEFINE i == 3
                 j == n + 2
      <3>1. i \in Nat \ {0} /\ j \in 0 .. Len(w)
        BY <2>1
      <3> HIDE DEF i, j
      <3>2. /\ SubSeq(w, i, j) \in Seq(Nat) /\ Len(SubSeq(w, i, j)) = (IF i <= j THEN j - i + 1 ELSE 0)
            /\ \A k \in 1 .. j - i + 1 : SubSeq(w, i, j)[k] = w[i + k - 1]
        BY <1>8, <3>1, PartOfText
      <3> QED
        BY <3>2 DEF i, j
    <2> HIDE DEF x
    <2>3. Len(x) = n
      BY <2>1, <2>2
    <2>4. ASSUME NEW k \in 1 .. n PROVE x[k] = u[k]
      <3>1. 3 + k - 1 = k + 2 /\ k \in 1 .. n + 2 - 3 + 1
        BY <2>1
      <3> QED
        BY <1>9, <2>2, <3>1
    <2>5. x = u
      <3>1. Len(x) = Len(u)
        BY <2>3
      <3> QED
        BY <1>0, <2>2, <2>4, <3>1, SeqEqual DEF n
    <2> QED
      BY <2>1, <2>5 DEF x
  <1>14. Inner(w) = << u >>
    BY <1>12, <1>13 DEF Inner
  <1> QED
    BY <1>11, <1>12, <1>14 DEF w, a, h, g

\* The places at which the name of a struct is cut.
ColonPlaces(s) == {i \in DOMAIN s : s[i] = Colons}

\* A name is cut after its last "::".
LEMMA CutColons ==
  ASSUME NEW a \in Seq(Nat), NEW b \in Seq(Nat), \A i \in 1 .. Len(b) : b[i] # Colons
  PROVE  LET s == a \o << Colons >> \o b
         IN  s \in Seq(Nat) /\ Pieces(s, ColonPlaces(s)) = Append(Pieces(a, ColonPlaces(a)), b)
  <1> DEFINE c == << Colons >>
             ac == Append(a, Colons)
             s == ac \o b
             n == Len(a)
  <1>1. Colons \in Nat
    BY MarksDiffer
  <1>2. ac = a \o c
    BY <1>1, AppendIsConcat
  <1>3. /\ ac \in Seq(Nat) /\ Len(ac) = n + 1 /\ ac[n + 1] = Colons /\ n \in Nat
        /\ \A k \in 1 .. n : ac[k] = a[k]
    BY <1>1, AppendProperties, LenProperties
  <1> HIDE DEF ac
  <1>4. /\ s \in Seq(Nat) /\ Len(s) = Len(ac) + Len(b)
        /\ \A i \in 1 .. Len(ac) + Len(b) : s[i] = IF i <= Len(ac) THEN ac[i] ELSE b[i - Len(ac)]
    BY <1>3, ConcatProperties
  <1>5. Len(b) \in Nat /\ DOMAIN s = 1 .. (n + 1) + Len(b)
    BY <1>3, <1>4, LenProperties
  <1> HIDE DEF s
  <1> DEFINE P == ColonPlaces(s)
  <1>6. n + 1 \in P
    <2>1. n + 1 \in DOMAIN s /\ n + 1 <= Len(ac) /\ n + 1 \in 1 .. Len(ac) + Len(b)
      BY <1>3, <1>5
    <2> QED
      BY <1>3, <1>4, <2>1 DEF ColonPlaces
  <1>7. ASSUME NEW k \in 1 .. Len(b) PROVE n + 1 + k \notin P
    <2>1. n + 1 + k \in 1 .. Len(ac) + Len(b) /\ ~(n + 1 + k <= Len(ac)) /\ (n + 1 + k) - Len(ac) = k
      BY <1>3, <1>5
    <2>2. s[n + 1 + k] = b[k]
      BY <1>4, <2>1
    <2> QED
      BY <2>2 DEF ColonPlaces
  <1>8. ASSUME NEW k \in 1 .. n PROVE k \in P <=> k \in ColonPlaces(a)
    <2>1. k \in 1 .. Len(ac) + Len(b) /\ k <= Len(ac) /\ k \in DOMAIN s
      BY <1>3, <1>5
    <2>2. s[k] = a[k] /\ k \in DOMAIN a
      BY <1>3, <1>4, <2>1, LenProperties
    <2> QED
      BY <2>1, <2>2 DEF ColonPlaces
  <1> HIDE DEF P
  <1>9. Pieces(Append(a, Colons) \o b, P) = Append(Pieces(a, P), b)
    BY <1>1, <1>6, <1>7, PiecesCut
  <1>10. Pieces(a, P) = Pieces(a, ColonPlaces(a))
    BY <1>8, PiecesAgree
  <1>11. s = a \o << Colons >> \o b
    BY <1>2 DEF s
  <1> QED
    BY <1>4, <1>9, <1>10, <1>11 DEF P, s, ac

\* The name of a struct is its address, its module and its name.
LEMMA BaseText ==
  ASSUME NEW i \in DOMAIN Types
  PROVE  LET t == Types[i]
             b == StructBase(t)
         IN  /\ b \in Seq(Nat) /\ Len(b) >= 2
             /\ \A k \in 1 .. Len(b) : b[k] \notin {Space, Less, Greater, Comma}
             /\ Pieces(b, ColonPlaces(b)) = << t.address, t.module, t.name >>
  <1> DEFINE t == Types[i]
             a == t.address
             m == t.module
             n == t.name
             c == << Colons >>
             am == a \o c \o m
             b == am \o c \o n
             Marking == {Space, Colons, Less, Greater, Comma}
  <1>1. a \in Seq(Nat) /\ m \in Seq(Nat) /\ n \in Seq(Nat)
    BY TypeFields
  <1>2. /\ \A k \in 1 .. Len(a) : a[k] \notin Marking
        /\ \A k \in 1 .. Len(m) : m[k] \notin Marking
        /\ \A k \in 1 .. Len(n) : n[k] \notin Marking
    <2>1. \A text \in {a, m, n} : \A k \in DOMAIN text : text[k] \notin Marking
      BY TypesAssumption
    <2> HIDE DEF Marking, a, m, n
    <2>2. DOMAIN a = 1 .. Len(a) /\ DOMAIN m = 1 .. Len(m) /\ DOMAIN n = 1 .. Len(n)
      BY <1>1, LenProperties
    <2> QED
      BY <2>1, <2>2
  <1>3. Colons \in Nat /\ Colons \notin {Space, Less, Greater, Comma}
    BY MarksDiffer
  <1>4. c \in Seq(Nat) /\ Len(c) = 1 /\ c[1] = Colons
    BY <1>3
  <1>5. StructBase(t) = b
    BY DEF StructBase
  <1> HIDE DEF t, a, m, n, c
  <1> DEFINE Clean(s) == s \in Seq(Nat) /\ \A k \in 1 .. Len(s) : s[k] \notin {Space, Less, Greater, Comma}
  <1>6. ASSUME NEW x, NEW y, Clean(x), Clean(y) PROVE Clean(x \o y) /\ Len(x \o y) = Len(x) + Len(y)
    <2> DEFINE w == x \o y
    <2>1. /\ w \in Seq(Nat) /\ Len(w) = Len(x) + Len(y)
          /\ \A k \in 1 .. Len(x) + Len(y) : w[k] = IF k <= Len(x) THEN x[k] ELSE y[k - Len(x)]
      BY <1>6, ConcatProperties
    <2>2. Len(x) \in Nat /\ Len(y) \in Nat
      BY <1>6, LenProperties
    <2> HIDE DEF w
    <2>3. ASSUME NEW k \in 1 .. Len(w) PROVE w[k] \notin {Space, Less, Greater, Comma}
      <3>1. (k <= Len(x) /\ k \in 1 .. Len(x)) \/ (~(k <= Len(x)) /\ k - Len(x) \in 1 .. Len(y))
        BY <2>1, <2>2
      <3> QED
        BY <1>6, <2>1, <3>1
    <2> QED
      BY <2>1, <2>3 DEF w
  <1>7. Clean(a) /\ Clean(m) /\ Clean(n) /\ Clean(c)
    BY <1>1, <1>2, <1>3, <1>4
  <1> HIDE DEF Clean
  <1> DEFINE ac == a \o c
             amc == am \o c
  <1>8. Clean(ac) /\ Len(ac) = Len(a) + Len(c)
    BY <1>6, <1>7
  <1>9. Clean(am) /\ Len(am) = Len(ac) + Len(m)
    <2> HIDE DEF ac
    <2>1. Clean(ac \o m) /\ Len(ac \o m) = Len(ac) + Len(m)
      BY <1>6, <1>7, <1>8
    <2> QED
      BY <2>1 DEF ac
  <1>10. Clean(amc) /\ Len(amc) = Len(am) + Len(c)
    <2> HIDE DEF am
    <2> QED
      BY <1>6, <1>7, <1>9
  <1>11. Clean(b) /\ Len(b) = Len(amc) + Len(n)
    <2> HIDE DEF amc
    <2>1. Clean(amc \o n) /\ Len(amc \o n) = Len(amc) + Len(n)
      BY <1>6, <1>7, <1>10
    <2> QED
      BY <2>1 DEF amc
  <1>12. Len(b) >= 2
    <2>1. Len(a) \in Nat /\ Len(m) \in Nat /\ Len(n) \in Nat
      BY <1>1, LenProperties
    <2> HIDE DEF b, amc, am, ac
    <2> QED
      BY <1>4, <1>8, <1>9, <1>10, <1>11, <2>1
  <1>13. Pieces(am, ColonPlaces(am)) = Append(Pieces(a, ColonPlaces(a)), m)
    <2>1. \A k \in 1 .. Len(m) : m[k] # Colons
      BY <1>2
    <2> QED
      BY <1>1, <2>1, CutColons DEF c
  <1>14. Pieces(b, ColonPlaces(b)) = Append(Pieces(am, ColonPlaces(am)), n)
    <2>1. \A k \in 1 .. Len(n) : n[k] # Colons
      BY <1>2
    <2>2. am \in Seq(Nat)
      BY <1>9 DEF Clean
    <2> HIDE DEF am
    <2> QED
      BY <1>1, <2>1, <2>2, CutColons DEF c
  <1>15. Pieces(a, ColonPlaces(a)) = << a >>
    <2>1. \A k \in 1 .. Len(a) : k \notin ColonPlaces(a)
      BY <1>2 DEF ColonPlaces
    <2> QED
      BY <1>1, <2>1, PiecesUncut
  <1>16. Pieces(b, ColonPlaces(b)) = << a, m, n >>
    <2>1. Append(Append(<< a >>, m), n) = << a, m, n >>
      <3> DEFINE X == Seq(Nat)
      <3>1. << a >> \in Seq(X) /\ << a, m >> \in Seq(X) /\ m \in X /\ n \in X
        BY <1>1
      <3> HIDE DEF X
      <3>2. Append(<< a >>, m) = << a, m >>
        BY <3>1, AppendIsConcat, TwoOnes
      <3>3. Append(<< a, m >>, n) = << a, m, n >>
        BY <3>1, AppendIsConcat, TwoAndOne
      <3> QED
        BY <3>2, <3>3
    <2> HIDE DEF b, am
    <2> QED
      BY <1>13, <1>14, <1>15, <2>1
  <1> HIDE DEF b
  <1> QED
    BY <1>5, <1>11, <1>12, <1>16 DEF Clean, t, a, m, n

\* A text of a name and brackets, or of a name.
LEMMA NamedText ==
  ASSUME NEW base \in Seq(Nat), Len(base) >= 2,
         \A k \in 1 .. Len(base) : base[k] \notin {Space, Less, Greater, Comma},
         NEW rest, Balanced(rest), Uncut(rest), rest = << >> \/ (rest[1] = Less /\ Last(rest) = Greater)
  PROVE  LET w == base \o rest
         IN  /\ TypeText(w) /\ TagKind(w) = "struct"
             /\ Open(w) = Len(base) + 1 /\ SubSeq(w, 1, Open(w) - 1) = base
  <1> DEFINE w == base \o rest
             m == Len(base)
             n == Len(rest)
  <1>1. rest \in Seq(Nat) /\ m \in Nat /\ n \in Nat
    BY LenProperties DEF Balanced
  <1>2. /\ w \in Seq(Nat) /\ Len(w) = m + n
        /\ \A i \in 1 .. m + n : w[i] = IF i <= m THEN base[i] ELSE rest[i - m]
    BY <1>1, ConcatProperties
  <1>3. Balanced(base) /\ Uncut(base)
    BY NoBrackets DEF Uncut
  <1>4. Open(w) = m + 1
    BY <1>1, OpenAfter
  <1>5. SubSeq(w, 1, m) = base
    BY <1>1, Halves
  <1>6. Balanced(w) /\ Uncut(w)
    BY <1>3, BalancedConcat, UncutConcat
  <1> HIDE DEF w
  <1>7. w[1] = base[1] /\ w[2] = base[2] /\ 1 \in 1 .. m /\ 2 \in 1 .. m
    <2>1. 1 \in 1 .. m + n /\ 2 \in 1 .. m + n /\ 1 <= m /\ 2 <= m /\ 1 \in 1 .. m /\ 2 \in 1 .. m
      BY <1>1
    <2> QED
      BY <1>2, <2>1
  <1>8. w # << >> /\ Len(w) >= 2
    <2>1. Len(<< >>) = 0 /\ m + n >= 2
      BY <1>1
    <2>2. Len(w) # 0
      BY <1>2, <2>1
    <2> QED
      BY <1>2, <2>1, <2>2
  <1>c. Len(w) # 1
    <2>1. m + n # 1
      BY <1>1
    <2> QED
      BY <1>2, <2>1
  <1>9. Last(w) # Space
    <2>1. CASE rest = << >>
      <3>1. n = 0
        BY <2>1
      <3>2. m \in 1 .. m + n /\ Len(w) = m /\ m \in 1 .. m
        BY <1>1, <1>2, <3>1
      <3>3. Last(w) = base[m]
        BY <1>2, <3>2 DEF Last
      <3> QED
        BY <3>2, <3>3
    <2>2. CASE rest # << >> /\ Last(rest) = Greater
      <3>1. n # 0
        BY <1>1, <2>2, EmptySeq
      <3>2. m + n \in 1 .. m + n /\ ~(m + n <= m) /\ (m + n) - m = n
        BY <1>1, <3>1
      <3>3. Last(w) = rest[n]
        BY <1>2, <3>2 DEF Last
      <3>4. rest[n] = Greater /\ Greater # Space
        BY <2>2, MarksDiffer DEF Last
      <3> QED
        BY <3>3, <3>4
    <2> QED
      BY <2>1, <2>2
  <1>10. TypeText(w)
    BY <1>6, <1>7, <1>8, <1>9 DEF TypeText
  <1>11. TagKind(w) = "struct"
    <2>1. w # << Bool >> /\ w # << U8 >>
      <3>1. Len(<< Bool >>) = 1 /\ Len(<< U8 >>) = 1
        OBVIOUS
      <3> QED
        BY <1>c, <3>1
    <2>2. w[2] # Less
      BY <1>7
    <2> QED
      BY <2>1, <2>2 DEF TagKind
  <1>12. (m + 1) - 1 = m
    BY <1>1
  <1> QED
    BY <1>4, <1>5, <1>10, <1>11, <1>12 DEF w

\* What is inside the brackets of a text.
LEMMA BracketsOf ==
  ASSUME NEW base \in Seq(Nat), NEW inner \in Seq(Nat)
  PROVE  LET rest == << Less >> \o inner \o << Greater >>
             w == base \o rest
         IN  WithoutLast(SubSeq(w, Len(base) + 2, Len(w))) = inner
  <1> DEFINE l == << Less >>
             g == << Greater >>
             bl == base \o l
             ig == inner \o g
             w == base \o (l \o inner \o g)
  <1>1. l \in Seq(Nat) /\ g \in Seq(Nat) /\ Len(l) = 1
    <2>1. Less \in Nat /\ Greater \in Nat
      BY MarksDiffer
    <2> QED
      BY <2>1
  <1>2. WithoutLast(ig) = inner
    BY WithoutGreater
  <1> HIDE DEF l, g
  <1>3. bl \in Seq(Nat) /\ Len(bl) = Len(base) + 1 /\ ig \in Seq(Nat)
    <2>1. bl \in Seq(Nat) /\ Len(bl) = Len(base) + Len(l)
      BY <1>1, ConcatProperties
    <2>2. ig \in Seq(Nat)
      BY <1>1, ConcatProperties
    <2> QED
      BY <1>1, <2>1, <2>2
  <1>4. w = bl \o ig
    <2>1. Associates(Nat)
      BY Associative
    <2>2. (l \o inner) \o g = l \o (inner \o g)
      BY <1>1, <2>1, ZenonT(40) DEF Associates
    <2> DEFINE x == inner \o g
    <2>3. x \in Seq(Nat)
      BY <1>3
    <2>4. (base \o l) \o x = base \o (l \o x)
      <3> HIDE DEF x
      <3> QED
        BY <1>1, <2>1, <2>3, ZenonT(40) DEF Associates
    <2> QED
      BY <2>2, <2>4
  <1> HIDE DEF bl, ig, w
  <1>5. SubSeq(bl \o ig, Len(bl) + 1, Len(bl \o ig)) = ig
    BY <1>3, Halves
  <1>6. Len(bl) + 1 = Len(base) + 2
    <2>1. Len(base) \in Nat
      BY LenProperties
    <2> QED
      BY <1>3, <2>1
  <1> QED
    BY <1>2, <1>4, <1>5, <1>6 DEF w, l, g

\* The text of a struct.
LEMMA StructText ==
  ASSUME NEW i \in DOMAIN Types, Types[i].tag = "struct",
         NEW texts, texts = [k \in DOMAIN Types[i].params |-> texts[k]],
         \A k \in DOMAIN Types[i].params : TypeText(texts[k])
  PROVE  LET t == Types[i]
             w == WrittenOf(t, texts)
         IN  /\ TypeText(w) /\ TagKind(w) = "struct"
             /\ StructName(w) = << t.address, t.module, t.name >> /\ Inner(w) = texts
  <1> DEFINE t == Types[i]
             n == Len(t.params)
             pad == t.pad
             base == StructBase(t)
             inner == Tail(Listed(texts, pad, n))
             rest == IF t.params = << >> THEN << >> ELSE << Less >> \o inner \o << Greater >>
             w == base \o rest
             name == << t.address, t.module, t.name >>
  <1>1. /\ base \in Seq(Nat) /\ Len(base) >= 2
        /\ \A k \in 1 .. Len(base) : base[k] \notin {Space, Less, Greater, Comma}
        /\ Pieces(base, ColonPlaces(base)) = name
    BY BaseText
  <1>2. WrittenOf(t, texts) = w
    BY DEF WrittenOf, StructBase
  <1>3. n \in Nat /\ DOMAIN t.params = 1 .. n /\ t.params \in Seq(Nat) /\ pad \in Seq({Space})
    BY TypeFields
  <1>4. texts = [k \in 1 .. n |-> texts[k]] /\ \A k \in 1 .. n : TypeText(texts[k])
    BY <1>3
  <1>5. Len(name) = 3
    OBVIOUS
  <1>6. t.params # << >> => n \in Nat \ {0}
    BY <1>3, EmptySeq
  <1>7. t.params = << >> => n = 0
    OBVIOUS
  <1> HIDE DEF t, base, name, pad
  <1>8. CASE t.params = << >>
    <2>1. rest = << >>
      BY <1>8
    <2>2. Balanced(rest) /\ Uncut(rest)
      <3>1. << >> \in Seq(Nat) /\ Len(<< >>) = 0
        OBVIOUS
      <3>2. Balanced(<< >>)
        <4> DEFINE e == << >>
        <4>1. e \in Seq(Nat) /\ \A k \in 1 .. Len(e) : e[k] \notin {Less, Greater}
          BY <3>1
        <4> HIDE DEF e
        <4>2. Balanced(e)
          BY <4>1, NoBrackets
        <4> QED
          BY <4>2 DEF e
      <3>3. Uncut(<< >>)
        BY <3>1 DEF Uncut
      <3> QED
        BY <2>1, <3>2, <3>3
    <2> HIDE DEF rest
    <2>3. /\ TypeText(w) /\ TagKind(w) = "struct"
          /\ Open(w) = Len(base) + 1 /\ SubSeq(w, 1, Open(w) - 1) = base
      BY <1>1, <2>1, <2>2, NamedText
    <2>4. StructName(w) = name
      BY <1>1, <2>3 DEF StructName, ColonPlaces
    <2>5. w = base
      BY <1>1, <2>1, ConcatEmptySeq
    <2>6. SubSeq(w, Open(w) + 1, Len(w)) = << >>
      <3> DEFINE x == SubSeq(base, Len(base) + 2, Len(base))
      <3>1. Len(base) \in Nat
        BY <1>1, LenProperties
      <3> DEFINE a == Len(base) + 2
                 b == Len(base)
      <3>2. a \in Nat \ {0} /\ b \in 0 .. Len(base) /\ ~(a <= b)
        BY <3>1
      <3> HIDE DEF a, b
      <3>3. SubSeq(base, a, b) \in Seq(Nat) /\ Len(SubSeq(base, a, b)) = (IF a <= b THEN b - a + 1 ELSE 0)
        BY <1>1, <3>2, PartOfText
      <3>4. SubSeq(base, a, b) = << >>
        BY <3>2, <3>3, EmptySeq
      <3>5. Open(w) + 1 = a
        BY <2>3, <3>1 DEF a
      <3> QED
        BY <2>5, <3>4, <3>5 DEF b
    <2>7. StructParams(w) = << >>
      <3>1. WithoutLast(<< >>) = << >>
        <4>1. << >> \in Seq(Nat)
          OBVIOUS
        <4> QED
          BY <4>1, WithoutLastShorter
      <3> QED
        BY <2>6, <3>1 DEF StructParams
    <2>8. Inner(w) = << >>
      BY <1>5, <2>3, <2>4, <2>7 DEF Inner
    <2>9. texts = << >>
      <3>1. [k \in 1 .. 0 |-> texts[k]] = << >>
        OBVIOUS
      <3> QED
        BY <1>4, <1>7, <1>8, <3>1
    <2> HIDE DEF w
    <2> QED
      BY <1>2, <2>3, <2>4, <2>8, <2>9 DEF t, name
  <1>9. CASE t.params # << >>
    <2>1. Balanced(inner) /\ inner # << >> /\ SplitTypeParams(inner) = [k \in 1 .. n |-> texts[k]]
      BY <1>3, <1>4, <1>6, <1>9, SplitListed
    <2> HIDE DEF inner
    <2>2. rest = << Less >> \o inner \o << Greater >>
      BY <1>9
    <2>3. Balanced(rest) /\ Uncut(rest)
      BY <2>1, <2>2, Bracketed
    <2>4. inner \in Seq(Nat)
      BY <2>1 DEF Balanced
    <2>5. rest[1] = Less /\ Last(rest) = Greater
      <3> DEFINE l == << Less >>
                 g == << Greater >>
                 li == l \o inner
                 r == li \o g
                 m == Len(inner)
      <3>1. /\ l \in Seq(Nat) /\ g \in Seq(Nat) /\ Len(l) = 1 /\ Len(g) = 1 /\ l[1] = Less /\ g[1] = Greater
            /\ m \in Nat
        <4>1. Less \in Nat /\ Greater \in Nat
          BY MarksDiffer
        <4> QED
          BY <2>4, <4>1, LenProperties
      <3> HIDE DEF l, g
      <3>2. li \in Seq(Nat) /\ Len(li) = Len(l) + m
            /\ \A k \in 1 .. Len(l) + m : li[k] = IF k <= Len(l) THEN l[k] ELSE inner[k - Len(l)]
        BY <2>4, <3>1, ConcatProperties
      <3> HIDE DEF li
      <3>3. Len(r) = Len(li) + Len(g)
            /\ \A k \in 1 .. Len(li) + Len(g) : r[k] = IF k <= Len(li) THEN li[k] ELSE g[k - Len(li)]
        <4>1. li \in Seq(Nat) /\ g \in Seq(Nat)
          BY <3>1, <3>2
        <4> QED
          BY ONLY <4>1, ConcatProperties
      <3> HIDE DEF r
      <3>4. /\ 1 \in 1 .. Len(l) + m /\ 1 <= Len(l) /\ 1 \in 1 .. Len(li) + Len(g) /\ 1 <= Len(li)
            /\ m + 2 \in 1 .. Len(li) + Len(g) /\ ~(m + 2 <= Len(li)) /\ (m + 2) - Len(li) = 1 /\ Len(r) = m + 2
        BY <3>1, <3>2, <3>3
      <3>5. li[1] = Less
        BY <3>1, <3>2, <3>4
      <3>6. r[1] = Less
        BY <3>3, <3>4, <3>5
      <3>7. r[m + 2] = Greater
        BY <3>1, <3>3, <3>4
      <3>8. rest = r
        BY <2>2 DEF r, li, l, g
      <3> HIDE DEF rest
      <3> QED
        BY <3>4, <3>6, <3>7, <3>8 DEF Last
    <2>6. WithoutLast(SubSeq(w, Len(base) + 2, Len(w))) = inner
      BY <1>1, <2>2, <2>4, BracketsOf
    <2> HIDE DEF rest
    <2>7. /\ TypeText(w) /\ TagKind(w) = "struct"
          /\ Open(w) = Len(base) + 1 /\ SubSeq(w, 1, Open(w) - 1) = base
      BY <1>1, <2>3, <2>5, NamedText
    <2>8. StructName(w) = name
      BY <1>1, <2>7 DEF StructName, ColonPlaces
    <2>9. StructParams(w) = texts
      <3>1. Open(w) + 1 = Len(base) + 2
        <4>1. Len(base) \in Nat
          BY <1>1, LenProperties
        <4> QED
          BY <2>7, <4>1
      <3> QED
        BY <1>4, <2>1, <2>6, <3>1 DEF StructParams
    <2>10. Inner(w) = texts
      BY <1>5, <2>7, <2>8, <2>9 DEF Inner
    <2> HIDE DEF w
    <2> QED
      BY <1>2, <2>7, <2>8, <2>10 DEF t, name
  <1> QED
    BY <1>8, <1>9

-----------------------------------------------------------------------------
(* Every type argument is laid out. *)

\* The text of a primitive type.
LEMMA PrimitiveText ==
  ASSUME NEW tag \in {"bool", "u8"}
  PROVE  LET w == IF tag = "bool" THEN << Bool >> ELSE << U8 >>
         IN  w \in Seq(Nat) /\ TypeText(w) /\ TagKind(w) = tag
  <1> DEFINE c == IF tag = "bool" THEN Bool ELSE U8
             w == << c >>
  <1>1. c \in Nat /\ c \notin {Less, Greater, Comma, Space} /\ Bool # U8
    BY MarksDiffer
  <1>2. w \in Seq(Nat) /\ Len(w) = 1 /\ w[1] = c /\ w # << >>
    <2> HIDE DEF c
    <2> QED
      BY <1>1
  <1>3. Last(w) = c
    BY <1>2 DEF Last
  <1>4. TagKind(w) = tag
    <2>1. CASE tag = "bool"
      <3>1. w = << Bool >> /\ w # << U8 >>
        <4>1. w = << Bool >>
          BY <2>1
        <4>2. << Bool >>[1] = Bool /\ << U8 >>[1] = U8
          OBVIOUS
        <4> QED
          BY <1>1, <4>1, <4>2
      <3>2. ~(Len(w) > 2)
        BY <1>2
      <3> HIDE DEF w
      <3> QED
        BY <2>1, <3>1, <3>2 DEF TagKind
    <2>2. CASE tag = "u8"
      <3>1. w = << U8 >> /\ w # << Bool >>
        <4>1. w = << U8 >>
          BY <2>2
        <4>2. << Bool >>[1] = Bool /\ << U8 >>[1] = U8
          OBVIOUS
        <4> QED
          BY <1>1, <4>1, <4>2
      <3>2. Len(w) # 3 /\ ~(Len(w) > 2)
        BY <1>2
      <3> HIDE DEF w
      <3> QED
        BY <2>2, <3>1, <3>2 DEF TagKind
    <2> QED
      BY <2>1, <2>2
  <1> HIDE DEF c, w
  <1>5. Balanced(w)
    <2>1. \A i \in 1 .. Len(w) : w[i] \notin {Less, Greater}
      BY <1>1, <1>2
    <2> QED
      BY <1>2, <2>1, NoBrackets
  <1>6. Uncut(w)
    BY <1>1, <1>2 DEF Uncut
  <1>7. TypeText(w)
    BY <1>1, <1>2, <1>3, <1>5, <1>6 DEF TypeText
  <1>8. w = IF tag = "bool" THEN << Bool >> ELSE << U8 >>
    BY DEF w, c
  <1> QED
    BY <1>2, <1>4, <1>7, <1>8

\* A type is written as its text, and what is written for that text means the type.
TypeMeant(i) ==
  LET w == Written(i)
  IN  TypeText(w) /\ TagKind(w) = Types[i].tag /\ Laid(TagThings, TypeTag(w), TypeFacts(i), TRUE)

\* A primitive type means itself.
LEMMA PrimitiveMeant ==
  ASSUME NEW i \in DOMAIN Types, Types[i].tag \in {"bool", "u8"}
  PROVE  TypeMeant(i)
  <1> DEFINE t == Types[i]
             tag == t.tag
             w == Written(i)
             f == << Fact("TypeTag", tag) >>
  <1>1. t.params = << >>
    BY TypeFields
  <1>2. w = IF tag = "bool" THEN << Bool >> ELSE << U8 >>
    <2>1. w = WrittenOf(t, [k \in DOMAIN t.params |-> Written(t.params[k])])
      BY WrittenRecursion
    <2> HIDE DEF w
    <2> QED
      BY <2>1 DEF WrittenOf
  <1>3. TypeFacts(i) = OwnFacts(t) \o FlattenSeq([k \in DOMAIN t.params |-> TypeFacts(t.params[k])])
    BY TypeFactsRecursion
  <1>4. FlattenSeq([k \in DOMAIN t.params |-> TypeFacts(t.params[k])]) = << >>
    <2>1. [k \in DOMAIN t.params |-> TypeFacts(t.params[k])] = << >>
      BY <1>1
    <2> QED
      BY <2>1 DEF FlattenSeq
  <1>5. OwnFacts(t) = f \o << >> /\ OwnFacts(t) \in Seq(Facts)
    BY OwnFactsFacts DEF OwnFacts
  <1>6. w \in Seq(Nat) /\ TypeText(w) /\ TagKind(w) = tag /\ tag \in {"bool", "u8"}
    <2> HIDE DEF w
    <2>1. tag \in {"bool", "u8"}
      OBVIOUS
    <2> HIDE DEF tag
    <2> QED
      BY <1>2, <2>1, PrimitiveText
  <1>7. TypeFacts(i) = f
    <2> DEFINE o == OwnFacts(t)
    <2>1. o \in Seq(Facts)
      BY <1>5
    <2> HIDE DEF o
    <2>2. o \o << >> = o
      BY <2>1, ConcatEmptySeq
    <2>3. f \o << >> = f
      BY ConcatEmptySeq
    <2> QED
      BY <1>3, <1>4, <1>5, <2>2, <2>3 DEF o
  <1> HIDE DEF w
  <1>8. Laid(TagThings, TypeTag(w), << Fact("TypeTag", TagKind(w)) >>, TRUE)
    BY <1>6, LaidPrimitive
  <1> QED
    BY <1>6, <1>7, <1>8 DEF TypeMeant, w

\* A vector means itself when its elements do.
LEMMA VectorMeant ==
  ASSUME NEW i \in DOMAIN Types, Types[i].tag = "vector",
         \A k \in DOMAIN Types[i].params : TypeMeant(Types[i].params[k])
  PROVE  TypeMeant(i)
  <1> DEFINE t == Types[i]
             p == t.params[1]
             u == Written(p)
             w == Written(i)
             f == << Fact("TypeTag", "vector") >>
             facts == TypeFacts(p)
  <1>1. Len(t.params) = 1 /\ DOMAIN t.params = 1 .. 1 /\ 1 \in DOMAIN t.params /\ p \in DOMAIN Types
    <2>1. Len(t.params) = 1 /\ DOMAIN t.params = 1 .. Len(t.params)
          /\ \A k \in DOMAIN t.params : t.params[k] \in DOMAIN Types
      BY TypeFields
    <2> QED
      BY <2>1
  <1>2. TypeMeant(p)
    BY <1>1
  <1>3. TypeText(u) /\ Laid(TagThings, TypeTag(u), facts, TRUE)
    BY <1>2 DEF TypeMeant
  <1>4. w = (<< Vector, Less >> \o u) \o << Greater >>
    <2> DEFINE texts == [k \in DOMAIN t.params |-> Written(t.params[k])]
    <2>1. w = WrittenOf(t, texts)
      BY WrittenRecursion
    <2>2. texts[1] = u
      BY <1>1
    <2> HIDE DEF w, texts, u
    <2> QED
      BY <2>1, <2>2 DEF WrittenOf
  <1>5. TypeText(w) /\ TagKind(w) = "vector" /\ Inner(w) = << u >>
    <2> HIDE DEF w, u
    <2> QED
      BY <1>3, <1>4, VectorText
  <1>6. TypeFacts(i) = f \o facts
    <2> DEFINE o == OwnFacts(t)
               ss == [k \in DOMAIN t.params |-> TypeFacts(t.params[k])]
    <2>1. TypeFacts(i) = o \o FlattenSeq(ss)
      BY TypeFactsRecursion
    <2>2. facts \in Seq(Facts)
      BY <1>1, TypeFactsRecursion
    <2>3. ss = [k \in 1 .. 1 |-> facts]
      <3>1. \A k \in 1 .. 1 : t.params[k] = p
        OBVIOUS
      <3> QED
        BY <1>1, <3>1
    <2> HIDE DEF ss, facts
    <2>4. FlattenSeq(ss) = facts
      BY <2>2, <2>3, FlattenOne
    <2>5. o = f \o << >> /\ o \in Seq(Facts)
      BY OwnFactsFacts DEF OwnFacts
    <2>6. f \o << >> = f
      BY ConcatEmptySeq
    <2> QED
      BY <2>1, <2>4, <2>5, <2>6
  <1>7. w \in Seq(Nat)
    BY <1>5 DEF TypeText, Balanced
  <1> HIDE DEF w, u, facts
  <1>8. Laid(TagThings, TypeTag(w), << Fact("TypeTag", "vector") >> \o facts, TRUE)
    BY <1>3, <1>5, <1>7, LaidVector
  <1> QED
    BY <1>5, <1>6, <1>8 DEF TypeMeant, w

\* A struct means itself when its parameters do.
LEMMA StructMeant ==
  ASSUME NEW i \in DOMAIN Types, Types[i].tag = "struct",
         \A k \in DOMAIN Types[i].params : TypeMeant(Types[i].params[k])
  PROVE  TypeMeant(i)
  <1> DEFINE t == Types[i]
             D == DOMAIN t.params
             texts == [k \in D |-> Written(t.params[k])]
             facts == [k \in D |-> TypeFacts(t.params[k])]
             w == Written(i)
             f == << Fact("TypeTag", "struct") >>
             name == << t.address, t.module, t.name >>
             names == << Fact("address", t.address), Fact("tag_module", t.module), Fact("tag_name", t.name) >>
  <1>1. w = WrittenOf(t, texts) /\ w \in Seq(Nat)
    BY WrittenRecursion
  <1>2. TypeFacts(i) = OwnFacts(t) \o FlattenSeq(facts)
    BY TypeFactsRecursion
  <1>3. /\ D = 1 .. Len(t.params) /\ Len(t.params) \in Nat
        /\ \A k \in D : t.params[k] \in DOMAIN Types
    BY TypeFields
  <1>4. \A k \in D : /\ texts[k] = Written(t.params[k]) /\ facts[k] = TypeFacts(t.params[k])
                     /\ TypeText(texts[k]) /\ Laid(TagThings, TypeTag(texts[k]), facts[k], TRUE)
    BY DEF TypeMeant
  <1>5. texts = [k \in D |-> texts[k]] /\ facts = [k \in D |-> facts[k]] /\ DOMAIN texts = D
    OBVIOUS
  <1>6. /\ TypeText(w) /\ TagKind(w) = "struct" /\ StructName(w) = name /\ Inner(w) = texts
    <2> HIDE DEF texts, facts, w
    <2>1. \A k \in DOMAIN Types[i].params : TypeText(texts[k])
      BY <1>4
    <2>2. texts = [k \in DOMAIN Types[i].params |-> texts[k]]
      BY <1>5
    <2> QED
      BY <1>1, <2>1, <2>2, StructText
  <1>7. NameFacts(name) = names /\ Len(name) = 3
    BY DEF NameFacts
  <1>8. FlattenSeq(facts) \in Seq(Facts)
    <2>1. \A k \in D : facts[k] \in Seq(Facts)
      BY <1>3, <1>4, TypeFactsRecursion
    <2> DEFINE n == Len(t.params)
    <2>2. n \in Nat /\ facts \in [1 .. n -> Seq(Facts)]
      <3> HIDE DEF facts
      <3> QED
        BY <1>3, <1>5, <2>1
    <2> HIDE DEF n, facts
    <2> QED
      BY <2>2, FlattenInSeq
  <1>9. OwnFacts(t) = f \o names /\ f \in Seq(Facts) /\ names \in Seq(Facts)
    <2>1. OwnFacts(t) = f \o names
      BY DEF OwnFacts
    <2>2. t.address \in Seq(Nat) /\ t.module \in Seq(Nat) /\ t.name \in Seq(Nat)
      BY TypeFields
    <2>3. "struct" \in Words /\ "TypeTag" \in Words /\ "address" \in Words /\ "tag_module" \in Words /\ "tag_name" \in Words
      BY DEF Words
    <2>4. \A role \in Words, meant \in Data \cup Words : Fact(role, meant) \in Facts
      BY DEF Fact, Facts
    <2>5. t.address \in Data /\ t.module \in Data /\ t.name \in Data
      BY <2>2 DEF Data
    <2> HIDE DEF t
    <2>6. Fact("TypeTag", "struct") \in Facts /\ Fact("address", t.address) \in Facts
          /\ Fact("tag_module", t.module) \in Facts /\ Fact("tag_name", t.name) \in Facts
      BY <2>3, <2>4, <2>5
    <2>7. f \in Seq(Facts) /\ names \in Seq(Facts)
      BY <2>6
    <2> QED
      BY <2>1, <2>7 DEF t
  <1> DEFINE F == FlattenSeq(facts)
  <1>10. (f \o names) \o F = f \o (names \o F)
    <2>1. Associates(Facts)
      BY Associative
    <2>2. F \in Seq(Facts)
      BY <1>8
    <2> HIDE DEF f, names, F
    <2> QED
      BY <1>9, <2>1, <2>2, ZenonT(40) DEF Associates
  <1> HIDE DEF w, texts, facts
  <1>11. Laid(TagThings, TypeTag(w), << Fact("TypeTag", "struct") >> \o (NameFacts(StructName(w)) \o FlattenSeq(facts)), TRUE)
    <2>1. Len(StructName(w)) = 3
      BY <1>6, <1>7
    <2>2. facts = [k \in DOMAIN Inner(w) |-> facts[k]]
      BY <1>5, <1>6
    <2>3. \A k \in DOMAIN Inner(w) : Laid(TagThings, TypeTag(Inner(w)[k]), facts[k], TRUE)
      BY <1>4, <1>5, <1>6
    <2> QED
      BY <1>1, <1>6, <2>1, <2>2, <2>3, LaidStruct
  <1>12. TypeFacts(i) = << Fact("TypeTag", "struct") >> \o (NameFacts(StructName(w)) \o FlattenSeq(facts))
    BY <1>2, <1>6, <1>7, <1>9, <1>10
  <1> QED
    BY <1>6, <1>11, <1>12 DEF TypeMeant, w

\* Every type of the table means itself.
LEMMA EveryTypeMeant ==
  \A i \in DOMAIN Types : TypeMeant(i)
  <1> DEFINE S == {i \in DOMAIN Types : TypeMeant(i)}
  <1>1. ASSUME NEW i \in DOMAIN Types, \A k \in DOMAIN Types[i].params : Types[i].params[k] \in S PROVE i \in S
    <2>1. \A k \in DOMAIN Types[i].params : TypeMeant(Types[i].params[k])
      BY <1>1
    <2>2. Types[i].tag \in {"bool", "u8", "vector", "struct"}
      BY TypeFields
    <2> QED
      BY <2>1, <2>2, PrimitiveMeant, VectorMeant, StructMeant
  <1> HIDE DEF S
  <1>2. DOMAIN Types \subseteq S
    BY <1>1, TableInduction
  <1> QED
    BY <1>2 DEF S

\* The facts of a type argument.
LEMMA TypeArgumentMeans ==
  ASSUME NEW t, IsTypeArgument(t)
  PROVE  /\ TypeArgumentFacts(t) \in Seq(Facts)
         /\ t.meant # << >> => \E i \in DOMAIN Types : t.text = Written(i) /\ TypeArgumentFacts(t) = TypeFacts(i)
  <1>1. CASE t.meant = << >>
    <2>1. [k \in DOMAIN t.meant |-> TypeFacts(t.meant[k])] = << >>
      BY <1>1
    <2>2. TypeArgumentFacts(t) = << >>
      BY <2>1 DEF TypeArgumentFacts, InAll, FlattenSeq
    <2>3. << >> \in Seq(Facts)
      OBVIOUS
    <2> QED
      BY <1>1, <2>2, <2>3
  <1>2. CASE t.meant # << >>
    <2>1. PICK i \in DOMAIN Types : t.meant = << i >> /\ t.text = Written(i)
      BY <1>2 DEF IsTypeArgument
    <2> DEFINE ss == [k \in DOMAIN t.meant |-> TypeFacts(t.meant[k])]
               facts == TypeFacts(i)
    <2>2. facts \in Seq(Facts)
      BY TypeFactsRecursion
    <2>3. ss = [k \in 1 .. 1 |-> facts]
      <3>1. DOMAIN t.meant = 1 .. 1 /\ \A k \in 1 .. 1 : t.meant[k] = i
        BY <2>1
      <3> QED
        BY <3>1
    <2>4. TypeArgumentFacts(t) = FlattenSeq(ss)
      BY DEF TypeArgumentFacts, InAll
    <2> HIDE DEF ss, facts
    <2>5. FlattenSeq(ss) = facts
      BY <2>2, <2>3, FlattenOne
    <2> QED
      BY <2>1, <2>2, <2>4, <2>5 DEF facts
  <1> QED
    BY <1>1, <1>2

\* A type argument, whatever its text; what is seen of it, when its author means a type.
TypeArgumentLaid(t, good) == Laid(<< Enum("TypeTag") >>, TypeArgument(t), TypeArgumentFacts(t), good)
\* The same for every type argument that a block can hold.
TypesLaid ==
  \A t : \A good \in BOOLEAN : IsTypeArgument(t) /\ (good => t.meant # << >>) => TypeArgumentLaid(t, good)

\* A type argument is laid out as the schema says; what its author means is seen and accepted.
LEMMA EveryTypeLaid == TypesLaid
  <1> SUFFICES ASSUME NEW t, NEW good \in BOOLEAN, IsTypeArgument(t), good => t.meant # << >>
               PROVE  TypeArgumentLaid(t, good)
    BY DEF TypesLaid
  <1>1. TypeArgumentFacts(t) \in Seq(Facts) /\ t.text \in Seq(Nat)
    BY TypeArgumentMeans DEF IsTypeArgument, IsText
  <1>2. CASE good = FALSE
    <2>1. Laid(TagThings, TypeTag(t.text), TypeArgumentFacts(t), FALSE)
      BY <1>1, AnyTypeLaid
    <2> QED
      BY <1>2, <2>1 DEF TypeArgumentLaid, TypeArgument, TagThings
  <1>3. CASE good = TRUE
    <2>1. PICK i \in DOMAIN Types : t.text = Written(i) /\ TypeArgumentFacts(t) = TypeFacts(i)
      BY <1>3, TypeArgumentMeans
    <2>2. Laid(TagThings, TypeTag(Written(i)), TypeFacts(i), TRUE)
      BY EveryTypeMeant DEF TypeMeant
    <2> QED
      BY <1>3, <2>1, <2>2 DEF TypeArgumentLaid, TypeArgument, TagThings
  <1> QED
    BY <1>2, <1>3

-----------------------------------------------------------------------------
(* The vectors of a block. *)

\* The vectors of a block: arguments,
LEMMA LaidArguments ==
  ASSUME NEW good, NEW items, Each(items, IsArgument)
  PROVE  Laid(<< Vec("Argument") >>, Many(items, Argument), InAll(items, ArgumentFacts), good)
  <1> DEFINE fields == [i \in DOMAIN items |-> Argument(items[i])]
             facts == [i \in DOMAIN items |-> ArgumentFacts(items[i])]
  <1>1. Items(items) /\ \A i \in DOMAIN items : IsArgument(items[i])
    BY DEF Each, Items
  <1>2. Element("Argument") = << Enum("Argument") >> /\ "Argument" \in Words
    BY DEF Element, Words
  <1>3. \A i \in DOMAIN items : Laid(Element("Argument"), fields[i], facts[i], good)
    BY <1>1, <1>2, LaidArgument
  <1>4. fields = [i \in DOMAIN items |-> fields[i]] /\ facts = [i \in DOMAIN items |-> facts[i]]
    OBVIOUS
  <1>5. Many(items, Argument) = << Length(items) >> \o FlattenSeq(fields)
    BY DEF Many
  <1>6. InAll(items, ArgumentFacts) = FlattenSeq(facts)
    BY DEF InAll
  <1> HIDE DEF fields, facts
  <1> QED
    BY <1>1, <1>2, <1>3, <1>4, <1>5, <1>6, LaidItems

\* gas coins,
LEMMA LaidRefs ==
  ASSUME NEW good, NEW items, Each(items, IsRef)
  PROVE  Laid(<< Vec("ObjectRef") >>, Many(items, ObjectRef), InAll(items, RefFacts), good)
  <1> DEFINE fields == [i \in DOMAIN items |-> ObjectRef(items[i])]
             facts == [i \in DOMAIN items |-> RefFacts(items[i])]
  <1>1. Items(items) /\ \A i \in DOMAIN items : IsRef(items[i])
    BY DEF Each, Items
  <1>2. Element("ObjectRef") = RefThings /\ "ObjectRef" \in Words
    BY DEF Element, Words
  <1>3. \A i \in DOMAIN items : Laid(Element("ObjectRef"), fields[i], facts[i], good)
    BY <1>1, <1>2, LaidRef
  <1>4. fields = [i \in DOMAIN items |-> fields[i]] /\ facts = [i \in DOMAIN items |-> facts[i]]
    OBVIOUS
  <1>5. Many(items, ObjectRef) = << Length(items) >> \o FlattenSeq(fields)
    BY DEF Many
  <1>6. InAll(items, RefFacts) = FlattenSeq(facts)
    BY DEF InAll
  <1> HIDE DEF fields, facts
  <1> QED
    BY <1>1, <1>2, <1>3, <1>4, <1>5, <1>6, LaidItems

\* inputs,
LEMMA LaidInputs ==
  ASSUME NEW good, NEW items, Each(items, IsInput)
  PROVE  Laid(<< Vec("CallArg") >>, Many(items, CallArg), InAll(items, InputFacts), good)
  <1> DEFINE fields == [i \in DOMAIN items |-> CallArg(items[i])]
             facts == [i \in DOMAIN items |-> InputFacts(items[i])]
  <1>1. Items(items) /\ \A i \in DOMAIN items : IsInput(items[i])
    BY DEF Each, Items
  <1>2. Element("CallArg") = << Enum("CallArg") >> /\ "CallArg" \in Words
    BY DEF Element, Words
  <1>3. \A i \in DOMAIN items : Laid(Element("CallArg"), fields[i], facts[i], good)
    BY <1>1, <1>2, LaidInput
  <1>4. fields = [i \in DOMAIN items |-> fields[i]] /\ facts = [i \in DOMAIN items |-> facts[i]]
    OBVIOUS
  <1>5. Many(items, CallArg) = << Length(items) >> \o FlattenSeq(fields)
    BY DEF Many
  <1>6. InAll(items, InputFacts) = FlattenSeq(facts)
    BY DEF InAll
  <1> HIDE DEF fields, facts
  <1> QED
    BY <1>1, <1>2, <1>3, <1>4, <1>5, <1>6, LaidItems

\* type arguments,
LEMMA LaidTypes ==
  ASSUME NEW good \in BOOLEAN, NEW items, Each(items, IsTypeArgument),
         \A i \in DOMAIN items : good => items[i].meant # << >>
  PROVE  Laid(<< Vec("TypeTag") >>, Many(items, TypeArgument), InAll(items, TypeArgumentFacts), good)
  <1> DEFINE fields == [i \in DOMAIN items |-> TypeArgument(items[i])]
             facts == [i \in DOMAIN items |-> TypeArgumentFacts(items[i])]
  <1>1. Items(items) /\ \A i \in DOMAIN items : IsTypeArgument(items[i])
    BY DEF Each, Items
  <1>2. Element("TypeTag") = << Enum("TypeTag") >> /\ "TypeTag" \in Words
    BY DEF Element, Words
  <1>a. \A i \in DOMAIN items : TypeArgumentLaid(items[i], good)
    BY <1>1, EveryTypeLaid DEF TypesLaid
  <1>3. \A i \in DOMAIN items : Laid(Element("TypeTag"), fields[i], facts[i], good)
    BY <1>a, <1>2 DEF TypeArgumentLaid
  <1>4. fields = [i \in DOMAIN items |-> fields[i]] /\ facts = [i \in DOMAIN items |-> facts[i]]
    OBVIOUS
  <1>5. Many(items, TypeArgument) = << Length(items) >> \o FlattenSeq(fields)
    BY DEF Many
  <1>6. InAll(items, TypeArgumentFacts) = FlattenSeq(facts)
    BY DEF InAll
  <1> HIDE DEF fields, facts
  <1> QED
    BY <1>1, <1>2, <1>3, <1>4, <1>5, <1>6, LaidItems

\* modules,
LEMMA LaidModules ==
  ASSUME NEW good, NEW items, Each(items, LAMBDA code : code \in Seq(Byte))
  PROVE  Laid(<< Vec("Module") >>, Many(items, Module), InAll(items, LAMBDA code : << Fact("code", code) >>), good)
  <1> DEFINE fields == [i \in DOMAIN items |-> Module(items[i])]
             facts == [i \in DOMAIN items |-> << Fact("code", items[i]) >>]
  <1>1. Items(items) /\ \A i \in DOMAIN items : items[i] \in Seq(Byte)
    BY DEF Each, Items
  <1>2. Element("Module") = << Plain("bytes", 0, "code") >> /\ "Module" \in Words
    BY DEF Element, Words
  <1>3. \A i \in DOMAIN items : Laid(Element("Module"), fields[i], facts[i], good)
    BY <1>1, <1>2, LaidCode DEF Module
  <1>4. fields = [i \in DOMAIN items |-> fields[i]] /\ facts = [i \in DOMAIN items |-> facts[i]]
    OBVIOUS
  <1>5. Many(items, Module) = << Length(items) >> \o FlattenSeq(fields)
    BY DEF Many
  <1>6. InAll(items, LAMBDA code : << Fact("code", code) >>) = FlattenSeq(facts)
    BY DEF InAll
  <1> HIDE DEF fields, facts
  <1> QED
    BY <1>1, <1>2, <1>3, <1>4, <1>5, <1>6, LaidItems, Zenon

\* and dependencies.
LEMMA LaidDependencies ==
  ASSUME NEW good, NEW items, Each(items, IsText)
  PROVE  Laid(<< Vec("Dependency") >>, Many(items, Dependency),
              InAll(items, LAMBDA id : << Fact("dependency", id) >>), good)
  <1> DEFINE fields == [i \in DOMAIN items |-> Dependency(items[i])]
             facts == [i \in DOMAIN items |-> << Fact("dependency", items[i]) >>]
  <1>1. Items(items) /\ \A i \in DOMAIN items : items[i] \in Seq(Nat)
    BY DEF Each, Items, IsText
  <1>2. /\ Element("Dependency") = << Id("dependency") >> /\ "Dependency" \in Words
        /\ "dependency" \in IdRoles
    BY DEF Element, Words, IdRoles
  <1>3. \A i \in DOMAIN items : Laid(Element("Dependency"), fields[i], facts[i], good)
    BY <1>1, <1>2, LaidId DEF Dependency
  <1>4. fields = [i \in DOMAIN items |-> fields[i]] /\ facts = [i \in DOMAIN items |-> facts[i]]
    OBVIOUS
  <1>5. Many(items, Dependency) = << Length(items) >> \o FlattenSeq(fields)
    BY DEF Many
  <1>6. InAll(items, LAMBDA id : << Fact("dependency", id) >>) = FlattenSeq(facts)
    BY DEF InAll
  <1> HIDE DEF fields, facts
  <1> QED
    BY <1>1, <1>2, <1>3, <1>4, <1>5, <1>6, LaidItems, Zenon

-----------------------------------------------------------------------------
(* Commands. *)

\* Any command: its kind, and what it is followed by.
LEMMA LaidKind ==
  ASSUME NEW good, NEW c, NEW n \in Nat, c.kind \in Words, n = CommandKind[c.kind],
         NEW fields, NEW facts, Laid(Variants("Command", n), fields, facts, good),
         Command(c) = << Variant(n) >> \o fields,
         CommandFacts(c) = << Fact("Command", c.kind) >> \o facts
  PROVE  Laid(<< Enum("Command") >>, Command(c), CommandFacts(c), good)
  <1>1. Means("Command", n, c.kind)
    BY DEF Means, IdRoles
  <1> QED
    BY <1>1, LaidTagged

\* MoveCall.serialize.
LEMMA LaidMoveCall ==
  ASSUME NEW good \in BOOLEAN, NEW c, c.kind = "moveCall", IsCommand(c), good => TypesMeant(c)
  PROVE  Laid(<< Enum("Command") >>, Command(c), CommandFacts(c), good)
  <1>1. /\ c.package \in Seq(Nat) /\ c.module \in Seq(Nat) /\ c.function \in Seq(Nat)
        /\ Each(c.types, IsTypeArgument) /\ Each(c.arguments, IsArgument)
    BY DEF IsCommand, IsText
  <1>2. \A i \in DOMAIN c.types : good => c.types[i].meant # << >>
    BY DEF TypesMeant
  <1> DEFINE T == Many(c.types, TypeArgument)
             A == Many(c.arguments, Argument)
             TF == InAll(c.types, TypeArgumentFacts)
             AF == InAll(c.arguments, ArgumentFacts)
             head == << Fixed(AddressBytes(c.package)), Str(c.module), Str(c.function) >>
             hf == << Fact("package", c.package), Fact("module", c.module), Fact("function", c.function) >>
  <1>3. Laid(<< Vec("TypeTag") >>, T, TF, good)
    BY <1>1, <1>2, LaidTypes
  <1>4. Laid(<< Vec("Argument") >>, A, AF, good)
    BY <1>1, LaidArguments
  <1> HIDE DEF T, A, TF, AF
  <1>5. Laid(<< Id("package"), Name("module"), Name("function") >>, head, hf, good)
    <2>1. "package" \in IdRoles
      BY DEF IdRoles
    <2>2. Laid(<< Id("package") >>, << Fixed(AddressBytes(c.package)) >>, << Fact("package", c.package) >>, good)
      BY <1>1, <2>1, LaidId
    <2>3. Laid(<< Name("module") >>, << Str(c.module) >>, << Fact("module", c.module) >>, good)
      BY <1>1, LaidName
    <2>4. Laid(<< Name("function") >>, << Str(c.function) >>, << Fact("function", c.function) >>, good)
      BY <1>1, LaidName
    <2>5. Laid((<< Id("package") >> \o << Name("module") >>) \o << Name("function") >>,
               (<< Fixed(AddressBytes(c.package)) >> \o << Str(c.module) >>) \o << Str(c.function) >>,
               (<< Fact("package", c.package) >> \o << Fact("module", c.module) >>)
                 \o << Fact("function", c.function) >>, good)
      BY <2>2, <2>3, <2>4, LaidBoth
    <2> QED
      BY <2>5, ThreeOnes
  <1> HIDE DEF head, hf
  <1>6. Laid((<< Id("package"), Name("module"), Name("function") >> \o << Vec("TypeTag") >>) \o << Vec("Argument") >>,
             (head \o T) \o A, (hf \o TF) \o AF, good)
    BY <1>3, <1>4, <1>5, LaidBoth
  <1>7. Variants("Command", 0)
          = (<< Id("package"), Name("module"), Name("function") >> \o << Vec("TypeTag") >>) \o << Vec("Argument") >>
    <2>1. Variants("Command", 0) = << Id("package"), Name("module"), Name("function"), Vec("TypeTag"), Vec("Argument") >>
      BY DEF Variants
    <2> QED
      BY <2>1, FiveOnes
  <1>8. CommandKind[c.kind] = 0 /\ c.kind \in Words
    BY DEF CommandKind, Words
  <1>9. Command(c) = << Variant(0) >> \o ((head \o T) \o A)
    BY <1>8 DEF Command, head, T, A
  <1>10. CommandFacts(c) = << Fact("Command", c.kind) >> \o ((hf \o TF) \o AF)
    BY <1>8, Zenon DEF CommandFacts, hf, TF, AF
  <1>11. Laid(Variants("Command", 0), (head \o T) \o A, (hf \o TF) \o AF, good)
    BY <1>6, <1>7
  <1> DEFINE n == CommandKind[c.kind]
             fields == (head \o T) \o A
             facts == (hf \o TF) \o AF
  <1>12. /\ n \in Nat /\ Laid(Variants("Command", n), fields, facts, good)
         /\ Command(c) = << Variant(n) >> \o fields
         /\ CommandFacts(c) = << Fact("Command", c.kind) >> \o facts
    BY <1>8, <1>9, <1>10, <1>11
  <1>13. n = CommandKind[c.kind]
    OBVIOUS
  <1> HIDE DEF n, fields, facts
  <1> QED
    BY <1>8, <1>12, <1>13, LaidKind

\* TransferObjects.serialize.
LEMMA LaidTransfer ==
  ASSUME NEW good, NEW c, c.kind = "transfer", IsCommand(c)
  PROVE  Laid(<< Enum("Command") >>, Command(c), CommandFacts(c), good)
  <1>1. Each(c.objects, IsArgument) /\ IsArgument(c.recipient)
    BY DEF IsCommand
  <1> DEFINE A == Many(c.objects, Argument)
             AF == InAll(c.objects, ArgumentFacts)
             R == Argument(c.recipient)
             RF == ArgumentFacts(c.recipient)
  <1>2. Laid(<< Vec("Argument") >>, A, AF, good) /\ Laid(<< Enum("Argument") >>, R, RF, good)
    BY <1>1, LaidArguments, LaidArgument
  <1> HIDE DEF A, AF, R, RF
  <1>3. Laid(<< Vec("Argument") >> \o << Enum("Argument") >>, A \o R, AF \o RF, good)
    BY <1>2, LaidBoth
  <1>4. Variants("Command", 1) = << Vec("Argument") >> \o << Enum("Argument") >>
    <2>1. Variants("Command", 1) = << Vec("Argument"), Enum("Argument") >>
      BY DEF Variants
    <2> QED
      BY <2>1, TwoOnes
  <1>5. CommandKind[c.kind] = 1 /\ c.kind \in Words
    BY DEF CommandKind, Words
  <1>6. Command(c) = << Variant(1) >> \o (A \o R)
    BY <1>5 DEF Command, A, R
  <1>7. CommandFacts(c) = << Fact("Command", c.kind) >> \o (AF \o RF)
    BY <1>5, Zenon DEF CommandFacts, AF, RF
  <1> QED
    BY <1>3, <1>4, <1>5, <1>6, <1>7, LaidKind

\* SplitCoins.serialize.
LEMMA LaidSplit ==
  ASSUME NEW good, NEW c, c.kind = "split", IsCommand(c)
  PROVE  Laid(<< Enum("Command") >>, Command(c), CommandFacts(c), good)
  <1>1. Each(c.amounts, IsArgument) /\ IsArgument(c.coin)
    BY DEF IsCommand
  <1> DEFINE A == Many(c.amounts, Argument)
             AF == InAll(c.amounts, ArgumentFacts)
             R == Argument(c.coin)
             RF == ArgumentFacts(c.coin)
  <1>2. Laid(<< Vec("Argument") >>, A, AF, good) /\ Laid(<< Enum("Argument") >>, R, RF, good)
    BY <1>1, LaidArguments, LaidArgument
  <1> HIDE DEF A, AF, R, RF
  <1>3. Laid(<< Enum("Argument") >> \o << Vec("Argument") >>, R \o A, RF \o AF, good)
    BY <1>2, LaidBoth
  <1>4. Variants("Command", 2) = << Enum("Argument") >> \o << Vec("Argument") >>
    BY TwoOnes DEF Variants
  <1>5. CommandKind[c.kind] = 2 /\ c.kind \in Words
    BY DEF CommandKind, Words
  <1>6. Command(c) = << Variant(2) >> \o (R \o A)
    BY <1>5 DEF Command, A, R
  <1>7. CommandFacts(c) = << Fact("Command", c.kind) >> \o (RF \o AF)
    BY <1>5, Zenon DEF CommandFacts, AF, RF
  <1> QED
    BY <1>3, <1>4, <1>5, <1>6, <1>7, LaidKind

\* MergeCoins.serialize.
LEMMA LaidMerge ==
  ASSUME NEW good, NEW c, c.kind = "merge", IsCommand(c)
  PROVE  Laid(<< Enum("Command") >>, Command(c), CommandFacts(c), good)
  <1>1. Each(c.sources, IsArgument) /\ IsArgument(c.destination)
    BY DEF IsCommand
  <1> DEFINE A == Many(c.sources, Argument)
             AF == InAll(c.sources, ArgumentFacts)
             R == Argument(c.destination)
             RF == ArgumentFacts(c.destination)
  <1>2. Laid(<< Vec("Argument") >>, A, AF, good) /\ Laid(<< Enum("Argument") >>, R, RF, good)
    BY <1>1, LaidArguments, LaidArgument
  <1> HIDE DEF A, AF, R, RF
  <1>3. Laid(<< Enum("Argument") >> \o << Vec("Argument") >>, R \o A, RF \o AF, good)
    BY <1>2, LaidBoth
  <1>4. Variants("Command", 3) = << Enum("Argument") >> \o << Vec("Argument") >>
    BY TwoOnes DEF Variants
  <1>5. CommandKind[c.kind] = 3 /\ c.kind \in Words
    BY DEF CommandKind, Words
  <1>6. Command(c) = << Variant(3) >> \o (R \o A)
    BY <1>5 DEF Command, A, R
  <1>7. CommandFacts(c) = << Fact("Command", c.kind) >> \o (RF \o AF)
    BY <1>5, Zenon DEF CommandFacts, AF, RF
  <1> QED
    BY <1>3, <1>4, <1>5, <1>6, <1>7, LaidKind

\* Publish.serialize.
LEMMA LaidPublish ==
  ASSUME NEW good, NEW c, c.kind = "publish", IsCommand(c)
  PROVE  Laid(<< Enum("Command") >>, Command(c), CommandFacts(c), good)
  <1>1. Each(c.modules, LAMBDA code : code \in Seq(Byte)) /\ Each(c.dependencies, IsText)
    BY DEF IsCommand
  <1> DEFINE M == Many(c.modules, Module)
             MF == InAll(c.modules, LAMBDA code : << Fact("code", code) >>)
             D == Many(c.dependencies, Dependency)
             DF == InAll(c.dependencies, LAMBDA id : << Fact("dependency", id) >>)
  <1>2. Laid(<< Vec("Module") >>, M, MF, good) /\ Laid(<< Vec("Dependency") >>, D, DF, good)
    BY <1>1, LaidModules, LaidDependencies, Zenon
  <1> HIDE DEF M, MF, D, DF
  <1>3. Laid(<< Vec("Module") >> \o << Vec("Dependency") >>, M \o D, MF \o DF, good)
    BY <1>2, LaidBoth
  <1>4. Variants("Command", 4) = << Vec("Module") >> \o << Vec("Dependency") >>
    BY TwoOnes DEF Variants
  <1>5. CommandKind[c.kind] = 4 /\ c.kind \in Words
    BY DEF CommandKind, Words
  <1>6. Command(c) = << Variant(4) >> \o (M \o D)
    BY <1>5 DEF Command, M, D
  <1>7. CommandFacts(c) = << Fact("Command", c.kind) >> \o (MF \o DF)
    BY <1>5, Zenon DEF CommandFacts, MF, DF
  <1> QED
    BY <1>3, <1>4, <1>5, <1>6, <1>7, LaidKind

\* Command.serialize.
LEMMA LaidCommand ==
  ASSUME NEW good \in BOOLEAN, NEW c, IsCommand(c), good => TypesMeant(c)
  PROVE  Laid(<< Enum("Command") >>, Command(c), CommandFacts(c), good)
  <1>1. c.kind \in {"moveCall", "transfer", "split", "merge", "publish"}
    BY DEF IsCommand
  <1> QED
    BY <1>1, LaidMoveCall, LaidTransfer, LaidSplit, LaidMerge, LaidPublish

\* The commands of a block.
LEMMA LaidCommands ==
  ASSUME NEW good \in BOOLEAN, NEW items, Each(items, IsCommand),
         \A i \in DOMAIN items : good => TypesMeant(items[i])
  PROVE  Laid(<< Vec("Command") >>, Many(items, Command), InAll(items, CommandFacts), good)
  <1> DEFINE fields == [i \in DOMAIN items |-> Command(items[i])]
             facts == [i \in DOMAIN items |-> CommandFacts(items[i])]
  <1>1. Items(items) /\ \A i \in DOMAIN items : IsCommand(items[i])
    BY DEF Each, Items
  <1>2. Element("Command") = << Enum("Command") >> /\ "Command" \in Words
    BY DEF Element, Words
  <1>3. \A i \in DOMAIN items : Laid(Element("Command"), fields[i], facts[i], good)
    BY <1>1, <1>2, LaidCommand
  <1>4. fields = [i \in DOMAIN items |-> fields[i]] /\ facts = [i \in DOMAIN items |-> facts[i]]
    OBVIOUS
  <1>5. Many(items, Command) = << Length(items) >> \o FlattenSeq(fields)
    BY DEF Many
  <1>6. InAll(items, CommandFacts) = FlattenSeq(facts)
    BY DEF InAll
  <1> HIDE DEF fields, facts
  <1> QED
    BY <1>1, <1>2, <1>3, <1>4, <1>5, <1>6, LaidItems

-----------------------------------------------------------------------------
(* A whole block. *)

\* The fields of TransactionData, as they are grouped there.
LEMMA SevenOnes ==
  ASSUME NEW a, NEW b, NEW c, NEW d, NEW e, NEW f, NEW g
  PROVE  (((<< a >> \o << b >>) \o << c >>) \o << d, e, f >>) \o << g >> = << a, b, c, d, e, f, g >>
  <1> DEFINE X == {a, b, c, d, e, f, g}
             p == << a, b, c >>
             q == << d, e, f >>
             r == << g >>
             t == << a, b, c, d, e, f, g >>
             u == p \o q
  <1>1. /\ p \in Seq(X) /\ Len(p) = 3 /\ p[1] = a /\ p[2] = b /\ p[3] = c
        /\ q \in Seq(X) /\ Len(q) = 3 /\ q[1] = d /\ q[2] = e /\ q[3] = f
        /\ r \in Seq(X) /\ Len(r) = 1 /\ r[1] = g
    OBVIOUS
  <1>2. /\ t \in Seq(X) /\ Len(t) = 7 /\ t[1] = a /\ t[2] = b /\ t[3] = c /\ t[4] = d /\ t[5] = e
        /\ t[6] = f /\ t[7] = g
    OBVIOUS
  <1>7. (<< a >> \o << b >>) \o << c >> = p
    BY ThreeOnes
  <1> HIDE DEF X, p, q, r, t
  <1>3. /\ u \in Seq(X) /\ Len(u) = 6
        /\ \A i \in 1 .. 6 : u[i] = IF i <= 3 THEN p[i] ELSE q[i - 3]
    <2>1. /\ u \in Seq(X) /\ Len(u) = Len(p) + Len(q)
          /\ \A i \in 1 .. Len(p) + Len(q) : u[i] = IF i <= Len(p) THEN p[i] ELSE q[i - Len(p)]
      BY <1>1, ConcatProperties
    <2>2. Len(p) + Len(q) = 6 /\ Len(p) = 3
      BY <1>1
    <2> QED
      BY <2>1, <2>2
  <1> HIDE DEF u
  <1>4. /\ u \o r \in Seq(X) /\ Len(u \o r) = 7
        /\ \A i \in 1 .. 7 : (u \o r)[i] = IF i <= 6 THEN u[i] ELSE r[i - 6]
    <2>1. /\ u \o r \in Seq(X) /\ Len(u \o r) = Len(u) + Len(r)
          /\ \A i \in 1 .. Len(u) + Len(r) : (u \o r)[i] = IF i <= Len(u) THEN u[i] ELSE r[i - Len(u)]
      BY <1>1, <1>3, ConcatProperties
    <2>2. Len(u) + Len(r) = 7 /\ Len(u) = 6
      BY <1>1, <1>3
    <2> QED
      BY <2>1, <2>2
  <1>5. \A i \in 1 .. 7 : (u \o r)[i] = t[i]
    <2>0. \A i \in 1 .. 7 : i = 1 \/ i = 2 \/ i = 3 \/ i = 4 \/ i = 5 \/ i = 6 \/ i = 7
      OBVIOUS
    <2>1. u[1] = a /\ u[2] = b /\ u[3] = c /\ u[4] = d /\ u[5] = e /\ u[6] = f
      BY <1>1, <1>3
    <2>2. (u \o r)[1] = a /\ (u \o r)[2] = b /\ (u \o r)[3] = c /\ (u \o r)[4] = d /\ (u \o r)[5] = e
          /\ (u \o r)[6] = f /\ (u \o r)[7] = g
      BY <1>1, <1>4, <2>1
    <2> QED
      BY <1>2, <2>0, <2>2
  <1>6. u \o r = t
    BY <1>2, <1>4, <1>5, SeqEqual
  <1>8. (p \o q) \o r = t
    BY <1>6 DEF u
  <1> QED
    BY <1>7, <1>8 DEF q, r, t

\* TransactionExpiration.serialize.
LEMMA LaidExpiration ==
  ASSUME NEW good, NEW b, IsBlock(b)
  PROVE  Laid(<< Enum("Expiration") >>, Expiration(b), InAll(b.epoch, LAMBDA n : << Fact("epoch", n) >>), good)
  <1> DEFINE e == b.epoch
             facts == [i \in DOMAIN e |-> << Fact("epoch", e[i]) >>]
  <1>1. Items(e) /\ (\A i \in DOMAIN e : e[i] \in Int) /\ Len(e) <= 1
    BY DEF IsBlock, Each, Items
  <1>2. "Expiration" \in Words /\ "Expiration" \in Structure
    BY DEF Words, Structure
  <1>3. InAll(e, LAMBDA n : << Fact("epoch", n) >>) = FlattenSeq(facts)
    BY DEF InAll
  <1>4. CASE Len(e) = 0
    <2>1. e = << >>
      BY <1>1, <1>4 DEF Items
    <2>2. Expiration(b) = << Variant(0) >>
      BY <2>1 DEF Expiration
    <2>3. FlattenSeq(facts) = << >>
      <3>1. facts = << >>
        BY <2>1
      <3> HIDE DEF facts
      <3> QED
        BY <3>1 DEF FlattenSeq
    <2>4. Variants("Expiration", 0) = << >>
      BY DEF Variants
    <2>5. Laid(Variants("Expiration", 0), << >>, << >>, good)
      BY <2>4, LaidNothing
    <2>6. Laid(<< Enum("Expiration") >>, << Variant(0) >> \o << >>, << >>, good)
      BY <1>2, <2>5, LaidStructure
    <2>7. << Variant(0) >> \o << >> = << Variant(0) >>
      BY ConcatEmptySeq
    <2> QED
      BY <1>3, <2>2, <2>3, <2>6, <2>7, Zenon
  <1>5. CASE Len(e) = 1
    <2>1. e # << >> /\ DOMAIN e = 1 .. 1 /\ e[1] \in Int
      <3>1. DOMAIN e = 1 .. 1
        BY <1>1, <1>5 DEF Items
      <3>2. 1 \in DOMAIN e
        BY <3>1
      <3> QED
        BY <1>1, <3>1, <3>2
    <2>2. Expiration(b) = << Variant(1), U64(e[1]) >>
      BY <2>1 DEF Expiration
    <2>3. Laid(<< Number64("epoch") >>, << U64(e[1]) >>, << Fact("epoch", e[1]) >>, good)
      BY <2>1, LaidNumber64
    <2>4. FlattenSeq(facts) = << Fact("epoch", e[1]) >>
      <3>1. << Fact("epoch", e[1]) >> \in Seq(Facts)
        BY <2>3 DEF Laid
      <3>2. facts = [i \in 1 .. 1 |-> << Fact("epoch", e[1]) >>]
        BY <2>1
      <3> HIDE DEF facts
      <3> QED
        BY <3>1, <3>2, FlattenOne
    <2>5. Variants("Expiration", 1) = << Number64("epoch") >>
      BY DEF Variants
    <2>6. Laid(<< Enum("Expiration") >>, << Variant(1) >> \o << U64(e[1]) >>, << Fact("epoch", e[1]) >>, good)
      BY <1>2, <2>3, <2>5, LaidStructure
    <2> QED
      BY <1>3, <2>2, <2>4, <2>6, TwoOnes, Zenon
  <1>6. Len(e) = 0 \/ Len(e) = 1
    <2> DEFINE m == Len(e)
    <2>1. m \in Nat /\ m <= 1
      BY <1>1 DEF Items
    <2> HIDE DEF m
    <2>2. m = 0 \/ m = 1
      BY <2>1
    <2> QED
      BY <2>2 DEF m
  <1> QED
    BY <1>4, <1>5, <1>6, Zenon

\* The parts of a block, grouped as they are written and as they are read.
Regroups(X) ==
  \A V, K, S, P, G, E \in Seq(X) :
    V \o ((((K \o S) \o P) \o G) \o E) = (((V \o K) \o S) \o (P \o G)) \o E

\* The two groupings are the same.
LEMMA Regroup == \A X : Regroups(X)
  <1> SUFFICES ASSUME NEW X, NEW V \in Seq(X), NEW K \in Seq(X), NEW S \in Seq(X), NEW P \in Seq(X),
                      NEW G \in Seq(X), NEW E \in Seq(X)
               PROVE  V \o ((((K \o S) \o P) \o G) \o E) = (((V \o K) \o S) \o (P \o G)) \o E
    BY DEF Regroups
  <1> DEFINE KS == K \o S
             PG == P \o G
             KSPG == KS \o PG
  <1>1. \A a, b, c \in Seq(X) : (a \o b) \o c = a \o (b \o c)
    <2>1. Associates(X)
      BY Associative
    <2> QED
      BY <2>1 DEF Associates
  <1>2. KS \in Seq(X) /\ PG \in Seq(X)
    BY ConcatProperties
  <1>3. KSPG \in Seq(X)
    BY <1>2, ConcatProperties
  <1>4. (KS \o P) \o G = KSPG
    <2> HIDE DEF KS
    <2>1. \A c \in Seq(X) : (KS \o P) \o c = KS \o (P \o c)
      BY <1>1, <1>2, ZenonT(40)
    <2> QED
      BY <2>1, ZenonT(40)
  <1>5. (V \o KSPG) \o E = V \o (KSPG \o E)
    <2> HIDE DEF KSPG
    <2>1. \A c \in Seq(X) : (V \o KSPG) \o c = V \o (KSPG \o c)
      BY <1>1, <1>3, ZenonT(40)
    <2> QED
      BY <2>1, ZenonT(40)
  <1>6. (V \o KS) \o PG = V \o KSPG
    <2> HIDE DEF KS, PG
    <2>1. \A c \in Seq(X) : (V \o KS) \o c = V \o (KS \o c)
      BY <1>1, <1>2, ZenonT(40)
    <2> QED
      BY <1>2, <2>1, ZenonT(40) DEF KSPG
  <1>7. (V \o K) \o S = V \o KS
    <2>1. \A c \in Seq(X) : (V \o K) \o c = V \o (K \o c)
      BY <1>1, ZenonT(40)
    <2> QED
      BY <2>1, ZenonT(40)
  <1> HIDE DEF KS, PG, KSPG
  <1>8. V \o (((KS \o P) \o G) \o E) = (((V \o K) \o S) \o PG) \o E
    BY <1>4, <1>5, <1>6, <1>7, Zenon
  <1> QED
    BY <1>8 DEF KS, PG

\* TransactionData.serialize: a block, whatever it holds, is laid out as the schema says.
LEMMA LaidBlock ==
  ASSUME NEW b, IsBlock(b)
  PROVE  Laid(<< Enum("TransactionData") >>, TransactionData(b), Meant(b), WellTyped(b))
  <1> DEFINE good == WellTyped(b)
             I == Many(b.inputs, CallArg)
             IF_ == InAll(b.inputs, InputFacts)
             C == Many(b.commands, Command)
             CF == InAll(b.commands, CommandFacts)
             S == << Fixed(AddressBytes(b.sender)) >>
             SF == << Fact("sender", b.sender) >>
             P == Many(b.payment, ObjectRef)
             PF == InAll(b.payment, RefFacts)
             G == << Fixed(AddressBytes(b.sender)), U64(b.price), U64(b.budget) >>
             GF == << Fact("owner", b.sender), Fact("price", b.price), Fact("budget", b.budget) >>
             E == Expiration(b)
             EF == InAll(b.epoch, LAMBDA n : << Fact("epoch", n) >>)
             V == << Variant(0) >>
  <1>1. /\ Each(b.inputs, IsInput) /\ Each(b.commands, IsCommand) /\ b.sender \in Seq(Nat)
        /\ Each(b.payment, IsRef) /\ b.price \in Int /\ b.budget \in Int
    BY DEF IsBlock, IsText
  <1>2. good \in BOOLEAN /\ \A i \in DOMAIN b.commands : good => TypesMeant(b.commands[i])
    BY DEF WellTyped
  <1>3. Laid(<< Vec("CallArg") >>, I, IF_, good)
    BY <1>1, LaidInputs
  <1>4. Laid(<< Vec("Command") >>, C, CF, good)
    <2> HIDE DEF good
    <2> QED
      BY <1>1, <1>2, LaidCommands
  <1>5. Laid(<< Vec("ObjectRef") >>, P, PF, good)
    BY <1>1, LaidRefs
  <1>6. Laid(<< Id("sender") >>, S, SF, good)
    <2>1. "sender" \in IdRoles
      BY DEF IdRoles
    <2> QED
      BY <1>1, <2>1, LaidId
  <1>7. Laid(<< Id("owner"), Number64("price"), Number64("budget") >>, G, GF, good)
    <2>1. "owner" \in IdRoles
      BY DEF IdRoles
    <2>2. Laid(<< Id("owner") >>, << Fixed(AddressBytes(b.sender)) >>, << Fact("owner", b.sender) >>, good)
      BY <1>1, <2>1, LaidId
    <2>3. /\ Laid(<< Number64("price") >>, << U64(b.price) >>, << Fact("price", b.price) >>, good)
          /\ Laid(<< Number64("budget") >>, << U64(b.budget) >>, << Fact("budget", b.budget) >>, good)
      BY <1>1, LaidNumber64
    <2>4. Laid((<< Id("owner") >> \o << Number64("price") >>) \o << Number64("budget") >>,
               (<< Fixed(AddressBytes(b.sender)) >> \o << U64(b.price) >>) \o << U64(b.budget) >>,
               (<< Fact("owner", b.sender) >> \o << Fact("price", b.price) >>) \o << Fact("budget", b.budget) >>, good)
      BY <2>2, <2>3, LaidBoth
    <2> QED
      BY <2>4, ThreeOnes
  <1>8. Laid(<< Enum("Expiration") >>, E, EF, good)
    BY LaidExpiration, Zenon
  <1>a. TransactionData(b) = (((<< Variant(0), Variant(0) >> \o (I \o C)) \o S) \o (P \o G)) \o E
    BY DEF TransactionData, Programmable, Gas
  <1>b. Meant(b) = ((((IF_ \o CF) \o SF) \o PF) \o GF) \o EF
    BY Zenon DEF Meant
  <1>v. Variant(0) \in Fields
    BY VariantIsField
  <1> HIDE DEF I, IF_, C, CF, S, SF, P, PF, G, GF, E, EF, good
  <1>9. Laid(<< Enum("TransactionKind") >>, V \o (I \o C), IF_ \o CF, good)
    <2>1. Laid(<< Vec("CallArg") >> \o << Vec("Command") >>, I \o C, IF_ \o CF, good)
      BY <1>3, <1>4, LaidBoth
    <2>2. Variants("TransactionKind", 0) = << Vec("CallArg"), Vec("Command") >>
      BY DEF Variants
    <2>3. << Vec("CallArg") >> \o << Vec("Command") >> = << Vec("CallArg"), Vec("Command") >>
      BY TwoOnes
    <2>4. "TransactionKind" \in Words /\ "TransactionKind" \in Structure /\ 0 \in Nat
      BY DEF Words, Structure
    <2>5. Laid(Variants("TransactionKind", 0), I \o C, IF_ \o CF, good)
      BY <2>1, <2>2, <2>3
    <2> QED
      BY <2>4, <2>5, LaidStructure
  <1>10. Laid((((<< Enum("TransactionKind") >> \o << Id("sender") >>) \o << Vec("ObjectRef") >>)
                 \o << Id("owner"), Number64("price"), Number64("budget") >>) \o << Enum("Expiration") >>,
              ((((V \o (I \o C)) \o S) \o P) \o G) \o E,
              ((((IF_ \o CF) \o SF) \o PF) \o GF) \o EF, good)
    BY <1>5, <1>6, <1>7, <1>8, <1>9, LaidBoth
  <1>11. Laid(Variants("TransactionData", 0), ((((V \o (I \o C)) \o S) \o P) \o G) \o E, Meant(b), good)
    <2>1. Variants("TransactionData", 0)
            = << Enum("TransactionKind"), Id("sender"), Vec("ObjectRef"), Id("owner"), Number64("price"),
                 Number64("budget"), Enum("Expiration") >>
      BY DEF Variants
    <2>2. Variants("TransactionData", 0)
            = (((<< Enum("TransactionKind") >> \o << Id("sender") >>) \o << Vec("ObjectRef") >>)
                 \o << Id("owner"), Number64("price"), Number64("budget") >>) \o << Enum("Expiration") >>
      <3>1. (((<< Enum("TransactionKind") >> \o << Id("sender") >>) \o << Vec("ObjectRef") >>)
                 \o << Id("owner"), Number64("price"), Number64("budget") >>) \o << Enum("Expiration") >>
              = << Enum("TransactionKind"), Id("sender"), Vec("ObjectRef"), Id("owner"), Number64("price"),
                   Number64("budget"), Enum("Expiration") >>
        BY SevenOnes
      <3> QED
        BY <2>1, <3>1, Zenon
    <2> QED
      BY <1>b, <1>10, <2>2
  <1> DEFINE body == ((((V \o (I \o C)) \o S) \o P) \o G) \o E
  <1>12. Laid(<< Enum("TransactionData") >>, V \o body, Meant(b), good)
    <2>1. "TransactionData" \in Words /\ "TransactionData" \in Structure /\ 0 \in Nat
      BY DEF Words, Structure
    <2>2. Laid(Variants("TransactionData", 0), body, Meant(b), good)
      BY <1>11
    <2> HIDE DEF body
    <2> QED
      BY <2>1, <2>2, LaidStructure
  <1>13. V \o body = TransactionData(b)
    <2>1. /\ V \in Seq(Fields) /\ I \in Seq(Fields) /\ C \in Seq(Fields) /\ S \in Seq(Fields) /\ P \in Seq(Fields)
          /\ G \in Seq(Fields) /\ E \in Seq(Fields)
      BY <1>v, <1>3, <1>4, <1>5, <1>6, <1>7, <1>8 DEF Laid
    <2> DEFINE M == I \o C
               K == V \o M
               W == << Variant(0), Variant(0) >>
    <2>2. M \in Seq(Fields)
      BY <2>1, ConcatProperties
    <2>3. V \o K = W \o M
      BY <1>v, <2>2, OneThenOne
    <2> HIDE DEF M
    <2>4. K \in Seq(Fields)
      BY <2>1, <2>2, ConcatProperties
    <2> HIDE DEF K, V, W
    <2>11. V \o ((((K \o S) \o P) \o G) \o E) = (((W \o M) \o S) \o (P \o G)) \o E
      <3>1. V \o ((((K \o S) \o P) \o G) \o E) = (((V \o K) \o S) \o (P \o G)) \o E
        <4>1. /\ V \in Seq(Fields) /\ K \in Seq(Fields) /\ S \in Seq(Fields) /\ P \in Seq(Fields)
              /\ G \in Seq(Fields) /\ E \in Seq(Fields)
          BY <2>1, <2>4
        <4> HIDE DEF body
        <4> QED
          <5>1. \A v, k, s, p, g, e \in Seq(Fields) :
                  v \o ((((k \o s) \o p) \o g) \o e) = (((v \o k) \o s) \o (p \o g)) \o e
            <6>1. Regroups(Fields)
              BY Regroup
            <6> QED
              BY <6>1 DEF Regroups
          <5>2. \A s, p, g, e \in Seq(Fields) :
                  V \o ((((K \o s) \o p) \o g) \o e) = (((V \o K) \o s) \o (p \o g)) \o e
            BY ONLY <4>1, <5>1, ZenonT(40)
          <5>3. \A g, e \in Seq(Fields) :
                  V \o ((((K \o S) \o P) \o g) \o e) = (((V \o K) \o S) \o (P \o g)) \o e
            BY ONLY <4>1, <5>2
          <5> QED
            BY ONLY <4>1, <5>3
      <3> QED
        BY <2>3, <3>1, Zenon
    <2> QED
      BY <1>a, <2>11 DEF M, K, W
  <1> QED
    BY <1>12, <1>13 DEF good

-----------------------------------------------------------------------------
(* What the node sees, read by read. *)

\* What is seen of values that are read in some roles.
SeenOf(rs, vs) ==
  FlattenSeq([i \in DOMAIN rs |->
    IF rs[i] \in Structure THEN << >> ELSE << [role |-> rs[i], value |-> vs[i].value] >>])

\* Values that are not refused.
NoneRefused(seen) == \A k \in 1 .. Len(seen) : seen[k].value # Refused

\* Nothing is seen of nothing.
LEMMA SeenNothing == SeenOf(<< >>, << >>) = << >>
  <1> DEFINE r == << >>
             ss == [i \in DOMAIN r |-> IF r[i] \in Structure THEN << >>
                                       ELSE << [role |-> r[i], value |-> r[i].value] >>]
  <1>1. ss = << >>
    OBVIOUS
  <1>2. SeenOf(<< >>, << >>) = FlattenSeq(ss)
    BY DEF SeenOf
  <1> HIDE DEF ss
  <1> QED
    BY <1>1, <1>2 DEF FlattenSeq

\* One more value.
LEMMA SeenNext ==
  ASSUME NEW n \in Nat, NEW rs \in Seq(Words), Len(rs) = n, NEW w \in Words, NEW vs, NEW ws,
         \A i \in 1 .. n : vs[i].value \in Data /\ ws[i].value = vs[i].value,
         ws[n + 1].value \in Data
  PROVE  SeenOf(Append(rs, w), ws)
           = SeenOf(rs, vs) \o (IF w \in Structure THEN << >> ELSE << [role |-> w, value |-> ws[n + 1].value] >>)
  <1> DEFINE Of(r, v) == IF r \in Structure THEN << >> ELSE << [role |-> r, value |-> v.value] >>
             rs2 == Append(rs, w)
             ss == [i \in 1 .. n + 1 |-> Of(rs2[i], ws[i])]
             tt == [i \in 1 .. n |-> Of(rs[i], vs[i])]
  <1>1. /\ DOMAIN rs = 1 .. n /\ DOMAIN rs2 = 1 .. n + 1 /\ rs2[n + 1] = w
        /\ \A i \in 1 .. n : rs2[i] = rs[i] /\ rs[i] \in Words /\ rs2[i] \in Words
    <2>1. rs2 \in Seq(Words) /\ Len(rs2) = n + 1 /\ rs2[n + 1] = w /\ \A i \in 1 .. n : rs2[i] = rs[i]
      BY AppendProperties
    <2> QED
      BY <2>1, LenProperties, ElementOfSeq
  <1> HIDE DEF rs2
  <1>2. \A r \in Words : \A v : v.value \in Data => Of(r, v) \in Seq(Sights)
    <2> SUFFICES ASSUME NEW r \in Words, NEW v, v.value \in Data PROVE Of(r, v) \in Seq(Sights)
      OBVIOUS
    <2>1. [role |-> r, value |-> v.value] \in Sights
      BY DEF Sights
    <2> QED
      BY <2>1
  <1>3. \A i \in 1 .. n + 1 : i \in 1 .. n \/ i = n + 1
    OBVIOUS
  <1>4. ss \in [1 .. n + 1 -> Seq(Sights)]
    <2> SUFFICES ASSUME NEW i \in 1 .. n + 1 PROVE Of(rs2[i], ws[i]) \in Seq(Sights)
      OBVIOUS
    <2>1. rs2[i] \in Words /\ ws[i].value \in Data
      BY <1>1, <1>3
    <2> HIDE DEF Of
    <2> QED
      BY <1>2, <2>1
  <1>5. [i \in 1 .. n |-> ss[i]] = tt
    <2>1. \A i \in 1 .. n : i \in 1 .. n + 1 /\ Of(rs2[i], ws[i]) = Of(rs[i], vs[i])
      BY <1>1
    <2> HIDE DEF Of
    <2> QED
      BY <2>1
  <1>6. SeenOf(rs2, ws) = FlattenSeq(ss)
    BY <1>1 DEF SeenOf
  <1>7. SeenOf(rs, vs) = FlattenSeq(tt)
    BY <1>1 DEF SeenOf
  <1>8. ss[n + 1] = Of(w, ws[n + 1])
    <2>1. n + 1 \in 1 .. n + 1
      OBVIOUS
    <2> HIDE DEF Of
    <2> QED
      BY <1>1, <2>1
  <1> HIDE DEF ss, tt, Of
  <1>9. FlattenSeq(ss) = FlattenSeq([i \in 1 .. n |-> ss[i]]) \o ss[n + 1]
    BY <1>4, FlattenAppend
  <1>10. FlattenSeq(ss) = FlattenSeq(tt) \o Of(w, ws[n + 1])
    BY <1>5, <1>8, <1>9
  <1> QED
    BY <1>6, <1>7, <1>10 DEF rs2, Of

-----------------------------------------------------------------------------
(* What the next field is of what the node expects. *)

\* Things that are read to the end.
LEMMA ReadsAll ==
  ASSUME NEW things \in Seq(Things), NEW fields \in Seq(Fields), NEW seen \in Seq(Sights),
         Reads(things, fields, seen)
  PROVE  << things, fields, seen >> \in Accepted
  <1>1. << << >>, << >>, << >> >> \in Accepted
    BY AcceptedClosed DEF Closed
  <1>2. << >> \in Seq(Things) /\ << >> \in Seq(Fields) /\ << >> \in Seq(Sights)
    BY EmptySeq
  <1>3. << things \o << >>, fields \o << >>, seen \o << >> >> \in Accepted
    BY <1>1, <1>2 DEF Reads
  <1>4. things \o << >> = things /\ fields \o << >> = fields /\ seen \o << >> = seen
    BY ConcatEmptySeq
  <1> QED
    BY <1>3, <1>4

\* The first of what is expected is there, and is followed by what is below it.
Follows(things, fields, more) ==
  /\ things # << >> /\ fields # << >>
  /\ Head(things) \in Things /\ Head(fields) \in Fields /\ Match(Head(things), Head(fields))
  /\ \E seen \in Seq(Sights) :
       /\ more = Own(Head(things), Head(fields)) \o seen
       /\ << Below(Head(things), Head(fields).value) \o Tail(things), Tail(fields), seen >> \in Accepted

\* An accepted reading is of nothing, or a field and an accepted reading of the rest.
LEMMA AcceptedSteps ==
  ASSUME NEW things, NEW fields, NEW more, << things, fields, more >> \in Accepted
  PROVE  \/ things = << >> /\ fields = << >> /\ more = << >>
         \/ Follows(things, fields, more)
  <1> DEFINE x == << things, fields, more >>
             nothing == << << >>, << >>, << >> >>
  <1>1. CASE x = nothing
    BY <1>1
  <1>2. CASE x # nothing
    <2>1. Comes(x)
      <3> HIDE DEF nothing
      <3> QED
        BY AcceptedComes
    <2> HIDE DEF x
    <2>2. PICK h \in Things, v \in Fields, hs \in Seq(Things), vs \in Seq(Fields), seen \in Seq(Sights) :
             /\ Match(h, v) /\ << Below(h, v.value) \o hs, vs, seen >> \in Accepted
             /\ x = << << h >> \o hs, << v >> \o vs, Own(h, v) \o seen >>
      BY <1>2, <2>1 DEF Comes
    <2>3. things = << h >> \o hs /\ fields = << v >> \o vs /\ more = Own(h, v) \o seen
      BY <2>2 DEF x
    <2>4. /\ things # << >> /\ Head(things) = h /\ Tail(things) = hs
          /\ fields # << >> /\ Head(fields) = v /\ Tail(fields) = vs
      BY <2>3, HeadOfOne
    <2> QED
      BY <2>2, <2>3, <2>4 DEF Follows
  <1> QED
    BY <1>1, <1>2

-----------------------------------------------------------------------------
(* The inductive invariant of the node that reads a block. *)

\* What the node has not read yet.
Rest == SubSeq(written, Len(got) + 1, Len(written))

\* What the node expects is what is left of the block, and what it has seen, with what it is
\* about to see, is what the block means.
Following ==
  /\ roles \in Seq(Words) /\ Len(roles) = Len(got)
  /\ Seen \in Seq(Sights) /\ NoneRefused(Seen)
  /\ \E more \in Seq(Sights) : /\ << todo, Rest, more >> \in Accepted
                               /\ WellTyped(block) => Meets(Seen \o more, Meant(block))

\* A block was serialized whole or refused as a whole, and the node reads nothing else.
BlockWritten ==
  /\ block = NoBlock => todo = << >> /\ roles = << >>
  /\ block # NoBlock =>
       /\ block \in Blocks /\ origin # "foreign"
       /\ \/ written = TransactionData(block) /\ written # << >> /\ Serializable(written)
          \/ written = << >> /\ origin = "none" /\ ~Serializable(TransactionData(block))
       /\ origin = "none" => todo = << >> /\ roles = << >>

\* A node that reads a block follows it.
NodeFollows == (block # NoBlock /\ origin # "none") => Following

\* The invariant: the one of the BCS engine, and what holds of the block and of the node.
BlockIInv == IInv /\ BlockWritten /\ NodeFollows

\* It holds before anything is written.
LEMMA BlockInitInvariant == BlockInit => BlockIInv
  <1> SUFFICES ASSUME BlockInit PROVE BlockIInv
    OBVIOUS
  <1>1. Init /\ block = NoBlock /\ todo = << >> /\ roles = << >>
    BY DEF BlockInit
  <1> QED
    BY <1>1, InitInvariant DEF BlockIInv, BlockWritten, NodeFollows

\* What is written for a block is made of values that the engine writes.
LEMMA FieldsAreShaped ==
  ASSUME NEW vs \in Seq(Fields), Serializable(vs), TextsInUtf8(vs)
  PROVE  vs \in Seq(Shaped)
  <1>1. DOMAIN vs = 1 .. Len(vs) /\ Len(vs) \in Nat /\ vs \in [1 .. Len(vs) -> Fields]
    BY LenProperties
  <1>2. ASSUME NEW i \in 1 .. Len(vs) PROVE vs[i] \in Shaped
    <2> DEFINE v == vs[i]
    <2>1. v \in Fields /\ v.value # Refused /\ (v.kind = "str" => v.value \in Seq(Byte) /\ v.value \in Utf8)
      BY <1>1 DEF Serializable, TextsInUtf8
    <2> HIDE DEF v
    <2>2. /\ v = [kind |-> v.kind, width |-> v.width, value |-> v.value]
          /\ v.kind \in Kinds /\ v.width \in Nat
      BY <2>1 DEF Fields
    <2>3. /\ v.kind \in {"uint", "uleb"} => v.value \in Int
          /\ v.kind \in {"bool", "option"} => v.value \in BOOLEAN
          /\ v.kind \in {"bytes", "fixed"} => v.value \in Seq(Byte)
          /\ v.kind = "fixed" => v.width = Len(v.value)
      BY <2>1 DEF Fields
    <2>4. v.value \in Int \cup BOOLEAN \cup Seq(Byte)
      BY <2>1, <2>2, <2>3 DEF Kinds
    <2>5. IsValue(v)
      BY <2>1, <2>2, <2>3 DEF IsValue, Kinds
    <2>6. v \in [kind : Kinds, width : Nat, value : Int \cup BOOLEAN \cup Seq(Byte)]
      BY <2>2, <2>4
    <2>7. v \in Shaped
      BY <2>5, <2>6 DEF Shaped
    <2> QED
      BY <2>7 DEF v
  <1>3. \E k \in Nat : vs \in [1 .. k -> Shaped]
    BY <1>1, <1>2
  <1> QED
    BY <1>3 DEF Seq

\* The bytes of encodable values are bytes.
LEMMA EncodeAllInSeq ==
  ASSUME NEW vs \in Seq(Shaped), \A i \in 1 .. Len(vs) : InRange(vs[i])
  PROVE  EncodeAll(vs) \in Seq(Byte)
  <1>1. Encodable(vs)
    <2>1. \A i \in 1 .. Len(vs) : vs[i] \in Shaped
      BY ElementOfSeq
    <2> QED
      BY <2>1, EncodeIsBytes DEF Encodable
  <1>2. PICK f : /\ \A k \in 0 .. Len(vs) : f[k] \in Seq(Byte)
                 /\ EncodeAll(vs) = f[Len(vs)]
    BY <1>1, EncodeAllRecursion
  <1>3. Len(vs) \in 0 .. Len(vs)
    BY LenProperties
  <1> QED
    BY <1>2, <1>3

-----------------------------------------------------------------------------
(* Every action keeps it. *)

\* A block that is serialized is a reading of its own layout.
LEMMA SerializeKeeps ==
  ASSUME BlockIInv, NEW b \in Blocks, Serialize(b)
  PROVE  BlockIInv'
  <1>1. /\ Fresh /\ Serializable(TransactionData(b)) /\ block' = b /\ written' = TransactionData(b)
        /\ buf' = EncodeAll(written') /\ last' = "ok"
        /\ origin' = origin /\ data' = data /\ pos' = pos /\ got' = got /\ todo' = todo /\ roles' = roles
    BY DEF Serialize
  <1>2. block = NoBlock /\ origin = "none" /\ todo = << >> /\ roles = << >>
    BY <1>1 DEF Fresh, BlockIInv, BlockWritten
  <1>3. IsBlock(b) /\ TextsInUtf8(TransactionData(b)) /\ b # NoBlock
    BY BlocksAssumption, BlockAssumption
  <1> DEFINE vs == TransactionData(b)
  <1>4. vs \in Seq(Fields)
    BY <1>3, LaidBlock DEF Laid
  <1>5. vs # << >>
    <2>1. PICK seen \in Seq(Sights) : Reads(<< Enum("TransactionData") >>, vs, seen)
      BY <1>1, <1>3, LaidBlock DEF Laid
    <2>2. << Enum("TransactionData") >> \in Seq(Things)
      BY <1>3, LaidBlock DEF Laid
    <2>3. << << Enum("TransactionData") >>, vs, seen >> \in Accepted
      BY <1>4, <2>1, <2>2, ReadsAll
    <2>4. << Enum("TransactionData") >> # << >>
      OBVIOUS
    <2> HIDE DEF vs
    <2> QED
      BY <2>3, <2>4, AcceptedSteps DEF Follows
  <1> HIDE DEF vs
  <1>6. vs \in Seq(Shaped)
    BY <1>1, <1>3, <1>4, FieldsAreShaped DEF vs
  <1>7. \A i \in DOMAIN vs : InRange(vs[i])
    BY <1>1 DEF vs, Serializable
  <1>8. EncodeAll(vs) \in Seq(Byte)
    <2>1. DOMAIN vs = 1 .. Len(vs)
      BY <1>6, LenProperties
    <2> QED
      BY <1>6, <1>7, <2>1, EncodeAllInSeq
  <1>9. written' = vs /\ buf' = EncodeAll(vs)
    BY <1>1 DEF vs
  <1>10. IInv'
    <2>1. TypeOK'
      BY <1>1, <1>7, <1>8, <1>9, Zenon DEF BlockIInv, IInv, TypeOK
    <2>2. BufIsWritten'
      BY <1>6, <1>9 DEF BufIsWritten
    <2>3. GotIsReadable'
      BY <1>1 DEF BlockIInv, IInv, GotIsReadable, Encodable
    <2>4. NoReader'
      BY <1>1, Zenon DEF BlockIInv, IInv, NoReader, ReadErrors
    <2>5. ReadSoFar' /\ NoErrorInWhole' /\ AcceptsEncodings'
      BY <1>1, <1>2 DEF ReadSoFar, NoErrorInWhole, AcceptsEncodings
    <2> QED
      BY <2>1, <2>2, <2>3, <2>4, <2>5 DEF IInv
  <1>11. BlockWritten'
    <2>1. written' = TransactionData(block') /\ written' # << >> /\ Serializable(written')
      BY <1>1, <1>5, <1>9
    <2> QED
      BY <1>1, <1>2, <1>3, <2>1 DEF BlockWritten
  <1>12. NodeFollows'
    BY <1>1, <1>2 DEF NodeFollows
  <1> QED
    BY <1>10, <1>11, <1>12 DEF BlockIInv

\* A block that is refused leaves nothing behind.
LEMMA SerializeRaisesKeeps ==
  ASSUME BlockIInv, NEW b \in Blocks, SerializeRaises(b)
  PROVE  BlockIInv'
  <1>1. /\ Fresh /\ ~Serializable(TransactionData(b)) /\ block' = b /\ last' = "out of range"
        /\ buf' = buf /\ written' = written
        /\ origin' = origin /\ data' = data /\ pos' = pos /\ got' = got /\ todo' = todo /\ roles' = roles
    BY Zenon DEF SerializeRaises
  <1>2. block = NoBlock /\ origin = "none" /\ written = << >> /\ todo = << >> /\ roles = << >>
    BY <1>1, Zenon DEF Fresh, BlockIInv, BlockWritten
  <1>3. b # NoBlock
    BY BlockAssumption
  <1>4. IInv'
    <2>1. TypeOK'
      BY <1>1, Zenon DEF BlockIInv, IInv, TypeOK
    <2>2. BufIsWritten' /\ GotIsReadable'
      BY <1>1, Zenon DEF BlockIInv, IInv, BufIsWritten, GotIsReadable, Encodable
    <2>3. NoReader'
      BY <1>1, Zenon DEF BlockIInv, IInv, NoReader, ReadErrors
    <2>4. ReadSoFar' /\ NoErrorInWhole' /\ AcceptsEncodings'
      BY <1>1, <1>2, Zenon DEF ReadSoFar, NoErrorInWhole, AcceptsEncodings
    <2> QED
      BY <2>1, <2>2, <2>3, <2>4 DEF IInv
  <1>5. BlockWritten' /\ NodeFollows'
    BY <1>1, <1>2, <1>3, Zenon DEF BlockWritten, NodeFollows
  <1> QED
    BY <1>4, <1>5 DEF BlockIInv

\* The node starts with a whole block before it.
LEMMA NodeStartsKeeps ==
  ASSUME BlockIInv, NodeStarts
  PROVE  BlockIInv'
  <1>1. /\ block # NoBlock /\ written # << >> /\ (ReadWhole \/ ReadCut)
        /\ todo' = << Enum("TransactionData") >> /\ block' = block /\ roles' = roles
    BY DEF NodeStarts
  <1>2. IInv'
    BY <1>1, ReadWholeKeeps, ReadCutKeeps DEF BlockIInv
  <1>3. /\ origin = "none" /\ origin' \in {"whole", "cut"} /\ written' = written /\ got' = got
    BY <1>1 DEF ReadWhole, ReadCut, NewReader
  <1>4. /\ block \in Blocks /\ written = TransactionData(block) /\ Serializable(written) /\ roles = << >>
        /\ got = << >>
    BY <1>1, <1>3 DEF BlockIInv, BlockWritten, IInv, NoReader
  <1>5. IsBlock(block)
    BY <1>4, BlocksAssumption
  <1>6. PICK seen \in Seq(Sights) :
          /\ Reads(<< Enum("TransactionData") >>, written, seen)
          /\ WellTyped(block) => Meets(seen, Meant(block))
    BY <1>4, <1>5, LaidBlock DEF Laid
  <1>7. << Enum("TransactionData") >> \in Seq(Things) /\ written \in Seq(Fields)
    BY <1>4, <1>5, LaidBlock DEF Laid
  <1>8. << << Enum("TransactionData") >>, written, seen >> \in Accepted
    BY <1>6, <1>7, ReadsAll
  <1>9. Rest' = written
    <2>1. Len(got') + 1 = 1
      BY <1>3, <1>4, EmptySeq
    <2>2. SubSeq(written, 1, Len(written)) = written
      BY <1>7, SubSeqFull
    <2> QED
      BY <1>3, <2>1, <2>2 DEF Rest
  <1>10. Seen' = << >>
    <2>1. Seen' = SeenOf(roles', got')
      BY DEF Seen, SeenOf
    <2>2. roles' = << >> /\ got' = << >>
      BY <1>1, <1>3, <1>4
    <2> QED
      BY <2>1, <2>2, SeenNothing
  <1>11. Following'
    <2>1. /\ roles' \in Seq(Words) /\ Len(roles') = Len(got')
      BY <1>1, <1>3, <1>4, EmptySeq
    <2>2. << >> \in Seq(Sights) /\ NoneRefused(<< >>)
      BY EmptySeq DEF NoneRefused
    <2>3. Seen' \in Seq(Sights) /\ NoneRefused(Seen)'
      BY <1>10, <2>2 DEF NoneRefused
    <2>4. /\ << todo', Rest', seen >> \in Accepted
          /\ WellTyped(block') => Meets(Seen' \o seen, Meant(block'))
      <3>1. Seen' \o seen = seen
        BY <1>10, ConcatEmptySeq
      <3> QED
        BY <1>1, <1>6, <1>8, <1>9, <3>1
    <2> QED
      BY <2>1, <2>3, <2>4 DEF Following
  <1>12. BlockWritten'
    BY <1>1, <1>3, <1>4 DEF BlockWritten
  <1> QED
    BY <1>2, <1>11, <1>12 DEF BlockIInv, NodeFollows

\* The node expects what was written there.
LEMMA NodeExpects ==
  ASSUME BlockIInv, todo # << >>, Expects(Field(Head(todo)))
  PROVE  LET v == written[Len(got) + 1] IN
         /\ block # NoBlock /\ origin \in {"whole", "cut"} /\ Following
         /\ Len(got) \in Nat /\ Len(got) < Len(written) /\ Len(written) \in Nat
         /\ v \in Shaped /\ Field(Head(todo)) = Field(v)
         /\ written = TransactionData(block) /\ Serializable(written)
  <1>1. block # NoBlock
    BY DEF BlockIInv, BlockWritten
  <1>2. origin # "none"
    BY DEF Expects
  <1>3. origin \in {"whole", "cut"}
    BY <1>1, <1>2, Zenon DEF BlockIInv, BlockWritten, IInv, TypeOK
  <1>4. Following
    BY <1>1, <1>2 DEF BlockIInv, NodeFollows
  <1>5. Len(got) < Len(written) /\ Field(Head(todo)) = Field(written[Len(got) + 1])
    BY <1>3 DEF Expects
  <1>6. Len(got) \in Nat /\ Len(written) \in Nat /\ \A i \in 1 .. Len(written) : written[i] \in Shaped
    BY LenProperties, ElementOfSeq DEF BlockIInv, IInv, GotIsReadable, BufIsWritten
  <1>7. Len(got) + 1 \in 1 .. Len(written)
    BY <1>5, <1>6
  <1>8. written = TransactionData(block) /\ Serializable(written)
    BY <1>1, <1>2 DEF BlockIInv, BlockWritten
  <1> QED
    BY <1>1, <1>3, <1>4, <1>5, <1>6, <1>7, <1>8

\* What is read is data.
LEMMA ReadingIsData ==
  ASSUME NEW r \in Reading
  PROVE  r.value \in Data
  <1>1. r.value \in Seq(Byte) \cup Nat \cup BOOLEAN
    BY DEF Reading
  <1>2. \A s \in Seq(Byte) : s \in Seq(Nat)
    <2>1. Byte \subseteq Nat
      BY HexFacts
    <2> QED
      BY <2>1, SeqMonotonic
  <1> QED
    BY <1>1, <1>2 DEF Data

\* One more at the end.
LEMMA AppendOne ==
  ASSUME NEW X, NEW s \in Seq(X), NEW x, NEW t, t = Append(s, x)
  PROVE  Len(t) = Len(s) + 1 /\ \A i \in 1 .. Len(s) : t[i] = s[i]
  <1>1. s \in Seq(X \cup {x}) /\ x \in X \cup {x}
    BY SeqMonotonic
  <1> QED
    BY <1>1, AppendProperties

\* Sights of two parts.
LEMMA WrittenBoth ==
  ASSUME NEW s \in Seq(Sights), NEW t \in Seq(Sights), NoneRefused(s), NoneRefused(t)
  PROVE  s \o t \in Seq(Sights) /\ NoneRefused(s \o t)
  <1> DEFINE u == s \o t
  <1>1. /\ u \in Seq(Sights) /\ Len(u) = Len(s) + Len(t) /\ Len(s) \in Nat /\ Len(t) \in Nat
        /\ \A i \in 1 .. Len(s) + Len(t) : u[i] = IF i <= Len(s) THEN s[i] ELSE t[i - Len(s)]
    BY ConcatProperties, LenProperties
  <1> HIDE DEF u
  <1>2. ASSUME NEW i \in 1 .. Len(u) PROVE u[i].value # Refused
    <2>1. CASE i <= Len(s)
      <3>1. i \in 1 .. Len(s) /\ u[i] = s[i]
        BY <1>1, <2>1
      <3> QED
        BY <3>1 DEF NoneRefused
    <2>2. CASE ~(i <= Len(s))
      <3>1. i - Len(s) \in 1 .. Len(t) /\ u[i] = t[i - Len(s)]
        BY <1>1, <2>2
      <3> QED
        BY <3>1 DEF NoneRefused
    <2> QED
      BY <2>1, <2>2
  <1> QED
    BY <1>1, <1>2 DEF NoneRefused, u

\* The node reads one field, which is what it expects.
LEMMA NodeReadsKeeps ==
  ASSUME BlockIInv, NodeReads
  PROVE  BlockIInv'
  <1> DEFINE n == Len(got)
             h == Head(todo)
             v == written[n + 1]
  <1>1. /\ todo # << >> /\ ReadField(Field(h)) /\ block' = block
        /\ todo' = Below(h, Last(got').value) \o Tail(todo) /\ roles' = Append(roles, h.role)
    BY DEF NodeReads
  <1>2. /\ Expects(Field(h)) /\ written' = written /\ origin' = origin
        /\ got' = Append(got, [kind |-> h.kind, width |-> h.width, value |-> Read(Field(h)).value])
    BY <1>1, Zenon DEF ReadField, Field
  <1>3. /\ block # NoBlock /\ origin \in {"whole", "cut"} /\ Following
        /\ n \in Nat /\ n < Len(written) /\ Len(written) \in Nat
        /\ v \in Shaped /\ Field(h) = Field(v)
        /\ written = TransactionData(block) /\ Serializable(written)
    BY <1>1, <1>2, NodeExpects
  <1>4. IInv'
    BY <1>1, <1>3, ReadFieldKeeps DEF BlockIInv
  <1>5. /\ got' \in Seq(Reading) /\ Len(got') = n + 1 /\ \A i \in 1 .. n : got'[i] = got[i]
    <2>1. got' \in Seq(Reading)
      BY <1>4 DEF IInv, GotIsReadable
    <2>2. got \in Seq(Reading)
      BY DEF BlockIInv, IInv, GotIsReadable
    <2> QED
      BY <1>2, <2>1, <2>2, AppendOne
  <1> HIDE DEF h
  <1>6. \A i \in 1 .. n + 1 : got'[i] = written[i]
    <2>1. got' = SubSeq(written, 1, n + 1)
      BY <1>2, <1>3, <1>4, <1>5 DEF IInv, ReadSoFar
    <2>2. \A i \in 1 .. n + 1 : written[i] \in Shaped
      <3>1. written \in Seq(Shaped)
        BY DEF BlockIInv, IInv, BufIsWritten
      <3>2. \A i \in 1 .. n + 1 : i \in 1 .. Len(written)
        BY <1>3
      <3> QED
        BY <3>1, <3>2, ElementOfSeq
    <2>3. \A i \in 1 .. (n + 1) - 1 + 1 : SubSeq(written, 1, n + 1)[i] = written[1 + i - 1]
      BY <1>3, <2>2, SubSeqProperties
    <2> QED
      BY <1>3, <2>1, <2>3
  <1>7. Last(got') = v
    <2>1. n + 1 \in 1 .. n + 1
      BY <1>3
    <2> QED
      BY <1>5, <1>6, <2>1 DEF Last
  <1>8. PICK more \in Seq(Sights) : /\ << todo, Rest, more >> \in Accepted
                                    /\ WellTyped(block) => Meets(Seen \o more, Meant(block))
    BY <1>3 DEF Following
  <1>9. Follows(todo, Rest, more)
    BY <1>1, <1>8, AcceptedSteps
  <1>10. Head(Rest) = v /\ Tail(Rest) = SubSeq(written, n + 2, Len(written))
    <2>1. written \in Seq(Shaped)
      BY DEF BlockIInv, IInv, BufIsWritten
    <2>2. n + 1 \in 1 .. Len(written) /\ Len(written) \in n + 1 .. Len(written) /\ (n + 1) + 1 = n + 2
      BY <1>3
    <2>3. Head(SubSeq(written, n + 1, Len(written))) = written[n + 1]
          /\ Tail(SubSeq(written, n + 1, Len(written))) = SubSeq(written, (n + 1) + 1, Len(written))
      BY <2>1, <2>2, HeadTailOfSubSeq
    <2> QED
      BY <2>2, <2>3 DEF Rest
  <1>11. PICK seen \in Seq(Sights) :
           /\ more = Own(h, v) \o seen
           /\ << Below(h, v.value) \o Tail(todo), Tail(Rest), seen >> \in Accepted
    BY <1>9, <1>10 DEF Follows, h
  <1>12. h \in Things /\ v \in Fields
    BY <1>9, <1>10 DEF Follows, h
  <1>13. h.role \in Words /\ v.value \in Data /\ v.value # Refused
    <2>1. v.value # Refused
      <3>1. n + 1 \in DOMAIN written
        <4>1. DOMAIN written = 1 .. Len(written)
          BY LenProperties DEF BlockIInv, IInv, BufIsWritten
        <4> QED
          BY <1>3, <4>1
      <3> QED
        BY <1>3, <3>1 DEF Serializable
    <2> QED
      BY <1>12, <2>1 DEF Things, Fields
  <1>14. Rest' = Tail(Rest)
    <2>1. Len(got') + 1 = n + 2
      BY <1>3, <1>5
    <2> QED
      BY <1>2, <1>10, <2>1 DEF Rest
  <1>15. roles \in Seq(Words) /\ Len(roles) = n /\ Seen \in Seq(Sights) /\ NoneRefused(Seen)
    BY <1>3 DEF Following
  <1>16. Seen' = Seen \o Own(h, v)
    <2>1. SeenOf(Append(roles, h.role), got')
            = SeenOf(roles, got)
                \o (IF h.role \in Structure THEN << >> ELSE << [role |-> h.role, value |-> got'[n + 1].value] >>)
      <3>1. \A i \in 1 .. n : got[i].value \in Data /\ got'[i].value = got[i].value
        <4> SUFFICES ASSUME NEW i \in 1 .. n PROVE got[i].value \in Data /\ got'[i].value = got[i].value
          OBVIOUS
        <4>1. got \in Seq(Reading) /\ i \in 1 .. Len(got)
          BY DEF BlockIInv, IInv, GotIsReadable
        <4>2. got[i] \in Reading
          BY <4>1, ElementOfSeq
        <4>3. got[i].value \in Data
          BY <4>2, ReadingIsData
        <4> QED
          BY <1>5, <4>3
      <3>2. got'[n + 1].value \in Data
        <4>1. n + 1 \in 1 .. n + 1
          BY <1>3
        <4> QED
          BY <1>6, <1>13, <4>1
      <3> DEFINE w == h.role
                 vs == got
                 ws == got'
                 rs == roles
      <3>3. /\ n \in Nat /\ rs \in Seq(Words) /\ Len(rs) = n /\ w \in Words
            /\ \A i \in 1 .. n : vs[i].value \in Data /\ ws[i].value = vs[i].value
            /\ ws[n + 1].value \in Data
        BY <1>3, <1>13, <1>15, <3>1, <3>2
      <3> HIDE DEF n, v, w, vs, ws, rs
      <3>4. SeenOf(Append(rs, w), ws)
              = SeenOf(rs, vs) \o (IF w \in Structure THEN << >> ELSE << [role |-> w, value |-> ws[n + 1].value] >>)
        BY <3>3, SeenNext
      <3> QED
        BY <3>4 DEF rs, ws, vs, w
    <2>2. got'[n + 1] = v
      <3>1. n + 1 \in 1 .. n + 1
        BY <1>3
      <3> QED
        BY <1>6, <3>1
    <2>3. Seen' = SeenOf(roles', got') /\ Seen = SeenOf(roles, got)
      BY DEF Seen, SeenOf
    <2> QED
      BY <1>1, <2>1, <2>2, <2>3 DEF Own, h
  <1> HIDE DEF n, v
  <1>17. Following'
    <2>1. Own(h, v) \in Seq(Sights) /\ NoneRefused(Own(h, v))
      <3>1. Own(h, v) \in Seq(Sights)
        BY <1>12, OwnSights
      <3>2. CASE h.role \in Structure
        BY <3>2 DEF Own, NoneRefused
      <3>3. CASE h.role \notin Structure
        <4> DEFINE one == << [role |-> h.role, value |-> v.value] >>
        <4>1. Own(h, v) = one
          BY <3>3 DEF Own
        <4>2. Len(one) = 1 /\ one[1].value = v.value /\ \A k \in 1 .. 1 : k = 1
          OBVIOUS
        <4> HIDE DEF one
        <4> QED
          BY <1>13, <3>1, <4>1, <4>2 DEF NoneRefused
      <3> QED
        BY <3>1, <3>2, <3>3
    <2>2. roles' \in Seq(Words) /\ Len(roles') = Len(got')
      BY <1>1, <1>5, <1>13, <1>15, AppendProperties DEF h
    <2>3. Seen' \in Seq(Sights) /\ NoneRefused(Seen')
      BY <1>15, <1>16, <2>1, WrittenBoth
    <2>4. << todo', Rest', seen >> \in Accepted
      BY <1>1, <1>7, <1>11, <1>14 DEF h
    <2>5. ASSUME WellTyped(block') PROVE Meets(Seen' \o seen, Meant(block'))
      <3>1. Meets(Seen \o (Own(h, v) \o seen), Meant(block))
        BY <1>1, <1>8, <1>11, <2>5
      <3>2. (Seen \o Own(h, v)) \o seen = Seen \o (Own(h, v) \o seen)
        <4> DEFINE s == Seen
                   o == Own(h, v)
        <4>1. s \in Seq(Sights) /\ o \in Seq(Sights) /\ Associates(Sights)
          BY <1>15, <2>1, Associative
        <4> HIDE DEF s, o
        <4>2. (s \o o) \o seen = s \o (o \o seen)
          <5>1. \A c \in Seq(Sights) : (s \o o) \o c = s \o (o \o c)
            BY <4>1, ZenonT(40) DEF Associates
          <5> QED
            BY <5>1
        <4> QED
          BY <4>2 DEF s, o
      <3> QED
        BY <1>1, <1>16, <3>1, <3>2
    <2> QED
      BY <2>2, <2>3, <2>4, <2>5 DEF Following, NoneRefused
  <1>18. BlockWritten'
    BY <1>1, <1>2, <1>3 DEF BlockIInv, BlockWritten
  <1> QED
    BY <1>4, <1>17, <1>18 DEF BlockIInv, NodeFollows

\* The node gives up.
LEMMA NodeRaisesKeeps ==
  ASSUME BlockIInv, NodeRaises
  PROVE  BlockIInv'
  <1> DEFINE f == Field(Head(todo))
             v == written[Len(got) + 1]
  <1>1. todo # << >> /\ ReadRaises(f) /\ block' = block /\ todo' = todo /\ roles' = roles
    BY DEF NodeRaises, blockVars
  <1>2. Expects(f) /\ written' = written /\ origin' = origin /\ got' = got
    BY <1>1 DEF ReadRaises
  <1>3. v \in Shaped /\ f = Field(v)
    BY <1>1, <1>2, NodeExpects
  <1>4. IInv'
    BY <1>1, <1>3, ReadRaisesKeeps DEF BlockIInv
  <1>5. BlockWritten'
    BY <1>1, <1>2 DEF BlockIInv, BlockWritten
  <1>6. NodeFollows'
    BY <1>1, <1>2 DEF BlockIInv, NodeFollows, Following, Seen, Rest, NoneRefused
  <1> QED
    BY <1>4, <1>5, <1>6 DEF BlockIInv

\* Every step keeps the invariant.
LEMMA BlockNextKeeps ==
  ASSUME BlockIInv, [BlockNext]_<< vars, blockVars >>
  PROVE  BlockIInv'
  <1>1. CASE block = NoBlock /\ Next /\ UNCHANGED blockVars
    <2>1. IInv'
      BY <1>1, NextKeeps DEF BlockIInv
    <2>2. BlockWritten' /\ NodeFollows'
      BY <1>1 DEF BlockIInv, BlockWritten, NodeFollows, blockVars
    <2> QED
      BY <2>1, <2>2 DEF BlockIInv
  <1>2. CASE \E b \in Blocks : Serialize(b) \/ SerializeRaises(b)
    BY <1>2, SerializeKeeps, SerializeRaisesKeeps
  <1>3. CASE NodeStarts
    BY <1>3, NodeStartsKeeps
  <1>4. CASE NodeReads
    BY <1>4, NodeReadsKeeps
  <1>5. CASE NodeRaises
    BY <1>5, NodeRaisesKeeps
  <1>6. CASE UNCHANGED << vars, blockVars >>
    <2>1. UNCHANGED vars /\ UNCHANGED blockVars
      BY <1>6
    <2>2. IInv'
      BY <2>1, NextKeeps DEF BlockIInv
    <2>3. BlockWritten'
      BY <2>1 DEF BlockIInv, BlockWritten, vars, blockVars
    <2>4. NodeFollows'
      BY <2>1 DEF BlockIInv, NodeFollows, Following, Seen, Rest, NoneRefused, vars, blockVars
    <2> QED
      BY <2>2, <2>3, <2>4 DEF BlockIInv
  <1> QED
    BY <1>1, <1>2, <1>3, <1>4, <1>5, <1>6 DEF BlockNext

\* The invariant of every behaviour.
LEMMA AlwaysBlockInvariant == BlockSpec => []BlockIInv
  <1>1. BlockInit => BlockIInv
    BY BlockInitInvariant
  <1>2. BlockIInv /\ [BlockNext]_<< vars, blockVars >> => BlockIInv'
    BY BlockNextKeeps
  <1> QED
    BY <1>1, <1>2, PTL DEF BlockSpec

\* What the invariant says of the schema: BcsReader finds each field where the schema has it.
LEMMA SaysSchemaFollowed == BlockIInv => SchemaFollowed
  <1> SUFFICES ASSUME BlockIInv, block # NoBlock, origin # "none", Aligned(block)
               PROVE  IF Len(got) = Len(written) THEN todo = << >>
                      ELSE todo # << >> /\ Field(Head(todo)) = Field(written[Len(got) + 1])
    BY DEF SchemaFollowed
  <1>1. Following
    BY DEF BlockIInv, NodeFollows
  <1>2. PICK more \in Seq(Sights) : << todo, Rest, more >> \in Accepted
    BY <1>1 DEF Following
  <1>3. \/ todo = << >> /\ Rest = << >>
        \/ Follows(todo, Rest, more)
    BY <1>2, AcceptedSteps
  <1>4. /\ written \in Seq(Shaped) /\ Len(got) \in Nat /\ Len(written) \in Nat /\ Len(got) <= Len(written)
        /\ written = TransactionData(block)
    <2>1. origin \in {"whole", "cut"}
      BY Zenon DEF BlockIInv, BlockWritten, IInv, TypeOK
    <2>2. written \in Seq(Shaped) /\ got \in Seq(Reading) /\ Len(got) <= Len(written)
      BY <2>1 DEF BlockIInv, IInv, BufIsWritten, GotIsReadable, ReadSoFar
    <2>3. written = TransactionData(block)
      BY DEF BlockIInv, BlockWritten
    <2> QED
      BY <2>2, <2>3, LenProperties
  <1>5. CASE Len(got) = Len(written)
    <2>1. Rest = << >>
      <3>1. Len(got) + 1 \in Int /\ Len(written) \in Int /\ Len(written) < Len(got) + 1
        BY <1>4, <1>5
      <3> QED
        BY <3>1, SubSeqEmpty DEF Rest
    <2> QED
      BY <1>3, <1>5, <2>1 DEF Follows
  <1>6. CASE Len(got) # Len(written)
    <2> DEFINE v == written[Len(got) + 1]
               h == Head(todo)
    <2>1. Len(got) + 1 \in 1 .. Len(written) /\ Len(written) \in Len(got) + 1 .. Len(written)
      BY <1>4, <1>6
    <2>2. Head(Rest) = v
      BY <1>4, <2>1, HeadTailOfSubSeq DEF Rest
    <2>3. Rest # << >>
      <3>1. Rest = << v >> \o SubSeq(written, (Len(got) + 1) + 1, Len(written))
        BY <1>4, <2>1, SubSeqRecursiveFirst DEF Rest
      <3>2. SubSeq(written, (Len(got) + 1) + 1, Len(written)) \in Seq(Shaped) /\ v \in Shaped
        <4>1. \A i \in (Len(got) + 1) + 1 .. Len(written) : i \in 1 .. Len(written)
          BY <1>4
        <4>2. \A i \in (Len(got) + 1) + 1 .. Len(written) : written[i] \in Shaped
          BY <1>4, <4>1, ElementOfSeq
        <4>3. (Len(got) + 1) + 1 \in Int /\ Len(written) \in Int
          BY <1>4
        <4>4. SubSeq(written, (Len(got) + 1) + 1, Len(written)) \in Seq(Shaped)
          BY <4>2, <4>3, SubSeqProperties
        <4> QED
          BY <1>4, <2>1, <4>4, ElementOfSeq
      <3> HIDE DEF v
      <3> QED
        BY <3>1, <3>2, HeadOfOne
    <2>4. todo # << >> /\ Match(h, v)
      BY <1>3, <2>2, <2>3 DEF Follows
    <2>5. v.kind = "fixed" => v.width = AddressLength
      <3>1. Len(got) + 1 \in DOMAIN written
        BY <1>4, <2>1, LenProperties
      <3> QED
        BY <1>4, <3>1 DEF Aligned
    <2>6. Field(h) = Field(v)
      <3> HIDE DEF h, v
      <3> QED
        BY <2>4, <2>5 DEF Match, Field
    <2> QED
      BY <1>6, <2>4, <2>6
  <1> QED
    BY <1>5, <1>6

\* What it says of a node that has read the whole block.
LEMMA SaysNodeSees == BlockIInv => NodeSees
  <1> SUFFICES ASSUME BlockIInv, block # NoBlock, origin = "whole", got = written, WellNamed(block), WellTyped(block)
               PROVE  LET seen  == Seen
                          facts == Meant(block)
                      IN  /\ Len(seen) = Len(facts)
                          /\ \A k \in DOMAIN seen :
                               /\ seen[k].role = facts[k].role
                               /\ Means(seen[k].role, seen[k].value, facts[k].meant)
    BY DEF NodeSees
  <1>1. Following
    BY DEF BlockIInv, NodeFollows
  <1>2. PICK more \in Seq(Sights) : << todo, Rest, more >> \in Accepted /\ Meets(Seen \o more, Meant(block))
    BY <1>1 DEF Following
  <1>3. Rest = << >>
    <2>1. written \in Seq(Shaped)
      BY DEF BlockIInv, IInv, BufIsWritten
    <2>2. Len(got) + 1 \in Int /\ Len(written) \in Int /\ Len(written) < Len(got) + 1
      BY <2>1, LenProperties
    <2> QED
      BY <2>2, SubSeqEmpty DEF Rest
  <1>4. more = << >>
    BY <1>2, <1>3, AcceptedSteps DEF Follows
  <1> DEFINE seen == Seen
             facts == Meant(block)
  <1>5. seen \in Seq(Sights) /\ NoneRefused(seen)
    BY <1>1 DEF Following
  <1>6. Meets(seen, facts)
    <2>1. seen \o << >> = seen
      <3> HIDE DEF seen
      <3> QED
        BY <1>5, ConcatEmptySeq
    <2> QED
      BY <1>2, <1>4, <2>1
  <1>7. DOMAIN seen = 1 .. Len(seen)
    <2> HIDE DEF seen
    <2> QED
      BY <1>5, LenProperties
  <1>8. facts \in Seq(Facts)
    <2>1. IsBlock(block)
      BY BlocksAssumption DEF BlockIInv, BlockWritten
    <2> QED
      BY <2>1, LaidBlock DEF Laid
  <1>9. \A k \in DOMAIN facts : Named(facts[k])
    BY DEF WellNamed
  <1> HIDE DEF seen, facts
  <1>10. DOMAIN facts = 1 .. Len(facts)
    BY <1>8, LenProperties
  <1>11. Len(seen) = Len(facts)
    BY <1>6 DEF Meets
  <1>12. ASSUME NEW k \in DOMAIN seen
         PROVE  seen[k].role = facts[k].role /\ Means(seen[k].role, seen[k].value, facts[k].meant)
    <2>1. k \in 1 .. Len(facts) /\ Named(facts[k]) /\ seen[k].value # Refused
      BY <1>5, <1>7, <1>9, <1>10, <1>11 DEF NoneRefused
    <2> QED
      BY <1>6, <2>1 DEF Meets
  <1> QED
    BY <1>11, <1>12 DEF seen, facts

\* What it says of a block that was refused.
LEMMA SaysSoundIsSerialized == BlockIInv => SoundIsSerialized
  <1> SUFFICES ASSUME BlockIInv, block # NoBlock, written = << >>, Sound(block) PROVE FALSE
    BY DEF SoundIsSerialized
  <1>1. block \in Blocks /\ ~Serializable(TransactionData(block))
    BY DEF BlockIInv, BlockWritten
  <1>2. IsBlock(block)
    BY <1>1, BlocksAssumption
  <1> DEFINE facts == Meant(block)
  <1>3. /\ facts \in Seq(Facts)
        /\ WellTyped(block) /\ (\A k \in 1 .. Len(facts) : SoundFact(facts[k]))
             => Serializable(TransactionData(block))
    BY <1>2, LaidBlock DEF Laid
  <1>4. WellTyped(block) /\ \A k \in DOMAIN facts : SoundFact(facts[k])
    BY DEF Sound
  <1> HIDE DEF facts
  <1>5. DOMAIN facts = 1 .. Len(facts)
    BY <1>3, LenProperties
  <1> QED
    BY <1>1, <1>3, <1>4, <1>5

-----------------------------------------------------------------------------
(* The theorems. *)

\* TypeOK: a program that writes a whole block writes no value out of range, and the node's
\* position in its bytes never passes their end.
THEOREM BlockTypeCorrect == BlockSpec => []TypeOK
  <1>1. BlockIInv => TypeOK
    BY DEF BlockIInv, IInv
  <1> QED
    BY AlwaysBlockInvariant, <1>1, PTL

\* ReadsBack, WholeIsRead, CutIsNoticed, AcceptsEncodings: what the engine promises of values
\* written one by one it keeps for the fields of a block, whole or cut short on the way to a node.
THEOREM BlockReadBack == BlockSpec => [](ReadsBack /\ WholeIsRead /\ CutIsNoticed /\ AcceptsEncodings)
  <1>1. BlockIInv => ReadsBack /\ WholeIsRead /\ CutIsNoticed /\ AcceptsEncodings
    BY SaysReadsBack, SaysWholeIsRead, SaysCutIsNoticed DEF BlockIInv, IInv
  <1> QED
    BY AlwaysBlockInvariant, <1>1, PTL

\* SchemaFollowed: TransactionData.serialize and every serialize() below it write the fields that
\* the schema has, in its order, whatever the counts, the kinds and the types in a block.
THEOREM AlwaysSchemaFollowed == BlockSpec => []SchemaFollowed
  BY AlwaysBlockInvariant, SaysSchemaFollowed, PTL

\* NodeSees: serialize_pure_value, serialize_pure_address, base58_decode, parse_type_tag and the
\* layouts lose and exchange nothing: a node that has read a block sees what its author meant.
THEOREM AlwaysNodeSees == BlockSpec => []NodeSees
  BY AlwaysBlockInvariant, SaysNodeSees, PTL

\* SoundIsSerialized: a block is refused only for a bad name, something that is not a type, or a
\* number that does not fit.
THEOREM AlwaysSoundIsSerialized == BlockSpec => []SoundIsSerialized
  BY AlwaysBlockInvariant, SaysSoundIsSerialized, PTL
=============================================================================
