---------------------------- MODULE NaturalFacts ----------------------------
(***************************************************************************)
(* Induction over the naturals and recursion, stated of sets and           *)
(* functions: the induction theorems of the library take a predicate,      *)
(* which the provers cannot instantiate; a set of naturals or a function   *)
(* is a value, and they can.                                               *)
(***************************************************************************)
EXTENDS Integers, Sequences, WellFoundedInduction, TLAPS

\* A set of naturals with a member has a least one.
LEMMA LeastNatural ==
  ASSUME NEW T, T \subseteq Nat, T # {}
  PROVE  \E n \in T : \A k \in T : n <= k
  <1> DEFINE R == {ss \in Nat \X Nat : ss[1] < ss[2]}
  <1>1. IsWellFoundedOn(R, Nat)
    BY NatLessThanWellFounded DEF OpToRel
  <1>2. \E n \in T : \A k \in T : <<k, n>> \notin R
    <2> HIDE DEF R
    <2> QED
      BY <1>1, WFMin
  <1>3. PICK n \in T : \A k \in T : <<k, n>> \notin R
    BY <1>2
  <1>4. ASSUME NEW k \in T PROVE n <= k
    <2>1. n \in Nat /\ k \in Nat /\ ~(k < n)
      BY <1>3
    <2> QED
      BY <2>1
  <1> QED
    BY <1>4

\* A set that holds 0, and with each natural the next one, holds them all.
LEMMA NaturalsByInduction ==
  ASSUME NEW S, 0 \in S, \A n \in Nat : n \in S => n + 1 \in S
  PROVE  Nat \subseteq S
  <1> SUFFICES ASSUME Nat \ S # {} PROVE FALSE
    OBVIOUS
  <1>1. PICK n \in Nat \ S : \A k \in Nat \ S : n <= k
    BY LeastNatural
  <1>2. n - 1 \in Nat /\ n - 1 \in S
    BY <1>1
  <1> QED
    BY <1>1, <1>2

\* Recursion over D: an argument is answered by step, from itself and the answers for its parts,
\* whose ranks are smaller.  Answers are members of X.
Branches(D, X, rank, parts, step) ==
  /\ rank \in [D -> Nat]
  /\ parts \in [D -> Seq(D)]
  /\ \A x \in D : \A k \in DOMAIN parts[x] : rank[parts[x][k]] < rank[x]
  /\ \A x \in D : \A s \in [DOMAIN parts[x] -> X] : step[<<x, s>>] \in X

\* What f answers is what the recursion says.
Answers(f, D, parts, step) ==
  \A x \in D : f[x] = step[<<x, [k \in DOMAIN parts[x] |-> f[parts[x][k]]]>>]

\* There is a function that obeys the recursion, so the CHOOSE behind a recursive definition
\* finds one.
LEMMA RecursionOnParts ==
  ASSUME NEW D, NEW X, NEW rank, NEW parts, NEW step, Branches(D, X, rank, parts, step)
  PROVE  \E f \in [D -> X] : Answers(f, D, parts, step)
  <1> USE DEF Branches
  <1> DEFINE Of(g, x) == [k \in DOMAIN parts[x] |-> g[parts[x][k]]]
             Obeys(g, x) == g[x] = step[<<x, Of(g, x)>>]
             Below(n) == {x \in D : rank[x] < n}
             Partial(n) == {g \in [Below(n) -> X] : \A x \in Below(n) : Obeys(g, x)}
  <1>1. ASSUME NEW n \in Nat, NEW x \in Below(n + 1), NEW k \in DOMAIN parts[x]
        PROVE  parts[x][k] \in Below(n) /\ parts[x][k] \in D
    <2>1. /\ parts[x][k] \in D /\ rank[x] \in Nat /\ rank[parts[x][k]] \in Nat
          /\ rank[x] < n + 1 /\ rank[parts[x][k]] < rank[x]
      OBVIOUS
    <2> QED
      BY <2>1
  <1>2. ASSUME NEW n \in Nat PROVE Below(n) \subseteq Below(n + 1)
    OBVIOUS
  <1>3. \A n \in Nat : Partial(n) # {}
    <2> DEFINE S == {n \in Nat : Partial(n) # {}}
    <2>1. 0 \in S
      <3>1. Below(0) = {}
        OBVIOUS
      <3>2. [x \in {} |-> x] \in Partial(0)
        BY <3>1
      <3> QED
        BY <3>2
    <2>2. ASSUME NEW n \in Nat, n \in S PROVE n + 1 \in S
      <3>1. PICK g : g \in Partial(n)
        BY <2>2
      <3> DEFINE h == [x \in Below(n + 1) |-> step[<<x, Of(g, x)>>]]
      <3>2. ASSUME NEW x \in Below(n + 1) PROVE step[<<x, Of(g, x)>>] \in X
        <4>1. \A k \in DOMAIN parts[x] : g[parts[x][k]] \in X
          BY <1>1, <3>1
        <4>2. Of(g, x) \in [DOMAIN parts[x] -> X] /\ x \in D
          BY <4>1
        <4> QED
          BY <4>2
      <3>3. h \in [Below(n + 1) -> X] /\ \A x \in Below(n) : h[x] = g[x]
        BY <1>2, <3>1, <3>2
      <3>4. ASSUME NEW x \in Below(n + 1) PROVE Obeys(h, x)
        <4>1. \A k \in DOMAIN parts[x] : h[parts[x][k]] = g[parts[x][k]]
          BY <1>1, <3>3
        <4>2. Of(h, x) = Of(g, x)
          BY <4>1
        <4> QED
          BY <4>2
      <3>5. h \in Partial(n + 1)
        BY <3>3, <3>4
      <3> HIDE DEF h, Partial
      <3> QED
        BY <3>5
    <2> HIDE DEF Partial
    <2>3. Nat \subseteq S
      <3> HIDE DEF S
      <3> QED
        BY <2>1, <2>2, NaturalsByInduction
    <2> QED
      BY <2>3
  <1>4. \A n \in Nat : \A x \in Below(n) : \A k, m \in Nat : \A g \in Partial(k), h \in Partial(m) :
          x \in Below(k) /\ x \in Below(m) => g[x] = h[x]
    <2> DEFINE Agree(x) == \A k, m \in Nat : \A g \in Partial(k), h \in Partial(m) :
                             x \in Below(k) /\ x \in Below(m) => g[x] = h[x]
               S == {n \in Nat : \A x \in Below(n) : Agree(x)}
    <2>1. 0 \in S
      <3>1. Below(0) = {}
        OBVIOUS
      <3> QED
        BY <3>1
    <2>2. ASSUME NEW n \in Nat, n \in S PROVE n + 1 \in S
      <3> SUFFICES ASSUME NEW x \in Below(n + 1) PROVE Agree(x)
        <4> HIDE DEF Agree, Below
        <4> QED
          OBVIOUS
      <3> SUFFICES ASSUME NEW k \in Nat, NEW m \in Nat,
                          NEW g \in Partial(k), NEW h \in Partial(m),
                          x \in Below(k), x \in Below(m)
                   PROVE  g[x] = h[x]
        <4> HIDE DEF Partial, Below
        <4> QED
          OBVIOUS
      <3>1. Obeys(g, x) /\ Obeys(h, x)
        OBVIOUS
      <3>2. ASSUME NEW l \in DOMAIN parts[x] PROVE g[parts[x][l]] = h[parts[x][l]]
        <4> DEFINE y == parts[x][l]
        <4>1. y \in Below(n) /\ y \in D /\ rank[y] \in Nat /\ rank[x] \in Nat /\ rank[y] < rank[x]
          BY <1>1
        <4>2. y \in Below(k) /\ y \in Below(m)
          BY <4>1
        <4> HIDE DEF y
        <4>3. Agree(y)
          BY <2>2, <4>1
        <4>4. g[y] = h[y]
          <5> HIDE DEF Partial, Below, Obeys
          <5> QED
            BY <4>2, <4>3
        <4> QED
          BY <4>4 DEF y
      <3>3. Of(g, x) = Of(h, x)
        BY <3>2
      <3> QED
        BY <3>1, <3>3
    <2> HIDE DEF Agree
    <2>3. Nat \subseteq S
      <3> HIDE DEF S
      <3> QED
        BY <2>1, <2>2, NaturalsByInduction
    <2> QED
      BY <2>3 DEF Agree
  <1> DEFINE Chosen(n) == CHOOSE g : g \in Partial(n)
             f == [x \in D |-> Chosen(rank[x] + 1)[x]]
  <1>5. \A n \in Nat : Chosen(n) \in Partial(n)
    <2> HIDE DEF Partial
    <2> QED
      BY <1>3
  <1>6. ASSUME NEW x \in D PROVE f[x] \in X /\ Obeys(f, x)
    <2> DEFINE n == rank[x] + 1
               g == Chosen(n)
    <2>1. n \in Nat /\ x \in Below(n) /\ g \in Partial(n) /\ f[x] = g[x]
      <3>1. n \in Nat /\ x \in Below(n)
        OBVIOUS
      <3>2. g \in Partial(n)
        <4> HIDE DEF n, Chosen, Partial
        <4> QED
          BY <1>5, <3>1
      <3> HIDE DEF Chosen, Partial, Below
      <3> QED
        BY <3>1, <3>2
    <2> HIDE DEF n
    <2>2. g[x] \in X /\ Obeys(g, x)
      <3> HIDE DEF g
      <3> QED
        BY <2>1
    <2>3. ASSUME NEW k \in DOMAIN parts[x] PROVE f[parts[x][k]] = g[parts[x][k]]
      <3> DEFINE y == parts[x][k]
                 m == rank[y] + 1
      <3>1. y \in D /\ rank[y] \in Nat /\ rank[x] \in Nat /\ rank[y] < rank[x]
        OBVIOUS
      <3>2. y \in Below(n) /\ m \in Nat /\ y \in Below(m)
        BY <3>1 DEF n
      <3>3. f[y] = Chosen(m)[y] /\ Chosen(m) \in Partial(m)
        BY <1>5, <3>1, <3>2
      <3> HIDE DEF m, y, f, g, Chosen, Partial, Below
      <3> QED
        BY <1>4, <2>1, <3>2, <3>3 DEF y
    <2>4. Of(f, x) = Of(g, x)
      <3> HIDE DEF f, g
      <3> QED
        BY <2>3
    <2> HIDE DEF f, g
    <2> QED
      BY <2>1, <2>2, <2>4
  <1>7. f \in [D -> X]
    BY <1>6
  <1> HIDE DEF f
  <1> QED
    BY <1>6, <1>7 DEF Answers

\* The same with at most one part: an argument in Stop is answered by first, any other by step,
\* from itself and the answer for down of it.
Descends(D, X, rank, Stop, down, first, step) ==
  /\ rank \in [D -> Nat]
  /\ Stop \in SUBSET D
  /\ down \in [D \ Stop -> D]
  /\ \A x \in D \ Stop : rank[down[x]] < rank[x]
  /\ first \in [Stop -> X]
  /\ step \in [(D \ Stop) \X X -> X]

\* The same for the function that answers.
Recurs(f, D, Stop, down, first, step) ==
  \A x \in D : f[x] = IF x \in Stop THEN first[x] ELSE step[<<x, f[down[x]]>>]

LEMMA RecursionOnRank ==
  ASSUME NEW D, NEW X, NEW rank, NEW Stop, NEW down, NEW first, NEW step,
         Descends(D, X, rank, Stop, down, first, step)
  PROVE  \E f \in [D -> X] : Recurs(f, D, Stop, down, first, step)
  <1> USE DEF Descends
  <1> DEFINE parts == [x \in D |-> IF x \in Stop THEN << >> ELSE << down[x] >>]
             each == [c \in D \X Seq(X) |-> IF c[1] \in Stop THEN first[c[1]] ELSE step[<<c[1], c[2][1]>>]]
  <1>1. parts \in [D -> Seq(D)]
    OBVIOUS
  <1>2. ASSUME NEW x \in D \ Stop PROVE DOMAIN parts[x] = {1} /\ parts[x][1] = down[x]
    OBVIOUS
  <1>3. ASSUME NEW x \in Stop PROVE DOMAIN parts[x] = {}
    OBVIOUS
  <1>4. \A x \in D : \A k \in DOMAIN parts[x] : rank[parts[x][k]] < rank[x]
    BY <1>2, <1>3
  <1>5. ASSUME NEW x \in D, NEW s \in [DOMAIN parts[x] -> X]
        PROVE  /\ each[<<x, s>>] = IF x \in Stop THEN first[x] ELSE step[<<x, s[1]>>]
               /\ each[<<x, s>>] \in X
    <2>0. parts[x] \in Seq(D)
      BY <1>1
    <2>1. DOMAIN parts[x] = 1 .. Len(parts[x]) /\ Len(parts[x]) \in Nat
      <3> HIDE DEF parts
      <3> QED
        BY <2>0
    <2>2. s \in Seq(X)
      BY <2>1 DEF Seq
    <2>3. each[<<x, s>>] = IF x \in Stop THEN first[x] ELSE step[<<x, s[1]>>]
      BY <2>2
    <2>4. CASE x \notin Stop
      <3>1. s[1] \in X
        BY <1>2, <2>4
      <3> QED
        BY <2>3, <2>4, <3>1
    <2> QED
      BY <2>3, <2>4
  <1> HIDE DEF each, parts
  <1>6. Branches(D, X, rank, parts, each)
    BY <1>1, <1>4, <1>5 DEF Branches
  <1>7. PICK f \in [D -> X] : Answers(f, D, parts, each)
    BY <1>6, RecursionOnParts
  <1>8. ASSUME NEW x \in D PROVE f[x] = IF x \in Stop THEN first[x] ELSE step[<<x, f[down[x]]>>]
    <2> DEFINE s == [k \in DOMAIN parts[x] |-> f[parts[x][k]]]
    <2>1. s \in [DOMAIN parts[x] -> X]
      BY <1>1
    <2>2. x \notin Stop => s[1] = f[down[x]]
      BY <1>2
    <2>3. f[x] = each[<<x, s>>]
      BY <1>7 DEF Answers
    <2> HIDE DEF s
    <2> QED
      BY <1>5, <2>1, <2>2, <2>3
  <1> QED
    BY <1>8 DEF Recurs

\* Recursion along an interval: the answer for its first number is given, the one for any other
\* is made by step from the number and the answer before.
Steps(lo, hi, X, first, step) ==
  /\ lo \in Int /\ hi \in Int /\ lo <= hi /\ first \in X
  /\ \A k \in (lo .. hi) \ {lo} : \A x \in X : step[<<k, x>>] \in X

RecursAlong(f, lo, hi, first, step) ==
  f[lo] = first /\ \A k \in (lo .. hi) \ {lo} : f[k] = step[<<k, f[k - 1]>>]

LEMMA RecursionAlong ==
  ASSUME NEW lo, NEW hi, NEW X, NEW first, NEW step, Steps(lo, hi, X, first, step)
  PROVE  \E f \in [lo .. hi -> X] : RecursAlong(f, lo, hi, first, step)
  <1> USE DEF Steps
  <1> DEFINE D == lo .. hi
             Stop == {lo}
             rank == [k \in D |-> k - lo]
             down == [k \in D \ Stop |-> k - 1]
             start == [k \in Stop |-> first]
             each == [p \in (D \ Stop) \X X |-> step[<<p[1], p[2]>>]]
  <1>1. /\ rank \in [D -> Nat] /\ Stop \in SUBSET D /\ down \in [D \ Stop -> D]
        /\ \A x \in D \ Stop : rank[down[x]] < rank[x]
        /\ start \in [Stop -> X]
    OBVIOUS
  <1>2. each \in [(D \ Stop) \X X -> X]
    <2>1. \A k \in D \ Stop : \A x \in X : step[<<k, x>>] \in X
      OBVIOUS
    <2> HIDE DEF D, Stop
    <2> QED
      BY <2>1
  <1>3. Descends(D, X, rank, Stop, down, start, each)
    <2> HIDE DEF D, rank, Stop, down, start, each
    <2> QED
      BY <1>1, <1>2 DEF Descends
  <1>4. PICK f \in [D -> X] : Recurs(f, D, Stop, down, start, each)
    <2> HIDE DEF D, rank, Stop, down, start, each
    <2> QED
      BY <1>3, RecursionOnRank
  <1>5. f[lo] = first
    <2>1. lo \in D /\ lo \in Stop /\ start[lo] = first
      OBVIOUS
    <2> HIDE DEF D, Stop, start
    <2> QED
      BY <1>4, <2>1 DEF Recurs
  <1>6. ASSUME NEW k \in (lo .. hi) \ {lo} PROVE f[k] = step[<<k, f[k - 1]>>]
    <2>1. k \in D /\ k \notin Stop /\ k - 1 \in D
      OBVIOUS
    <2>2. f[k - 1] \in X
      BY <1>4, <2>1
    <2>3. f[k] = each[<<k, f[down[k]]>>]
      BY <1>4, <2>1 DEF Recurs
    <2>4. down[k] = k - 1
      BY <2>1
    <2> HIDE DEF D, Stop, down
    <2> QED
      BY <2>1, <2>2, <2>3, <2>4
  <1> QED
    BY <1>5, <1>6 DEF RecursAlong

\* What holds at the first number of an interval and, if at a number, then at the next one,
\* holds at every number of the interval.
LEMMA InductionAlong ==
  ASSUME NEW lo \in Int, NEW hi \in Int, NEW S, lo \in S,
         \A k \in lo .. hi - 1 : k \in S => k + 1 \in S
  PROVE  lo .. hi \subseteq S
  <1> DEFINE T == {n \in Nat : lo + n <= hi => lo + n \in S}
  <1>1. 0 \in T
    OBVIOUS
  <1>2. ASSUME NEW n \in Nat, n \in T PROVE n + 1 \in T
    <2> SUFFICES ASSUME lo + (n + 1) <= hi PROVE lo + (n + 1) \in S
      OBVIOUS
    <2>1. lo + n \in lo .. hi - 1 /\ (lo + n) + 1 = lo + (n + 1) /\ lo + n \in S
      BY <1>2
    <2> QED
      BY <2>1
  <1>3. Nat \subseteq T
    <2> HIDE DEF T
    <2> QED
      BY <1>1, <1>2, NaturalsByInduction
  <1>4. ASSUME NEW k \in lo .. hi PROVE k \in S
    <2>1. k - lo \in Nat /\ lo + (k - lo) = k /\ k <= hi
      OBVIOUS
    <2> QED
      BY <1>3, <2>1
  <1> QED
    BY <1>4
=============================================================================
