---------------------- MODULE WaitForTransactionProofs ----------------------
(***************************************************************************)
(* Theorems of WaitForTransaction, for every timeout, interval, HTTP       *)
(* timeout, lag and rounding error.                                        *)
(*                                                                         *)
(* NeverEarly and LastPollLate need to know where the time counted by      *)
(* elapsed lies: before the question or the sleep under way began, and at  *)
(* most one interval after the latest question, give or take what rounding *)
(* added.  PollsCounted and WaitBounded need what each round adds to       *)
(* elapsed and to the clock.                                               *)
(***************************************************************************)
EXTENDS WaitForTransaction, TLAPS

\* A product with a count that grows by one grows by the other factor.
LEMMA OneMore ==
  ASSUME NEW n \in Nat, NEW k \in Int
  PROVE  /\ n * k \in Int /\ (n + 1) * k = n * k + k
         /\ n > 0 => (n - 1) * k \in Int /\ (n - 1) * k + k = n * k
         /\ k \in Nat => n * k \in Nat
  <1>1. n * k \in Int /\ (n + 1) * k = n * k + k
    OBVIOUS
  <1>2. n > 0 => (n - 1) * k \in Int /\ (n - 1) * k + k = n * k
    OBVIOUS
  <1>3. k \in Nat => n * k \in Nat
    OBVIOUS
  <1> QED
    BY <1>1, <1>2, <1>3

(* The sum of floats is near the sum of the numbers.                       *)
LEMMA SumIsNear ==
  ASSUME NEW n \in Nat, NEW sum \in Int, NEW x \in FloatSums(n, sum)
  PROVE  x \in Nat /\ sum - MaxRounding <= x /\ x <= sum + MaxRounding
  BY WaitAssumption DEF FloatSums

\* The sleep that follows a question is not in elapsed yet, nor its rounding.
ElapsedIsPast ==
  /\ pc = "loop" => elapsed <= clock + Drift /\ elapsed <= asked + PollInterval + Drift
  /\ pc \in {"asking", "sleeping"} =>
       elapsed + MaxRounding <= since + Drift /\ elapsed + MaxRounding <= asked + Drift

IInv == TypeOK /\ ElapsedIsPast /\ NeverEarly /\ LastPollLate

LEMMA InitInvariant == Init => IInv
  <1> SUFFICES ASSUME Init PROVE IInv
    OBVIOUS
  <1>1. Drift = 0
    BY WaitAssumption, OneMore DEF Init, Drift
  <1> QED
    BY <1>1, WaitAssumption DEF Init, IInv, TypeOK, ElapsedIsPast, NeverEarly, LastPollLate

LEMMA NextInvariant == IInv /\ [Next]_vars => IInv'
  <1> SUFFICES ASSUME IInv, [Next]_vars PROVE IInv'
    OBVIOUS
  <1>a. Drift \in Nat /\ (polls' = polls => Drift' = Drift)
                     /\ (polls' = polls + 1 => Drift' = Drift + MaxRounding)
    BY WaitAssumption, OneMore DEF IInv, TypeOK, Drift
  <1> USE WaitAssumption, <1>a DEF IInv, TypeOK, ElapsedIsPast, NeverEarly, LastPollLate
  <1>1. CASE Poll
    BY <1>1 DEF Poll
  <1>2. CASE GiveUp
    BY <1>2 DEF GiveUp
  <1>3. CASE Found
    BY <1>3 DEF Found
  <1>4. CASE Sleep
    BY <1>4 DEF Sleep
  <1>5. CASE Raise \/ Cancel
    BY <1>5 DEF Raise, Cancel
  <1>6. CASE Wake
    <2>1. /\ elapsed' \in Nat /\ elapsed' <= elapsed + PollInterval + MaxRounding
      BY <1>6, SumIsNear DEF Wake
    <2> QED
      BY <1>6, <2>1 DEF Wake
  <1>7. CASE NodeIndexes
    BY <1>7 DEF NodeIndexes, Ended
  <1>8. CASE Tick
    BY <1>8 DEF Tick
  <1>9. CASE UNCHANGED vars
    BY <1>9 DEF vars
  <1> QED
    BY <1>1, <1>2, <1>3, <1>4, <1>5, <1>6, <1>7, <1>8, <1>9 DEF Next

LEMMA Invariant == Spec => []IInv
  BY InitInvariant, NextInvariant, PTL DEF Spec

(* elapsed, clock and the counters keep their types, and a question or a   *)
(* sleep begins in the past.                                               *)
THEOREM TypeCorrect == Spec => []TypeOK
  BY Invariant, PTL DEF IInv

(* TimeoutError is never raised before timeout has passed                  *)
(* (client.py:379-388), but for the rounding of elapsed, whatever the       *)
(* questions and the wake-ups cost.                                        *)
THEOREM TimeoutNeverEarly == Spec => []NeverEarly
  BY Invariant, PTL DEF IInv

(* When TimeoutError is raised, the node was asked at most one interval    *)
(* before the timeout, but for the rounding (client.py:379-388).           *)
THEOREM TimeoutAfterLatePoll == Spec => []LastPollLate
  BY Invariant, PTL DEF IInv

-----------------------------------------------------------------------------
(* What each round adds.                                                   *)

\* What a sleep adds to elapsed at least, and at most.
Least == PollInterval - MaxRounding
Most  == PollInterval + MaxRounding

(* The sleeps so far, in terms of the questions so far: one for each       *)
(* question, but for the question or the sleep under way.                  *)
ElapsedCounted ==
  /\ pc \in {"loop", "timed_out"} => polls * Least <= elapsed /\ elapsed <= polls * Most
  /\ pc \in {"asking", "sleeping"} =>
       /\ polls > 0 /\ elapsed < Timeout
       /\ (polls - 1) * Least <= elapsed /\ elapsed <= (polls - 1) * Most
  /\ pc = "timed_out" => elapsed >= Timeout

\* The time so far, in terms of the questions so far.
ClockCounted ==
  /\ pc = "asking" => since <= (polls - 1) * Round /\ clock <= since + HttpTimeout
  /\ pc = "sleeping" => /\ since <= (polls - 1) * Round + HttpTimeout
                       /\ clock <= since + PollInterval + MaxLag

Counted == ElapsedCounted /\ ClockCounted /\ PollsCounted /\ WaitBounded

LEMMA InitCounted == Init => Counted
  <1> SUFFICES ASSUME Init PROVE Counted
    OBVIOUS
  <1>1. /\ Round \in Nat /\ Least \in Int /\ Most \in Int
        /\ 0 * Round = 0 /\ 0 * Least = 0 /\ 0 * Most = 0
    BY WaitAssumption DEF Round, Least, Most
  <1> QED
    BY <1>1, WaitAssumption
    DEF Init, Counted, ElapsedCounted, ClockCounted, PollsCounted, WaitBounded

LEMMA NextCounted == TypeOK /\ Counted /\ [Next]_vars => Counted'
  <1> SUFFICES ASSUME TypeOK, Counted, [Next]_vars PROVE Counted'
    OBVIOUS
  <1> USE WaitAssumption DEF TypeOK
  <1>a. /\ Round \in Nat /\ Round = HttpTimeout + PollInterval + MaxLag
        /\ Least \in Int /\ Least = PollInterval - MaxRounding
        /\ Most \in Nat /\ Most = PollInterval + MaxRounding
    BY DEF Round, Least, Most
  <1>b. \A k \in {Least, Most, Round} :
          /\ polls * k \in Int /\ (polls + 1) * k = polls * k + k
          /\ polls > 0 => (polls - 1) * k \in Int /\ (polls - 1) * k + k = polls * k
    BY OneMore, <1>a
  <1>1. CASE Poll
    <2>1. polls' = polls + 1 /\ polls' > 0 /\ polls' - 1 = polls
      BY <1>1 DEF Poll
    <2>2. ElapsedCounted'
      BY <1>1, <2>1 DEF Poll, Counted, ElapsedCounted
    <2>3. ClockCounted' /\ WaitBounded'
      BY <1>1, <2>1, <1>a, <1>b DEF Poll, Counted, ClockCounted, WaitBounded
    <2>4. PollsCounted'
      BY <1>1, <2>1, <1>a, <1>b DEF Poll, Counted, ElapsedCounted, PollsCounted
    <2> QED
      BY <2>2, <2>3, <2>4 DEF Counted
  <1>2. CASE GiveUp
    <2>1. ElapsedCounted'
      BY <1>2 DEF GiveUp, Counted, ElapsedCounted
    <2>2. PollsCounted'
      BY <1>2, <1>a, <1>b DEF GiveUp, Counted, ElapsedCounted, PollsCounted
    <2>3. ClockCounted' /\ WaitBounded'
      BY <1>2 DEF GiveUp, Counted, ClockCounted, WaitBounded
    <2> QED
      BY <2>1, <2>2, <2>3 DEF Counted
  <1>3. CASE Found
    BY <1>3 DEF Found, Counted, ElapsedCounted, ClockCounted, PollsCounted, WaitBounded
  <1>4. CASE Sleep
    <2>1. ElapsedCounted' /\ PollsCounted'
      BY <1>4 DEF Sleep, Counted, ElapsedCounted, PollsCounted
    <2>2. ClockCounted' /\ WaitBounded'
      BY <1>4, <1>a, <1>b DEF Sleep, Counted, ElapsedCounted, ClockCounted, WaitBounded
    <2> QED
      BY <2>1, <2>2 DEF Counted
  <1>5. CASE Raise \/ Cancel
    BY <1>5 DEF Raise, Cancel, Counted, ElapsedCounted, ClockCounted, PollsCounted, WaitBounded
  <1>6. CASE Wake
    <2>1. /\ elapsed' \in Nat
          /\ elapsed + Least <= elapsed' /\ elapsed' <= elapsed + Most
      BY <1>6, <1>a, SumIsNear DEF Wake
    <2>2. ElapsedCounted'
      BY <1>6, <2>1, <1>a, <1>b DEF Wake, Counted, ElapsedCounted
    <2>3. ClockCounted' /\ WaitBounded' /\ PollsCounted'
      BY <1>6 DEF Wake, Counted, ClockCounted, PollsCounted, WaitBounded
    <2> QED
      BY <2>2, <2>3 DEF Counted
  <1>7. CASE NodeIndexes
    BY <1>7 DEF NodeIndexes, Counted, ElapsedCounted, ClockCounted, PollsCounted, WaitBounded
  <1>8. CASE Tick
    <2>1. ElapsedCounted' /\ PollsCounted'
      BY <1>8 DEF Tick, Counted, ElapsedCounted, PollsCounted
    <2>2. ClockCounted' /\ WaitBounded'
      BY <1>8, <1>a, <1>b DEF Tick, Counted, ElapsedCounted, ClockCounted, WaitBounded
    <2> QED
      BY <2>1, <2>2 DEF Counted
  <1>9. CASE UNCHANGED vars
    BY <1>9 DEF vars, Counted, ElapsedCounted, ClockCounted, PollsCounted, WaitBounded
  <1> QED
    BY <1>1, <1>2, <1>3, <1>4, <1>5, <1>6, <1>7, <1>8, <1>9 DEF Next

LEMMA AlwaysCounted == Spec => []Counted
  BY InitCounted, NextCounted, TypeCorrect, PTL DEF Spec

(* The number of questions is the timeout over the interval, rounded up,   *)
(* and at most what it is for an interval shorter by the rounding error    *)
(* (client.py:379-388): for every timeout, interval and rounding error.    *)
THEOREM NumberOfPolls == Spec => []PollsCounted
  BY AlwaysCounted, PTL DEF Counted

(* The call never lasts longer than one round per question.                *)
THEOREM WaitAlwaysBounded == Spec => []WaitBounded
  BY AlwaysCounted, PTL DEF Counted
=============================================================================
