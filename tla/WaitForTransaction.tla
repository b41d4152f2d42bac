-------------------------- MODULE WaitForTransaction --------------------------
(***************************************************************************)
(* wait_for_transaction of the async and the sync client                   *)
(* (src/pyiota/client.py, sync_client.py): ask the node for a transaction  *)
(* until it knows it, sleeping between two questions, and give up when     *)
(* the time slept - not the time passed - reaches the timeout.             *)
(*                                                                         *)
(* Time is counted in ticks of clock, which starts with the call.  A       *)
(* question takes 0..HttpTimeout ticks; a sleep wakes its caller after     *)
(* PollInterval ticks and at most MaxLag more.  elapsed is a float: each   *)
(* addition to it is off by at most MaxRounding ticks, up or down, so ten  *)
(* sleeps of 0.1 may fall short of 1.0.                                    *)
(***************************************************************************)
EXTENDS Integers

CONSTANTS
  Timeout,       \* the timeout argument
  PollInterval,  \* the poll_interval argument
  HttpTimeout,   \* how long a question may take before httpx gives it up
  MaxLag,        \* how late the event loop or the OS wakes a sleeper
  MaxRounding,   \* how far a sum of floats is from the sum of the numbers
  MaxClock       \* bound: the clock stops there

ASSUME WaitAssumption ==
  /\ Timeout \in Nat /\ PollInterval \in Nat
  /\ HttpTimeout \in Nat /\ MaxLag \in Nat
  /\ MaxRounding \in Nat /\ MaxClock \in Nat

VARIABLES
  pc,       \* "loop", "asking", "sleeping", or how the call ended
  elapsed,  \* the local of that name
  clock,    \* the time since the call
  since,    \* when the current question or sleep began
  polls,    \* history: how many questions were asked
  asked,    \* history: when the latest question was asked
  indexed   \* the node: whether it knows the transaction

vars == <<pc, elapsed, clock, since, polls, asked, indexed>>

Ended == pc \in {"returned", "timed_out", "raised"}

-----------------------------------------------------------------------------
(* The loop.                                                               *)

\* Mutant: the loop runs once more when elapsed is exactly the timeout.
PollAtTimeout ==
  /\ pc = "loop" /\ elapsed <= Timeout
  /\ pc' = "asking" /\ since' = clock
  /\ polls' = polls + 1 /\ asked' = clock
  /\ UNCHANGED <<elapsed, clock, indexed>>

Poll ==
  /\ pc = "loop" /\ elapsed < Timeout
  /\ pc' = "asking" /\ since' = clock
  /\ polls' = polls + 1 /\ asked' = clock
  /\ UNCHANGED <<elapsed, clock, indexed>>

\* Mutant: the interval is charged before it is slept.
GiveUpEarly ==
  /\ pc = "loop" /\ elapsed + PollInterval >= Timeout
  /\ pc' = "timed_out"
  /\ UNCHANGED <<elapsed, clock, since, polls, asked, indexed>>

GiveUp ==
  /\ pc = "loop" /\ elapsed >= Timeout
  /\ pc' = "timed_out"
  /\ UNCHANGED <<elapsed, clock, since, polls, asked, indexed>>

Found ==
  /\ pc = "asking" /\ indexed
  /\ pc' = "returned"
  /\ UNCHANGED <<elapsed, clock, since, polls, asked, indexed>>

\* Any JSON-RPC error: the transaction is unknown, or the node is busy.
Sleep ==
  /\ pc = "asking"
  /\ pc' = "sleeping" /\ since' = clock
  /\ UNCHANGED <<elapsed, clock, polls, asked, indexed>>

\* Anything but an RpcError: a network failure, an HTTP error status, a
\* request timeout, a body that does not parse.
Raise ==
  /\ pc = "asking"
  /\ pc' = "raised"
  /\ UNCHANGED <<elapsed, clock, since, polls, asked, indexed>>

\* The waiting task is cancelled, or the program interrupted, in a question
\* or in a sleep: neither is an RpcError.
Cancel ==
  /\ pc \in {"asking", "sleeping"}
  /\ pc' = "raised"
  /\ UNCHANGED <<elapsed, clock, since, polls, asked, indexed>>

\* Mutant: elapsed is not advanced.
WakeForgetting ==
  /\ pc = "sleeping" /\ clock >= since + PollInterval
  /\ pc' = "loop"
  /\ UNCHANGED <<elapsed, clock, since, polls, asked, indexed>>

\* Mutant: elapsed counts down.
WakeCountingDown ==
  /\ pc = "sleeping" /\ clock >= since + PollInterval
  /\ pc' = "loop" /\ elapsed' = elapsed - PollInterval
  /\ UNCHANGED <<clock, since, polls, asked, indexed>>

\* What a float may hold of a sum with the term n: rounding keeps the order,
\* so never less than n.
FloatSums(n, sum) == {x \in (sum - MaxRounding) .. (sum + MaxRounding) : n <= x}

Wake ==
  /\ pc = "sleeping" /\ clock >= since + PollInterval
  /\ pc' = "loop" /\ elapsed' \in FloatSums(elapsed, elapsed + PollInterval)
  /\ UNCHANGED <<clock, since, polls, asked, indexed>>

-----------------------------------------------------------------------------
(* Around it: the node, and time.                                          *)

NodeIndexes ==
  /\ ~indexed /\ ~Ended
  /\ indexed' = TRUE
  /\ UNCHANGED <<pc, elapsed, clock, since, polls, asked>>

\* Time passes while the call waits, no longer than what it waits for takes.
Tick ==
  /\ \/ pc = "asking" /\ clock < since + HttpTimeout
     \/ pc = "sleeping" /\ clock < since + PollInterval + MaxLag
  /\ clock < MaxClock
  /\ clock' = clock + 1
  /\ UNCHANGED <<pc, elapsed, since, polls, asked, indexed>>

\* Mutant: the sleep comes before the question.
InitSleeping ==
  /\ pc = "sleeping"
  /\ elapsed = 0 /\ clock = 0 /\ since = 0 /\ polls = 0 /\ asked = 0
  /\ indexed \in BOOLEAN

Init ==
  /\ pc = "loop"
  /\ elapsed = 0 /\ clock = 0 /\ since = 0 /\ polls = 0 /\ asked = 0
  /\ indexed \in BOOLEAN

Next ==
  \/ Poll \/ GiveUp \/ Found \/ Sleep \/ Raise \/ Cancel \/ Wake
  \/ NodeIndexes \/ Tick

Spec == Init /\ [][Next]_vars

(* The event loop runs a task that is ready; a question is answered or     *)
(* given up (rpc.py:49); time passes.  Which answer comes, whether the     *)
(* transaction is ever indexed, and a cancellation are not assumed.        *)
FairSpec ==
  /\ Spec
  /\ WF_vars(Poll \/ GiveUp) /\ WF_vars(Found \/ Sleep \/ Raise)
  /\ WF_vars(Wake) /\ WF_vars(Tick)

-----------------------------------------------------------------------------
(* Properties.                                                             *)

\* The shape of the state.
TypeOK ==
  /\ pc \in {"loop", "asking", "sleeping", "returned", "timed_out", "raised"}
  /\ elapsed \in Nat /\ clock \in Nat /\ since \in 0..clock
  /\ polls \in Nat /\ asked \in 0..since /\ indexed \in BOOLEAN

\* What the additions to elapsed may have lost or gained by rounding.
Drift == polls * MaxRounding

(* TimeoutError is never early: when it is raised, at least timeout has    *)
(* passed since the call (client.py:379-388), but for the rounding, however *)
(* the questions and the sleeps took their time.                           *)
NeverEarly == pc = "timed_out" => clock + Drift >= Timeout

(* The number of questions is the timeout divided by the interval, rounded *)
(* up, whatever each of them costs; a call that times out has asked them   *)
(* all (client.py:379-388).  Rounding counts for an interval that is up to *)
(* MaxRounding shorter or longer: where the timeout is a multiple of it,   *)
(* there may be one question more.                                         *)
PollsCounted ==
  /\ polls > 0 => (polls - 1) * (PollInterval - MaxRounding) < Timeout
  /\ pc = "timed_out" => polls * (PollInterval + MaxRounding) >= Timeout

(* Not found means not found lately: the last question before TimeoutError *)
(* was asked at most one interval before the timeout, but for the rounding. *)
(* A transaction the node learns of during the last sleep is missed, for   *)
(* no question follows that sleep (client.py:380-388).                     *)
LastPollLate == pc = "timed_out" => asked + Drift >= Timeout - PollInterval

\* What one round of the loop may cost.
Round == HttpTimeout + PollInterval + MaxLag

(* What the caller really waits is bounded by the questions: each may take *)
(* the HTTP timeout on top of its interval.                                *)
WaitBounded == clock <= polls * Round

(* The call ends, found or not.                                            *)
WaitEnds == <>Ended

(* The documentation of timeout (client.py:372): "Maximum time to wait *)
(* in seconds", here with the lag of the last wake-up forgiven.            *)
WithinTimeout == clock <= Timeout + MaxLag
=============================================================================
