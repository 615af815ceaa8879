------------------------------ MODULE Schedule ------------------------------
(***************************************************************************)
(* pkg/scenario/schedule.go: when each subscriber is activated, relative   *)
(* to T0.  Durations are whole ticks; a float that the code truncates to a *)
(* Duration is rounded down.  A Gaussian draw is a number of sigmas.       *)
(***************************************************************************)
EXTENDS Integers, Sequences, Functions

Error == [offsets |-> <<>>, err |-> TRUE]

\* sort.Slice: the sequence rearranged in ascending order.
Sorted(s) ==
  LET order == CHOOSE p \in Bijection(DOMAIN s, DOMAIN s) :
                 \A i, j \in DOMAIN s : i < j => s[p[i]] <= s[p[j]]
  IN  [i \in DOMAIN s |-> s[order[i]]]

Plan(offsets) == [offsets |-> offsets, err |-> FALSE]

\* Negative and zero durations are T0.
secondsToDuration(t) == IF t <= 0 THEN 0 ELSE t

\* TruncateSigma below one means three.
TruncateSigma(c) == IF c.k < 1 THEN 3 ELSE c.k
loSec(c) == IF c.mu - TruncateSigma(c) * c.sigma < 0 THEN 0
            ELSE c.mu - TruncateSigma(c) * c.sigma
hiSec(c) == c.mu + TruncateSigma(c) * c.sigma

\* Fault: the draws are clamped above only.
ClampedAbove(c, draw) ==
  LET secs == draw * c.sigma + c.mu IN IF secs > hiSec(c) THEN hiSec(c) ELSE secs

\* One draw of the truncated Gaussian.
Clamped(c, draw) ==
  LET secs == draw * c.sigma + c.mu IN
  CASE secs < loSec(c) -> loSec(c)
    [] secs > hiSec(c) -> hiSec(c)
    [] OTHER -> secs

buildColdStart(n, c, draws) ==
  IF c.sigma <= 0 \/ c.mu < 0 THEN Error
  ELSE Plan(Sorted([i \in 1 .. n |-> secondsToDuration(Clamped(c, draws[i]))]))

\* Subscriber i of n starts at i * DurationSec / n, counting from zero.
buildUniform(n, c) ==
  IF c.duration <= 0 THEN Error
  ELSE Plan([i \in 1 .. n |-> ((i - 1) * c.duration) \div n])

buildPessimal(n, burst) ==
  IF burst < 0 THEN Error
  ELSE Plan([i \in 1 .. n |-> IF burst = 0 THEN 0 ELSE ((i - 1) * burst) \div n])

\* c.block says whether the configuration has the block of its type.
BuildSchedule(n, c, draws) ==
  CASE c.type = "cold_start" -> IF c.block THEN buildColdStart(n, c, draws) ELSE Error
    [] c.type = "uniform"    -> IF c.block THEN buildUniform(n, c) ELSE Error
    [] c.type = "pessimal"   -> buildPessimal(n, IF c.block THEN c.burst ELSE 0)
    [] c.type = "coa_storm"  -> Plan(<<>>)
    [] OTHER -> Error

=============================================================================
