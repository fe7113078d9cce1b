--------------------------- MODULE CollectorBackoff ---------------------------
(***************************************************************************)
(* The backoff of the agent's collectors (internal/agent/backoff.go), as   *)
(* operators on the state of one collector, and the cycles of              *)
(* Agent.collect that use it.                                              *)
(***************************************************************************)
EXTENDS Integers, Sequences

\* What is kept of a collector that never failed, or works again.
Fresh == [failures |-> 0, retryAt |-> 0]

\* The base is doubled at each failure after the first, up to max.
Delay(base, max, failures) ==
  LET d[i \in 1..failures] == IF i = 1 THEN base
                              ELSE IF 2 * d[i - 1] >= max THEN max ELSE 2 * d[i - 1]
  IN d[failures]

Attempted(state, now) == state.failures = 0 \/ now >= state.retryAt

Failure(state, base, max, now) ==
  [failures |-> state.failures + 1, retryAt |-> now + Delay(base, max, state.failures + 1)]

\* A cycle of the agent, in which the collector works or does not.
CollectCycle(state, base, max, now, works) ==
  IF ~Attempted(state, now) THEN state
  ELSE IF works THEN Fresh ELSE Failure(state, base, max, now)

\* The states before the first cycle and after each.
States(base, max, times, works) ==
  LET s[i \in 0..Len(times)] ==
        IF i = 0 THEN Fresh ELSE CollectCycle(s[i - 1], base, max, times[i], works[i])
  IN s

-----------------------------------------------------------------------------
\* What the comments of the code say, to be checked on bounded inputs.

\* backoff.go:36, "doubles on each consecutive failure, never exceeding max":
\* where the base does not.
DelayDoubles(base, max, failures) ==
  LET doubled == base * 2^(failures - 1)
  IN base <= max => Delay(base, max, failures) = IF doubled <= max THEN doubled ELSE max

\* backoff.go:14, "so the collector recovers by itself": one that works from cycle
\* i on was attempted again max later, whatever came before and however the
\* cycles were shifted.
RecoversInTime(base, max, times, works) ==
  \A i, n \in DOMAIN times :
    /\ base <= max
    /\ \A j \in i..n : works[j]
    /\ times[n] >= times[i] + max
    => States(base, max, times, works)[n] = Fresh

=============================================================================
