------------------------------ MODULE MCStaleness ------------------------------
(***************************************************************************)
(* AgentPush and Staleness on a small instance: one agent, a buffer limit  *)
(* of three batches, and thresholds of two intervals.  The backoff of the  *)
(* agent's collectors is checked on bounded inputs.                        *)
(***************************************************************************)
EXTENDS Staleness, CollectorBackoff, TLC

ASSUME BackoffDelays ==
  \A base \in 1..4, max \in 1..20, failures \in 1..7 : DelayDoubles(base, max, failures)

\* The agent's interval is the base, and its cycles may be late by a part of it.
Cycles == 1..7

ASSUME BackoffRuns ==
  \A shift \in [Cycles -> {0, 1}], works \in [Cycles -> BOOLEAN] :
    LET times == [i \in Cycles |-> 2 * i + shift[i]]
    IN RecoversInTime(2, 5, times, works)

=============================================================================
