---------------------------- MODULE MonitorState ----------------------------
(***************************************************************************)
(* The UP/DOWN state machine of one monitor (internal/hub/monitor.go) as   *)
(* operators on values: no variables, so that every module that keeps      *)
(* monitor states uses the same definitions.                               *)
(*                                                                         *)
(* ConsecutiveFailures is only ever compared with FailureThreshold, so it  *)
(* saturates at MaxThreshold, the largest threshold a configuration has.   *)
(* The counters and the last error kept for the dashboard are left out.    *)
(***************************************************************************)
EXTENDS Integers

CONSTANTS MaxThreshold   \* the largest failure_threshold of any configuration

\* An absent threshold is replaced by the default of 3; one below 1 acts as 1.
ASSUME MaxThresholdAssumption == MaxThreshold \in Nat \ {0}

Thresholds == 1..MaxThreshold

Statuses == {"UP", "DOWN"}

Transitions == {"none", "to_down", "to_up"}

MonitorStates ==
  [status: Statuses, failures: 0..MaxThreshold, threshold: Thresholds]

\* A monitor that was not known before starts UP.
NewMonitorState(threshold) ==
  [status |-> "UP", failures |-> 0, threshold |-> threshold]

\* ConsecutiveFailures after one more result.
FailuresAfter(ms, up) ==
  IF up THEN 0
  ELSE IF ms.failures < MaxThreshold THEN ms.failures + 1 ELSE MaxThreshold

\* Mutant: a DOWN monitor that fails again is reported again.
TransitionRepeated(ms, up) ==
  CASE up /\ ms.status = "DOWN" -> "to_up"
    [] ~up /\ FailuresAfter(ms, up) >= ms.threshold -> "to_down"
    [] OTHER -> "none"

\* The transition RecordResult returns.
Transition(ms, up) ==
  CASE up /\ ms.status = "DOWN" -> "to_up"
    [] ~up /\ ms.status = "UP" /\ FailuresAfter(ms, up) >= ms.threshold -> "to_down"
    [] OTHER -> "none"

StatusAfter(ms, up) ==
  CASE Transition(ms, up) = "to_up"   -> "UP"
    [] Transition(ms, up) = "to_down" -> "DOWN"
    [] OTHER -> ms.status

\* MonitorState.RecordResult.
RecordResult(ms, up) ==
  [status    |-> StatusAfter(ms, up),
   failures  |-> FailuresAfter(ms, up),
   threshold |-> ms.threshold]

=============================================================================
