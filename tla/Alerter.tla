------------------------------- MODULE Alerter -------------------------------
(***************************************************************************)
(* The ntfy client (internal/alerting/ntfy.go): deduplication of DOWN      *)
(* alerts by name, recovery, and the muted set.  Each operator below is    *)
(* the critical section of one method together with the HTTP push that     *)
(* follows it, whose outcome is the argument "delivered".                  *)
(*                                                                         *)
(* A time.Time in lastDownAlert is modelled by its age, which saturates at *)
(* ReminderInterval because it is only compared with it; AgeAlerts is the  *)
(* passage of one unit of time.                                            *)
(***************************************************************************)
EXTENDS Integers

CONSTANTS
  Names,             \* what alerts are about: monitors, and "agent:<host>"
  ReminderInterval   \* alerting.thresholds.down_reminder_interval, in units

\* NewNtfyClient replaces an interval of zero by one hour.
ASSUME ReminderAssumption == ReminderInterval \in Nat \ {0}

VARIABLES
  lastDownAlert,   \* age of the last DOWN alert about a name, or NoAlert
  muted,           \* NtfyClient.muted: the names that are silenced
  page             \* external: what the operator's phone last said of a name

alerterVars == <<lastDownAlert, muted, page>>

NoAlert == -1

Ages == 0..ReminderInterval

AlerterTypeOK ==
  /\ lastDownAlert \in [Names -> Ages \cup {NoAlert}]
  /\ muted \subseteq Names
  /\ page \in [Names -> {"UP", "DOWN"}]

AlerterInit ==
  /\ lastDownAlert = [n \in Names |-> NoAlert]
  /\ muted = {}
  /\ page = [n \in Names |-> "UP"]

\* An alert about n was pushed less than ReminderInterval ago.
Deduplicated(n) ==
  lastDownAlert[n] # NoAlert /\ lastDownAlert[n] < ReminderInterval

\* NtfyClient.SendDown: the time is noted before the push is tried.
SendDown(n, delivered) ==
  IF n \in muted \/ Deduplicated(n)
  THEN UNCHANGED <<lastDownAlert, page>>
  ELSE /\ lastDownAlert' = [lastDownAlert EXCEPT ![n] = 0]
       /\ page' = IF delivered THEN [page EXCEPT ![n] = "DOWN"] ELSE page

\* Mutant: a muted name returns before the time is forgotten.
SendRecoveryMutedFirst(n, delivered) ==
  IF n \in muted THEN UNCHANGED <<lastDownAlert, page>>
  ELSE /\ lastDownAlert' = [lastDownAlert EXCEPT ![n] = NoAlert]
       /\ page' = IF delivered THEN [page EXCEPT ![n] = "UP"] ELSE page

\* Mutant: the time is never forgotten.
SendRecoveryRemembers(n, delivered) ==
  /\ page' = IF delivered /\ n \notin muted
             THEN [page EXCEPT ![n] = "UP"] ELSE page
  /\ UNCHANGED lastDownAlert

\* NtfyClient.SendRecovery: the time is forgotten even when n is muted.
SendRecovery(n, delivered) ==
  /\ lastDownAlert' = [lastDownAlert EXCEPT ![n] = NoAlert]
  /\ page' = IF delivered /\ n \notin muted
             THEN [page EXCEPT ![n] = "UP"] ELSE page

\* One unit of time passes.
AgeAlerts ==
  lastDownAlert' =
    [n \in Names |-> IF lastDownAlert[n] \in Ages \ {ReminderInterval}
                     THEN lastDownAlert[n] + 1 ELSE lastDownAlert[n]]

=============================================================================
