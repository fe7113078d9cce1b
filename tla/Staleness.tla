------------------------------ MODULE Staleness ------------------------------
(***************************************************************************)
(* The hub's staleness checker (internal/hub/staleness.go) on top of the   *)
(* pushes of one agent: the incident "agent:<host>" opens when the         *)
(* heartbeat is older than the threshold, and resolves when it is fresh    *)
(* again.  A check takes several steps, and pushes, failures and a restart *)
(* of the hub come between them.                                           *)
(***************************************************************************)
EXTENDS AgentPush

CONSTANTS
  Host,             \* "agent:" and the host name of the agent
  ReminderInterval  \* as in Alerter

ASSUME StalenessAssumption == ReminderInterval \in Nat \ {0}

VARIABLES
  check,          \* where StalenessChecker.Check is
  checkAge,       \* intervals passed since Check read the clock
  openIncidents,  \* SQLite: how many unresolved incidents the agent has
  lastDownAlert, muted, page

Alert == INSTANCE Alerter WITH Names <- {Host}

vars == <<pushVars, check, checkAge, openIncidents, lastDownAlert, muted, page>>

\* "stale": the list of stale agents is read and has this one; "down": the
\* incident is created and its alert is next; "fresh": the heartbeats are next;
\* "recovered": the heartbeats are read and this one is fresh; "up": the
\* incident is resolved and its alert is next.
CheckStates == {"off", "stale", "down", "fresh", "recovered", "up"}

TypeOK ==
  /\ PushTypeOK
  /\ check \in CheckStates
  /\ checkAge \in 0..1
  /\ openIncidents \in Nat
  /\ Alert!AlerterTypeOK

Init ==
  /\ PushInit
  /\ check = "off"
  /\ checkAge = 0
  /\ openIncidents = 0
  /\ Alert!AlerterInit

IsStale == lastSeen # None /\ lastSeen > StaleAfter

\* Compared with the clock as it was when Check began.
IsFresh == lastSeen # None /\ lastSeen - checkAge <= StaleAfter

-----------------------------------------------------------------------------
\* StalenessChecker.Check, run every minute by the goroutine of
\* startStalenessChecker.

CheckStep(from, to) ==
  /\ check = from
  /\ check' = to
  /\ checkAge' = IF to = "off" THEN 0 ELSE checkAge
  /\ UNCHANGED <<agentVars, net, late, lastSeen, muted>>

NoAlertSent == UNCHANGED <<lastDownAlert, page>>

\* GetStaleAgents.
ReadStale ==
  /\ CheckStep("off", IF IsStale THEN "stale" ELSE "fresh")
  /\ NoAlertSent /\ UNCHANGED <<openIncidents, faults>>

\* GetStaleAgents fails, and Check returns.
ReadStaleFails ==
  /\ check = "off"
  /\ Fault
  /\ NoAlertSent
  /\ UNCHANGED <<agentVars, net, late, lastSeen, muted, check, checkAge, openIncidents>>

\* Mutant: whether an incident is open already is not asked.
OpenIncidentAgain ==
  /\ CheckStep("stale", "down")
  /\ openIncidents' = openIncidents + 1
  /\ NoAlertSent /\ UNCHANGED faults

\* An incident that is open already is left alone, otherwise one is created.
OpenIncident ==
  /\ CheckStep("stale", IF openIncidents > 0 THEN "fresh" ELSE "down")
  /\ openIncidents' = IF openIncidents > 0 THEN openIncidents ELSE 1
  /\ NoAlertSent /\ UNCHANGED faults

\* Reading or creating the incident fails: the loop goes on with the next agent.
OpenIncidentFails ==
  /\ CheckStep("stale", "fresh")
  /\ Fault
  /\ NoAlertSent /\ UNCHANGED openIncidents

AlertDown ==
  /\ CheckStep("down", "fresh")
  /\ \E delivered \in BOOLEAN : Alert!SendDown(Host, delivered)
  /\ UNCHANGED <<openIncidents, faults>>

\* Mutant: every heartbeat counts as fresh.
ReadHeartbeatsAny ==
  /\ CheckStep("fresh", IF lastSeen # None THEN "recovered" ELSE "off")
  /\ NoAlertSent /\ UNCHANGED <<openIncidents, faults>>

\* GetAllHeartbeats.
ReadHeartbeats ==
  /\ CheckStep("fresh", IF IsFresh THEN "recovered" ELSE "off")
  /\ NoAlertSent /\ UNCHANGED <<openIncidents, faults>>

\* Mutant: the incident is taken to be there.
ResolveIncidentBlind ==
  /\ CheckStep("recovered", "up")
  /\ openIncidents' = openIncidents - 1
  /\ NoAlertSent /\ UNCHANGED faults

\* The newest open incident, if there is one, is resolved.
ResolveIncident ==
  /\ CheckStep("recovered", IF openIncidents > 0 THEN "up" ELSE "off")
  /\ openIncidents' = IF openIncidents > 0 THEN openIncidents - 1 ELSE 0
  /\ NoAlertSent /\ UNCHANGED faults

\* Reading the heartbeats, or reading or resolving the incident, fails.
RecoverFails ==
  /\ \/ CheckStep("fresh", "off")
     \/ CheckStep("recovered", "off")
  /\ Fault
  /\ NoAlertSent /\ UNCHANGED openIncidents

AlertUp ==
  /\ CheckStep("up", "off")
  /\ \E delivered \in BOOLEAN : Alert!SendRecovery(Host, delivered)
  /\ UNCHANGED <<openIncidents, faults>>

Check ==
  \/ ReadStale \/ OpenIncident \/ AlertDown
  \/ ReadHeartbeats \/ ResolveIncident \/ AlertUp

CheckFails == ReadStaleFails \/ OpenIncidentFails \/ RecoverFails

-----------------------------------------------------------------------------
\* The rest of the system.

Push == PushNext /\ UNCHANGED <<check, checkAge, openIncidents, lastDownAlert, muted, page>>

\* A check of one agent makes one push of at most 10s, so at most one boundary
\* between intervals falls into it.
Tick ==
  /\ PassInterval
  /\ checkAge = 0
  /\ checkAge' = IF check = "off" THEN 0 ELSE 1
  /\ Alert!AgeAlerts
  /\ UNCHANGED <<check, openIncidents, muted, page>>

Toggle ==
  /\ muted' = {Host} \ muted
  /\ UNCHANGED <<pushVars, check, checkAge, openIncidents, lastDownAlert, page>>

\* The hub restarts.  No agent is in monitorStates, so resolveStaleIncidents
\* resolves every open incident of an agent, unless the store fails.
HubRestart ==
  /\ Fault
  /\ check' = "off"
  /\ checkAge' = 0
  /\ openIncidents' \in {0, openIncidents}
  /\ lastDownAlert' = [n \in {Host} |-> Alert!NoAlert]
  /\ UNCHANGED <<agentVars, net, late, lastSeen, muted, page>>

Next == Push \/ Tick \/ Check \/ CheckFails \/ Toggle \/ HubRestart

Spec == Init /\ [][Next]_vars

(***************************************************************************)
(* Fairness: time passes, the hub's ticker and the calls of a check go on, *)
(* and so do the cycles of an agent that runs.                             *)
(***************************************************************************)
Fairness ==
  /\ WF_vars(Tick) /\ WF_vars(Check)
  /\ WF_vars(Push /\ (Collect \/ FlushOne \/ FlushFails \/ SendCurrent))

FairSpec == Spec /\ Fairness

-----------------------------------------------------------------------------
\* Safety.

\* An agent has at most one open incident, although only a read before the
\* INSERT keeps it so.
OneIncident == openIncidents <= 1

\* Between two checks a remembered DOWN alert belongs to an open incident: so
\* the alert of the next outage is not deduplicated away, and the recovery that
\* forgets it is still to come.
AlertHasIncident ==
  check \in {"off", "stale", "fresh", "recovered"} /\ lastDownAlert[Host] # Alert!NoAlert
    => openIncidents = 1

-----------------------------------------------------------------------------
\* Liveness.

\* An agent that once reported and is gone for good ends up with an open
\* incident.
DeathNoticed ==
  <>[](agent.at = "off") => <>[](lastSeen = None \/ openIncidents = 1)

\* When the agent runs, the network works and collectors return something, the
\* incident ends up resolved.
ReturnNoticed ==
  <>[](/\ agent.at # "off"
       /\ net
       /\ agent.at = "send" => ~agent.cur.empty)
    => <>[](openIncidents = 0)

=============================================================================
