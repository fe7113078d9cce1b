------------------------ MODULE MonitorPipelineProofs ------------------------
(***************************************************************************)
(* Theorems about MonitorPipeline for every set of monitors, every channel *)
(* capacity, threshold, reminder interval and every value of the bounds.   *)
(***************************************************************************)
EXTENDS MonitorPipeline, TLAPS

-----------------------------------------------------------------------------
\* The state machine and the alerter.

\* RecordResult keeps a monitor state a monitor state, and returns one of the
\* three transitions.
LEMMA RecordResultType ==
  ASSUME NEW ms \in MonitorStates, NEW up \in BOOLEAN
  PROVE  /\ RecordResult(ms, up) \in MonitorStates
         /\ Transition(ms, up) \in Transitions
PROOF
<1>1. FailuresAfter(ms, up) \in 0..MaxThreshold
  BY MaxThresholdAssumption DEF FailuresAfter, MonitorStates
<1>2. Transition(ms, up) \in Transitions
  BY DEF Transition, Transitions
<1>3. StatusAfter(ms, up) \in Statuses
  BY DEF StatusAfter, Statuses, MonitorStates
<1> QED BY <1>1, <1>2, <1>3 DEF RecordResult, MonitorStates

\* RecordResult changes the status exactly when it returns a transition, and
\* to the status the transition names.
LEMMA RecordResultStatus ==
  ASSUME NEW ms \in MonitorStates, NEW up \in BOOLEAN
  PROVE  /\ Transition(ms, up) = "to_down" =>
              ms.status = "UP" /\ RecordResult(ms, up).status = "DOWN"
         /\ Transition(ms, up) = "to_up" =>
              ms.status = "DOWN" /\ RecordResult(ms, up).status = "UP"
         /\ Transition(ms, up) = "none" => RecordResult(ms, up).status = ms.status
PROOF
<1>1. RecordResult(ms, up).status = StatusAfter(ms, up)
  BY DEF RecordResult
<1> QED BY <1>1 DEF StatusAfter, Transition, MonitorStates, Statuses

\* What each method of the alerter does to the types.
LEMMA AlerterStepType ==
  ASSUME AlerterTypeOK, NEW n \in Names, NEW ok \in BOOLEAN, UNCHANGED muted,
         SendDown(n, ok) \/ SendRecovery(n, ok) \/ (AgeAlerts /\ UNCHANGED page)
  PROVE  AlerterTypeOK'
PROOF
<1>1. CASE SendDown(n, ok)
  BY <1>1, ReminderAssumption DEF SendDown, AlerterTypeOK, Ages, NoAlert
<1>2. CASE SendRecovery(n, ok)
  BY <1>2 DEF SendRecovery, AlerterTypeOK
<1>3. CASE AgeAlerts /\ UNCHANGED page
  <2>1. \A k \in Names : lastDownAlert'[k] \in Ages \cup {NoAlert}
    BY <1>3, ReminderAssumption DEF AgeAlerts, AlerterTypeOK, Ages, NoAlert
  <2>2. lastDownAlert' \in [Names -> Ages \cup {NoAlert}]
    BY <1>3, <2>1 DEF AgeAlerts
  <2> QED BY <1>3, <2>2 DEF AlerterTypeOK
<1> QED BY <1>1, <1>2, <1>3

-----------------------------------------------------------------------------
\* Type correctness.

LEMMA FreshStatesType ==
  ASSUME NEW cfg \in Configs
  PROVE  /\ DOMAIN cfg \subseteq Monitors
         /\ DOMAIN FreshStates(cfg) = DOMAIN cfg
         /\ \A m \in DOMAIN cfg : FreshStates(cfg)[m] \in MonitorStates
         /\ \A m \in DOMAIN cfg : FreshStates(cfg)[m].status = "UP"
BY MaxThresholdAssumption
   DEF Configs, FreshStates, NewMonitorState, MonitorStates, Statuses, Thresholds

LEMMA ReloadedStatesType ==
  ASSUME TypeOK, NEW cfg \in Configs
  PROVE  /\ DOMAIN ReloadedStates(cfg) = DOMAIN cfg
         /\ \A m \in DOMAIN cfg : ReloadedStates(cfg)[m] \in MonitorStates
         /\ \A m \in DOMAIN cfg : ReloadedStates(cfg)[m].status = StatusOf(m)
PROOF
<1>1. DOMAIN ReloadedStates(cfg) = DOMAIN cfg
  BY DEF ReloadedStates
<1> SUFFICES ASSUME NEW m \in DOMAIN cfg
             PROVE  /\ ReloadedStates(cfg)[m] \in MonitorStates
                    /\ ReloadedStates(cfg)[m].status = StatusOf(m)
  BY <1>1
<1>2. cfg[m] \in Thresholds
  BY DEF Configs
<1>3. CASE m \in DOMAIN monitorStates
  BY <1>2, <1>3 DEF ReloadedStates, TypeOK, MonitorStates, StatusOf
<1>4. CASE m \notin DOMAIN monitorStates
  BY <1>2, <1>4, MaxThresholdAssumption
     DEF ReloadedStates, NewMonitorState, MonitorStates, Statuses, StatusOf
<1> QED BY <1>3, <1>4

LEMMA StartRunnersType ==
  ASSUME NEW cfg \in Configs
  PROVE  /\ StartRunners(cfg) \in [Monitors -> RunnerStates]
         /\ \A m \in Monitors : StartRunners(cfg)[m] # "off" => m \in DOMAIN cfg
BY DEF StartRunners, RunnerStates

\* The initial states have the right types.
LEMMA InitType == Init => TypeOK
PROOF
<1> SUFFICES ASSUME Init PROVE TypeOK
  OBVIOUS
<1>1. PICK cfg \in Configs : /\ monitorStates = FreshStates(cfg)
                             /\ runner = StartRunners(cfg)
  BY DEF Init
<1>2. /\ DOMAIN monitorStates \subseteq Monitors
      /\ \A m \in DOMAIN monitorStates : monitorStates[m] \in MonitorStates
  BY <1>1, FreshStatesType
<1>3. /\ runner \in [Monitors -> RunnerStates]
      /\ \A m \in Monitors : runner[m] # "off" => m \in DOMAIN monitorStates
  BY <1>1, FreshStatesType, StartRunnersType
<1>4. AlerterTypeOK
  BY DEF Init, AlerterInit, AlerterTypeOK, NoAlert
<1>5. /\ resultCh \in Seq(Results) /\ Len(resultCh) <= ChanCap
      /\ proc \in ProcStates
  BY PipelineAssumption DEF Init, ProcStates
<1>6. used \in [flips: 0..MaxFlips, reloads: 0..MaxReloads,
                boots: 0..MaxBoots, faults: 0..MaxFaults]
  BY PipelineAssumption DEF Init
<1> QED BY <1>2, <1>3, <1>4, <1>5, <1>6 DEF Init, TypeOK

\* Spending a bound that is not yet spent keeps the counters in range.
LEMMA SpendType ==
  ASSUME TypeOK,
         \/ UNCHANGED used
         \/ used.flips < MaxFlips /\ Spend("flips")
         \/ used.reloads < MaxReloads /\ Spend("reloads")
         \/ used.faults < MaxFaults /\ Spend("faults")
  PROVE  used' \in [flips: 0..MaxFlips, reloads: 0..MaxReloads,
                    boots: 0..MaxBoots, faults: 0..MaxFaults]
PROOF
<1>1. used \in [flips: 0..MaxFlips, reloads: 0..MaxReloads,
                boots: 0..MaxBoots, faults: 0..MaxFaults]
  BY DEF TypeOK
<1>2. MaxFlips \in Nat /\ MaxReloads \in Nat /\ MaxBoots \in Nat /\ MaxFaults \in Nat
  BY PipelineAssumption
<1>3. CASE UNCHANGED used
  BY <1>1, <1>3
<1>4. CASE used.flips < MaxFlips /\ Spend("flips")
  BY <1>1, <1>2, <1>4 DEF Spend
<1>5. CASE used.reloads < MaxReloads /\ Spend("reloads")
  BY <1>1, <1>2, <1>5 DEF Spend
<1>6. CASE used.faults < MaxFaults /\ Spend("faults")
  BY <1>1, <1>2, <1>6 DEF Spend
<1> QED BY <1>3, <1>4, <1>5, <1>6

\* Every step keeps the types.
LEMMA NextType == TypeOK /\ [Next]_vars => TypeOK'
PROOF
<1> SUFFICES ASSUME TypeOK, [Next]_vars PROVE TypeOK'
  OBVIOUS
<1> USE DEF Monitors
<1>1. ASSUME NEW m \in Monitors, Flip(m) PROVE TypeOK'
  <2>1. world' \subseteq Monitors
    BY <1>1 DEF Flip, TypeOK
  <2> QED BY <1>1, <2>1, SpendType DEF Flip, TypeOK, AlerterTypeOK, alerterVars
<1>2. ASSUME NEW m \in Monitors, ToggleMute(m) PROVE TypeOK'
  BY <1>2 DEF ToggleMute, TypeOK, AlerterTypeOK
<1>3. ASSUME NEW m \in Monitors, RunnerCheck(m) PROVE TypeOK'
  BY <1>3 DEF RunnerCheck, TypeOK, RunnerStates, AlerterTypeOK, alerterVars
<1>4. ASSUME NEW m \in Monitors, RunnerTick(m) PROVE TypeOK'
  BY <1>4 DEF RunnerTick, TypeOK, RunnerStates, AlerterTypeOK, alerterVars
<1>5. ASSUME NEW m \in Monitors, RunnerSend(m) PROVE TypeOK'
  <2>1. resultCh' \in Seq(Results) /\ Len(resultCh') <= ChanCap
    BY <1>5, PipelineAssumption DEF RunnerSend, TypeOK, Results
  <2>2. /\ runner' \in [Monitors -> RunnerStates]
        /\ \A k \in Monitors : runner'[k] # "off" => k \in DOMAIN monitorStates
    BY <1>5 DEF RunnerSend, TypeOK, RunnerStates
  <2> QED BY <1>5, <2>1, <2>2 DEF RunnerSend, TypeOK, AlerterTypeOK, alerterVars
<1>6. ASSUME NEW m \in Monitors, RunnerExit(m) PROVE TypeOK'
  BY <1>6 DEF RunnerExit, TypeOK, RunnerStates, AlerterTypeOK, alerterVars
<1>7. ASSUME Tick PROVE TypeOK'
  <2>1. AlerterTypeOK'
    BY <1>7, AlerterStepType DEF Tick, TypeOK, AgeAlerts, AlerterTypeOK, Ages, NoAlert
  <2> QED BY <1>7, <2>1 DEF Tick, TypeOK
<1>8. ASSUME Receive PROVE TypeOK'
  <2>1. Head(resultCh) \in Results /\ Tail(resultCh) \in Seq(Results)
        /\ Len(Tail(resultCh)) <= ChanCap
    BY <1>8, PipelineAssumption DEF Receive, TypeOK
  <2>2. proc' \in ProcStates
    BY <1>8, <2>1 DEF Receive, ProcStates, Results
  <2> QED BY <1>8, <2>1, <2>2 DEF Receive, TypeOK, AlerterTypeOK, alerterVars
<1>9. ASSUME Record PROVE TypeOK'
  <2>1. proc.mon \in Monitors /\ proc.up \in BOOLEAN
    BY <1>9 DEF Record, TypeOK, ProcStates, Idle
  <2>2. CASE proc.mon \notin DOMAIN monitorStates
    BY <1>9, <2>2 DEF Record, TypeOK, AlerterTypeOK, alerterVars, ProcStates
  <2>3. CASE proc.mon \in DOMAIN monitorStates
    <3> DEFINE ms == monitorStates[proc.mon]
               trans == Transition(ms, proc.up)
    <3>1. RecordResult(ms, proc.up) \in MonitorStates /\ trans \in Transitions
      BY <2>1, <2>3, RecordResultType DEF TypeOK
    <3>2. /\ DOMAIN monitorStates' = DOMAIN monitorStates
          /\ \A m \in DOMAIN monitorStates' : monitorStates'[m] \in MonitorStates
      BY <1>9, <2>3, <3>1 DEF Record, TypeOK
    <3>3. proc' \in ProcStates
      BY <1>9, <2>1, <2>3, <3>1 DEF Record, ProcStates, Transitions
    <3> QED BY <1>9, <3>2, <3>3 DEF Record, TypeOK, AlerterTypeOK, alerterVars
  <2> QED BY <2>2, <2>3
<1>10. ASSUME UpdateIncident PROVE TypeOK'
  <2>1. proc.mon \in Monitors /\ proc.trans \in {"to_down", "to_up"}
    BY <1>10 DEF UpdateIncident, TypeOK, ProcStates, Idle
  <2>2. PICK ok \in BOOLEAN : MayFail(ok) /\ HandleTransition(proc.mon, proc.trans, ok)
    BY <1>10 DEF UpdateIncident
  <2>3. proc' \in ProcStates
    BY <1>10, <2>1 DEF UpdateIncident, TypeOK, ProcStates, Idle
  <2>4. openIncidents' \in [Monitors -> Nat] /\ drift' \in [Monitors -> SUBSET Causes]
    BY <2>1, <2>2 DEF HandleTransition, DriftAfter, TypeOK, Causes
  <2> QED BY <1>10, <2>2, <2>3, <2>4, SpendType
          DEF UpdateIncident, MayFail, TypeOK, AlerterTypeOK, alerterVars
<1>11. ASSUME SendAlert PROVE TypeOK'
  <2>1. proc.mon \in Monitors
    BY <1>11 DEF SendAlert, TypeOK, ProcStates, Idle
  <2>2. PICK ok \in BOOLEAN :
          /\ MayFail(ok)
          /\ SendDown(proc.mon, ok) \/ SendRecovery(proc.mon, ok)
          /\ drift' = [drift EXCEPT ![proc.mon] =
                (@ \ {"ntfy", "muted", "restart"}) \cup Undelivered(proc.mon, ok)]
    BY <1>11 DEF SendAlert
  <2>3. AlerterTypeOK'
    BY <1>11, <2>1, <2>2, AlerterStepType DEF SendAlert, TypeOK
  <2>4. drift' \in [Monitors -> SUBSET Causes]
    BY <2>1, <2>2 DEF TypeOK, Causes, Undelivered
  <2>5. proc' \in ProcStates
    BY <1>11 DEF SendAlert, ProcStates
  <2> QED BY <1>11, <2>2, <2>3, <2>4, <2>5, SpendType DEF SendAlert, MayFail, TypeOK
<1>12. ASSUME ReloadStop PROVE TypeOK'
  BY <1>12, SpendType DEF ReloadStop, TypeOK, AlerterTypeOK, alerterVars
<1>13. ASSUME ReloadSwap PROVE TypeOK'
  <2>1. PICK cfg \in Configs :
          /\ monitorStates' = ReloadedStates(cfg)
          /\ runner' = StartRunners(cfg)
          /\ drift' = [m \in Monitors |->
                         IF m \notin DOMAIN cfg /\ StatusOf(m) = "DOWN"
                         THEN drift[m] \cup {"removed"} ELSE drift[m]]
    BY <1>13 DEF ReloadSwap
  <2>2. drift' \in [Monitors -> SUBSET Causes]
    BY <2>1 DEF TypeOK, Causes
  <2>3. /\ DOMAIN monitorStates' \subseteq Monitors
        /\ \A m \in DOMAIN monitorStates' : monitorStates'[m] \in MonitorStates
    BY <2>1, ReloadedStatesType, FreshStatesType
  <2>4. /\ runner' \in [Monitors -> RunnerStates]
        /\ \A m \in Monitors : runner'[m] # "off" => m \in DOMAIN monitorStates'
    BY <2>1, StartRunnersType, ReloadedStatesType
  <2> QED BY <1>13, <2>2, <2>3, <2>4 DEF ReloadSwap, TypeOK, AlerterTypeOK, alerterVars
<1>14. ASSUME Restart PROVE TypeOK'
  <2>1. PICK cfg \in Configs : monitorStates' = FreshStates(cfg) /\ runner' = StartRunners(cfg)
    BY <1>14 DEF Restart
  <2>2. PICK failed \in SUBSET Monitors, loaded \in BOOLEAN :
          /\ (failed # {} \/ ~loaded) => used.faults < MaxFaults
          /\ ResolveStaleIncidents(failed)
          /\ muted' = IF loaded THEN mutes ELSE {}
          /\ used' = [used EXCEPT !.boots = @ + 1,
                        !.faults = IF failed # {} \/ ~loaded THEN @ + 1 ELSE @]
    BY <1>14 DEF Restart
  <2>3. used' \in [flips: 0..MaxFlips, reloads: 0..MaxReloads,
                   boots: 0..MaxBoots, faults: 0..MaxFaults]
    <3>1. used \in [flips: 0..MaxFlips, reloads: 0..MaxReloads,
                    boots: 0..MaxBoots, faults: 0..MaxFaults]
      BY DEF TypeOK
    <3>2. MaxFlips \in Nat /\ MaxReloads \in Nat /\ MaxBoots \in Nat /\ MaxFaults \in Nat
      BY PipelineAssumption
    <3>3. used.boots < MaxBoots
      BY <1>14 DEF Restart
    <3> DEFINE booted == [used EXCEPT !.boots = used.boots + 1]
    <3>4. booted \in [flips: 0..MaxFlips, reloads: 0..MaxReloads,
                      boots: 0..MaxBoots, faults: 0..MaxFaults]
      BY <3>1, <3>2, <3>3
    <3>5. booted.faults = used.faults
      BY <3>1
    <3>6. CASE failed # {} \/ ~loaded
      <4>1. used' = [booted EXCEPT !.faults = used.faults + 1]
        BY <2>2, <3>6
      <4>2. used.faults < MaxFaults
        BY <2>2, <3>6
      <4> HIDE DEF booted
      <4> QED BY <3>1, <3>2, <3>4, <3>5, <4>1, <4>2
    <3>7. CASE ~(failed # {} \/ ~loaded)
      <4>1. used' = [booted EXCEPT !.faults = used.faults]
        BY <2>2, <3>7
      <4> HIDE DEF booted
      <4> QED BY <3>1, <3>2, <3>4, <3>5, <4>1
    <3> QED BY <3>6, <3>7
  <2>4. openIncidents' \in [Monitors -> Nat]
    BY <2>2 DEF ResolveStaleIncidents, TypeOK
  <2>5. drift' \in [Monitors -> SUBSET Causes]
    BY <1>14 DEF Restart, Causes
  <2>6. /\ DOMAIN monitorStates' \subseteq Monitors
        /\ \A m \in DOMAIN monitorStates' : monitorStates'[m] \in MonitorStates
        /\ runner' \in [Monitors -> RunnerStates]
        /\ \A m \in Monitors : runner'[m] # "off" => m \in DOMAIN monitorStates'
    BY <2>1, FreshStatesType, StartRunnersType
  <2>7. AlerterTypeOK'
    BY <1>14, <2>2 DEF Restart, TypeOK, AlerterTypeOK, NoAlert
  <2>8. resultCh' \in Seq(Results) /\ Len(resultCh') <= ChanCap /\ proc' \in ProcStates
    BY <1>14, PipelineAssumption DEF Restart, ProcStates
  <2> QED BY <1>14, <2>3, <2>4, <2>5, <2>6, <2>7, <2>8 DEF Restart, TypeOK
<1>15. CASE UNCHANGED vars
  BY <1>15 DEF vars, TypeOK, AlerterTypeOK
<1> QED
  BY <1>1, <1>2, <1>3, <1>4, <1>5, <1>6, <1>7, <1>8, <1>9, <1>10,
     <1>11, <1>12, <1>13, <1>14, <1>15 DEF Next

\* Every variable keeps its type, at every bound.
THEOREM TypeCorrect == Spec => []TypeOK
PROOF
<1>1. Init => TypeOK BY InitType
<1>2. TypeOK /\ [Next]_vars => TypeOK' BY NextType
<1> QED BY <1>1, <1>2, PTL DEF Spec

-----------------------------------------------------------------------------
\* The inductive invariant.

\* The four parts of IInv speak of these variables only.
LEMMA UnrelatedStep ==
  ASSUME IInv,
         UNCHANGED <<monitorStates, proc, openIncidents, drift, page>>,
         \A m \in Monitors : lastDownAlert'[m] # NoAlert => lastDownAlert[m] # NoAlert
  PROVE  IInv'
BY DEF IInv, FlightInv, IncidentInv, Due, AlertInv, PhoneInv, Reported, InFlight, StatusOf

LEMMA InitIInv == Init => IInv
PROOF
<1> SUFFICES ASSUME Init, NEW m \in Monitors
             PROVE  FlightInv(m) /\ IncidentInv(m) /\ AlertInv(m) /\ PhoneInv(m)
  BY DEF IInv
<1>1. StatusOf(m) = "UP"
  <2>1. PICK cfg \in Configs : monitorStates = FreshStates(cfg)
    BY DEF Init
  <2> QED BY <2>1, FreshStatesType DEF StatusOf
<1>2. ~InFlight(m, {"incident"}) /\ ~InFlight(m, {"incident", "alert"})
  BY DEF Init, Idle, InFlight
<1>3. openIncidents[m] = 0 /\ lastDownAlert[m] = NoAlert /\ page[m] = "UP"
  BY DEF Init, AlerterInit, Monitors
<1> QED BY <1>1, <1>2, <1>3 DEF FlightInv, IncidentInv, Due, AlertInv, PhoneInv, Reported

\* Taking a result from the channel puts no transition in flight.
LEMMA ReceiveIInv == TypeOK /\ IInv /\ Receive => IInv'
PROOF
<1> SUFFICES ASSUME TypeOK, IInv, Receive, NEW m \in Monitors
             PROVE  (FlightInv(m) /\ IncidentInv(m) /\ AlertInv(m) /\ PhoneInv(m))'
  BY DEF IInv
<1>1. /\ ~InFlight(m, {"incident"}) /\ ~InFlight(m, {"incident"})'
      /\ ~InFlight(m, {"incident", "alert"}) /\ ~InFlight(m, {"incident", "alert"})'
  BY DEF Receive, Idle, InFlight
<1>2. /\ StatusOf(m)' = StatusOf(m)
      /\ UNCHANGED <<drift, openIncidents, lastDownAlert, page>>
  BY DEF Receive, StatusOf, alerterVars
<1> QED BY <1>1, <1>2 DEF IInv, FlightInv, IncidentInv, Due, AlertInv, PhoneInv, Reported

\* The status changes exactly when a transition of that monitor is put in flight.
LEMMA RecordIInv == TypeOK /\ IInv /\ Record => IInv'
PROOF
<1> SUFFICES ASSUME TypeOK, IInv, Record, NEW m \in Monitors
             PROVE  (FlightInv(m) /\ IncidentInv(m) /\ AlertInv(m) /\ PhoneInv(m))'
  BY DEF IInv
<1>1. proc.mon \in Monitors /\ proc.up \in BOOLEAN /\ proc.stage = "record"
  BY DEF Record, TypeOK, ProcStates, Idle
<1>2. ~InFlight(m, {"incident"}) /\ ~InFlight(m, {"incident", "alert"})
  BY <1>1 DEF InFlight
<1>3. UNCHANGED <<drift, openIncidents, lastDownAlert, page>>
  BY DEF Record, alerterVars
<1>4. StatusOf(m) \in {"UP", "DOWN"}
  BY DEF StatusOf, TypeOK, MonitorStates, Statuses
<1>5. CASE /\ StatusOf(m)' = StatusOf(m)
           /\ ~InFlight(m, {"incident"})' /\ ~InFlight(m, {"incident", "alert"})'
  BY <1>2, <1>3, <1>5 DEF IInv, FlightInv, IncidentInv, Due, AlertInv, PhoneInv, Reported
<1>6. CASE /\ proc' = [stage |-> "incident", mon |-> m, trans |-> "to_down"]
           /\ StatusOf(m) = "UP" /\ StatusOf(m)' = "DOWN"
  <2>1. /\ InFlight(m, {"incident"})' /\ InFlight(m, {"incident", "alert"})'
        /\ proc'.trans = "to_down"
    BY <1>6 DEF InFlight
  <2> QED BY <1>2, <1>3, <1>6, <2>1
          DEF IInv, FlightInv, IncidentInv, Due, AlertInv, PhoneInv, Reported
<1>7. CASE /\ proc' = [stage |-> "incident", mon |-> m, trans |-> "to_up"]
           /\ StatusOf(m) = "DOWN" /\ StatusOf(m)' = "UP"
  <2>1. /\ InFlight(m, {"incident"})' /\ InFlight(m, {"incident", "alert"})'
        /\ proc'.trans = "to_up"
    BY <1>7 DEF InFlight
  <2> QED BY <1>2, <1>3, <1>7, <2>1
          DEF IInv, FlightInv, IncidentInv, Due, AlertInv, PhoneInv, Reported
<1>8. CASE proc.mon \notin DOMAIN monitorStates
  BY <1>5, <1>8 DEF Record, Idle, InFlight, StatusOf
<1>9. CASE proc.mon \in DOMAIN monitorStates
  <2> DEFINE ms == monitorStates[proc.mon]
             trans == Transition(ms, proc.up)
  <2>1. /\ ms \in MonitorStates
        /\ monitorStates' = [monitorStates EXCEPT ![proc.mon] = RecordResult(ms, proc.up)]
        /\ proc' = IF trans = "none" THEN Idle
                   ELSE [stage |-> "incident", mon |-> proc.mon, trans |-> trans]
    BY <1>9 DEF Record, TypeOK
  <2>2. CASE m # proc.mon
    <3>1. StatusOf(m)' = StatusOf(m)
      BY <2>1, <2>2 DEF StatusOf
    <3>2. ~InFlight(m, {"incident"})' /\ ~InFlight(m, {"incident", "alert"})'
      BY <2>1, <2>2 DEF InFlight, Idle
    <3> QED BY <1>5, <3>1, <3>2
  <2>3. CASE m = proc.mon
    <3>1. StatusOf(m) = ms.status /\ StatusOf(m)' = RecordResult(ms, proc.up).status
      BY <1>9, <2>1, <2>3 DEF StatusOf
    <3>2. trans \in Transitions
      BY <1>1, <2>1, RecordResultType
    <3>3. CASE trans = "none"
      <4>1. StatusOf(m)' = StatusOf(m)
        BY <1>1, <2>1, <3>1, <3>3, RecordResultStatus
      <4>2. ~InFlight(m, {"incident"})' /\ ~InFlight(m, {"incident", "alert"})'
        BY <2>1, <3>3 DEF InFlight, Idle
      <4> QED BY <1>5, <4>1, <4>2
    <3>4. CASE trans = "to_down"
      <4>1. StatusOf(m) = "UP" /\ StatusOf(m)' = "DOWN"
        BY <1>1, <2>1, <3>1, <3>4, RecordResultStatus
      <4> QED BY <1>6, <2>1, <2>3, <3>4, <4>1
    <3>5. CASE trans = "to_up"
      <4>1. StatusOf(m) = "DOWN" /\ StatusOf(m)' = "UP"
        BY <1>1, <2>1, <3>1, <3>5, RecordResultStatus
      <4> QED BY <1>7, <2>1, <2>3, <3>5, <4>1
    <3> QED BY <3>2, <3>3, <3>4, <3>5 DEF Transitions
  <2> QED BY <2>2, <2>3
<1> QED BY <1>8, <1>9

\* The row catches up with the status.
LEMMA UpdateIncidentIInv == TypeOK /\ IInv /\ UpdateIncident => IInv'
PROOF
<1> SUFFICES ASSUME TypeOK, IInv, UpdateIncident, NEW m \in Monitors
             PROVE  (FlightInv(m) /\ IncidentInv(m) /\ AlertInv(m) /\ PhoneInv(m))'
  BY DEF IInv
<1>1. /\ proc.mon \in Monitors /\ proc.trans \in {"to_down", "to_up"}
      /\ proc.stage = "incident"
      /\ proc'.stage = "alert" /\ proc'.mon = proc.mon /\ proc'.trans = proc.trans
  BY DEF UpdateIncident, TypeOK, ProcStates, Idle
<1>2. PICK ok \in BOOLEAN : HandleTransition(proc.mon, proc.trans, ok)
  BY DEF UpdateIncident
<1>3. /\ StatusOf(m)' = StatusOf(m)
      /\ UNCHANGED <<lastDownAlert, page>>
  BY DEF UpdateIncident, StatusOf, alerterVars
<1>4. /\ InFlight(m, {"incident", "alert"})' <=> InFlight(m, {"incident", "alert"})
      /\ ~InFlight(m, {"incident"})'
      /\ InFlight(m, {"incident"}) <=> m = proc.mon
  BY <1>1 DEF InFlight
<1>5. /\ \A c \in Causes \ {"create", "resolve"} : c \in drift'[m] <=> c \in drift[m]
      /\ "resolve" \in drift[m] => "resolve" \in drift'[m]
      /\ drift'[m] \subseteq Causes /\ drift[m] \subseteq Causes
  BY <1>1, <1>2 DEF HandleTransition, DriftAfter, TypeOK, Causes
<1>6. FlightInv(m)' /\ AlertInv(m)' /\ PhoneInv(m)'
  <2>1. /\ "removed" \in drift'[m] <=> "removed" \in drift[m]
        /\ drift'[m] \subseteq {"create", "resolve"} => drift[m] \subseteq {"create", "resolve"}
    BY <1>5 DEF Causes
  <2> QED BY <1>1, <1>3, <1>4, <2>1 DEF IInv, FlightInv, AlertInv, PhoneInv, Reported
<1>7. IncidentInv(m)'
  <2>0. FlightInv(m) /\ IncidentInv(m) /\ StatusOf(m) \in {"UP", "DOWN"} /\ openIncidents[m] \in Nat
    BY DEF IInv, TypeOK, StatusOf, MonitorStates, Statuses
  <2>1. CASE m # proc.mon
    <3>1. openIncidents'[m] = openIncidents[m] /\ drift'[m] = drift[m]
      BY <1>1, <1>2, <2>1 DEF HandleTransition, TypeOK
    <3> QED BY <1>3, <1>4, <2>0, <2>1, <3>1 DEF IncidentInv, Due, Reported
  <2>2. CASE m = proc.mon
    <3>1. InFlight(m, {"incident"}) /\ InFlight(m, {"incident", "alert"})
      BY <1>1, <2>2 DEF InFlight
    <3>2. Reported(m, {"incident"})' = StatusOf(m)
      BY <1>3, <1>4 DEF Reported
    <3>3. drift'[m] = DriftAfter(drift[m], proc.trans, ok)
      BY <1>1, <1>2, <2>2 DEF HandleTransition, TypeOK
    <3>4. CASE proc.trans = "to_down" /\ ok
      <4>1. openIncidents'[m] = openIncidents[m] + 1
        BY <1>1, <1>2, <2>2, <3>4 DEF HandleTransition, TypeOK
      <4>2. drift'[m] = drift[m] \ {"create"}
        BY <3>3, <3>4 DEF DriftAfter
      <4>3. "removed" \notin drift[m] =>
              StatusOf(m) = "DOWN" /\ Reported(m, {"incident"}) = "UP"
        BY <2>0, <3>1, <3>4 DEF FlightInv, Reported
      <4> QED BY <1>3, <2>0, <3>2, <4>1, <4>2, <4>3 DEF IncidentInv, Due
    <3>5. CASE proc.trans = "to_down" /\ ~ok
      <4>1. openIncidents'[m] = openIncidents[m]
        BY <1>1, <1>2, <2>2, <3>5 DEF HandleTransition, TypeOK
      <4>2. drift'[m] = drift[m] \cup {"create"}
        BY <3>3, <3>5 DEF DriftAfter
      <4>3. "removed" \notin drift[m] => Reported(m, {"incident"}) = "UP"
        BY <2>0, <3>1, <3>5 DEF FlightInv, Reported
      <4> QED BY <1>3, <2>0, <3>2, <4>1, <4>2, <4>3 DEF IncidentInv, Due
    <3>6. CASE proc.trans = "to_up" /\ ok
      <4>1. openIncidents'[m] = IF openIncidents[m] > 0 THEN openIncidents[m] - 1 ELSE 0
        BY <1>1, <1>2, <2>2, <3>6 DEF HandleTransition, TypeOK
      <4>2. drift'[m] = drift[m] \ {"create"}
        BY <3>3, <3>6 DEF DriftAfter
      <4>3. StatusOf(m) = "UP" /\ Reported(m, {"incident"}) = "DOWN"
        BY <2>0, <3>1, <3>6 DEF FlightInv, Reported
      <4> QED BY <1>3, <2>0, <3>2, <4>1, <4>2, <4>3 DEF IncidentInv, Due
    <3>7. CASE proc.trans = "to_up" /\ ~ok
      <4>1. openIncidents'[m] = openIncidents[m]
        BY <1>1, <1>2, <2>2, <3>7 DEF HandleTransition, TypeOK
      <4>2. "resolve" \in drift'[m]
        BY <3>3, <3>7 DEF DriftAfter
      <4>3. StatusOf(m) = "UP"
        BY <2>0, <3>1, <3>7 DEF FlightInv
      <4> QED BY <1>3, <2>0, <4>1, <4>2, <4>3 DEF IncidentInv, Due
    <3> QED BY <1>1, <3>4, <3>5, <3>6, <3>7
  <2> QED BY <2>1, <2>2
<1> QED BY <1>6, <1>7

\* The alerter and the phone catch up with the status.  AlertInv is what lets
\* SendDown through: an alert still remembered would be deduplicated.
LEMMA SendAlertIInv == TypeOK /\ IInv /\ SendAlert => IInv'
PROOF
<1> SUFFICES ASSUME TypeOK, IInv, SendAlert, NEW m \in Monitors
             PROVE  (FlightInv(m) /\ IncidentInv(m) /\ AlertInv(m) /\ PhoneInv(m))'
  BY DEF IInv
<1>1. /\ proc.mon \in Monitors /\ proc.trans \in {"to_down", "to_up"}
      /\ proc.stage = "alert" /\ proc' = Idle
  BY DEF SendAlert, TypeOK, ProcStates, Idle
<1>2. PICK ok \in BOOLEAN :
        /\ IF proc.trans = "to_down" THEN SendDown(proc.mon, ok)
                                     ELSE SendRecovery(proc.mon, ok)
        /\ drift' = [drift EXCEPT ![proc.mon] =
              (@ \ {"ntfy", "muted", "restart"}) \cup Undelivered(proc.mon, ok)]
  BY DEF SendAlert
<1>3. StatusOf(m)' = StatusOf(m) /\ UNCHANGED openIncidents
  BY DEF SendAlert, StatusOf
<1>4. /\ ~InFlight(m, {"incident"}) /\ ~InFlight(m, {"incident"})'
      /\ ~InFlight(m, {"incident", "alert"})'
      /\ InFlight(m, {"incident", "alert"}) <=> m = proc.mon
  BY <1>1 DEF InFlight, Idle
<1>5. drift'[m] = IF m = proc.mon
                  THEN (drift[m] \ {"ntfy", "muted", "restart"}) \cup Undelivered(m, ok)
                  ELSE drift[m]
  BY <1>1, <1>2 DEF TypeOK
<1>6. /\ "removed" \in drift'[m] <=> "removed" \in drift[m]
      /\ "create" \in drift'[m] <=> "create" \in drift[m]
      /\ "resolve" \in drift'[m] <=> "resolve" \in drift[m]
  BY <1>5 DEF Undelivered
<1>7. FlightInv(m)' /\ IncidentInv(m)'
  BY <1>3, <1>4, <1>6 DEF IInv, FlightInv, IncidentInv, Due, Reported
<1>8. CASE m # proc.mon
  <2>1. lastDownAlert'[m] = lastDownAlert[m] /\ page'[m] = page[m]
    BY <1>1, <1>2, <1>8 DEF SendDown, SendRecovery, TypeOK, AlerterTypeOK, Monitors
  <2> QED BY <1>3, <1>4, <1>5, <1>7, <1>8, <2>1 DEF IInv, AlertInv, PhoneInv, Reported
<1>9. CASE m = proc.mon
  <2>1. SUFFICES ASSUME "removed" \notin drift[m]
                 PROVE  AlertInv(m)' /\ PhoneInv(m)'
    BY <1>6, <1>7 DEF AlertInv, PhoneInv
  <2>2. StatusOf(m) = IF proc.trans = "to_down" THEN "DOWN" ELSE "UP"
    BY <1>4, <1>9, <2>1 DEF IInv, FlightInv
  <2>3. Reported(m, {"incident", "alert"})' = StatusOf(m)
    BY <1>3, <1>4 DEF Reported
  <2>4. CASE proc.trans = "to_down"
    <3>1. ~Deduplicated(m)
      BY <1>4, <1>9, <2>1, <2>2, <2>4 DEF IInv, AlertInv, Reported, Deduplicated
    <3>2. page'[m] = "DOWN" \/ m \in muted \/ ~ok
      BY <1>2, <1>9, <2>4, <3>1 DEF SendDown, TypeOK, AlerterTypeOK, Monitors
    <3>3. drift'[m] \subseteq {"create", "resolve"} => page'[m] = "DOWN"
      BY <1>5, <1>9, <3>2 DEF Undelivered
    <3> QED BY <2>2, <2>3, <2>4, <3>3 DEF AlertInv, PhoneInv
  <2>5. CASE proc.trans = "to_up"
    <3>1. lastDownAlert'[m] = NoAlert /\ (page'[m] = "UP" \/ m \in muted \/ ~ok)
      BY <1>2, <1>9, <2>5 DEF SendRecovery, TypeOK, AlerterTypeOK, Monitors
    <3>2. drift'[m] \subseteq {"create", "resolve"} => page'[m] = "UP"
      BY <1>5, <1>9, <3>1 DEF Undelivered
    <3> QED BY <2>2, <2>3, <2>5, <3>1, <3>2 DEF AlertInv, PhoneInv
  <2> QED BY <1>1, <2>4, <2>5
<1> QED BY <1>7, <1>8, <1>9

\* A reload keeps the status of every monitor it keeps, and marks one that it
\* drops while DOWN.
LEMMA ReloadSwapIInv == TypeOK /\ IInv /\ ReloadSwap => IInv'
PROOF
<1> SUFFICES ASSUME TypeOK, IInv, ReloadSwap, NEW m \in Monitors
             PROVE  (FlightInv(m) /\ IncidentInv(m) /\ AlertInv(m) /\ PhoneInv(m))'
  BY DEF IInv
<1>1. PICK cfg \in Configs :
        /\ monitorStates' = ReloadedStates(cfg)
        /\ drift' = [k \in Monitors |->
                       IF k \notin DOMAIN cfg /\ StatusOf(k) = "DOWN"
                       THEN drift[k] \cup {"removed"} ELSE drift[k]]
  BY DEF ReloadSwap
<1>2. UNCHANGED <<proc, openIncidents, lastDownAlert, page>>
  BY DEF ReloadSwap, alerterVars
<1>3. StatusOf(m) \in {"UP", "DOWN"}
  BY DEF StatusOf, TypeOK, MonitorStates, Statuses
<1>4. CASE m \notin DOMAIN cfg /\ StatusOf(m) = "DOWN"
  <2>1. "removed" \in drift'[m]
    BY <1>1, <1>4
  <2>2. StatusOf(m)' = "UP" /\ openIncidents'[m] \in Nat
    BY <1>1, <1>2, <1>4, ReloadedStatesType DEF StatusOf, TypeOK
  <2> QED BY <2>1, <2>2 DEF FlightInv, IncidentInv, Due, AlertInv, PhoneInv
<1>5. CASE ~(m \notin DOMAIN cfg /\ StatusOf(m) = "DOWN")
  <2>1. StatusOf(m)' = StatusOf(m)
    BY <1>1, <1>3, <1>5, ReloadedStatesType DEF StatusOf
  <2>2. drift'[m] = drift[m]
    BY <1>1, <1>5
  <2> QED BY <1>2, <2>1, <2>2
          DEF IInv, FlightInv, IncidentInv, Due, AlertInv, PhoneInv, Reported, InFlight
<1> QED BY <1>4, <1>5

\* After a restart every monitor is UP, and whatever disagrees is marked.
LEMMA RestartIInv == TypeOK /\ IInv /\ Restart => IInv'
PROOF
<1> SUFFICES ASSUME TypeOK, Restart, NEW m \in Monitors
             PROVE  (FlightInv(m) /\ IncidentInv(m) /\ AlertInv(m) /\ PhoneInv(m))'
  BY DEF IInv
<1>1. PICK cfg \in Configs : monitorStates' = FreshStates(cfg)
  BY DEF Restart
<1>2. StatusOf(m)' = "UP"
  BY <1>1, FreshStatesType DEF StatusOf
<1>3. ~InFlight(m, {"incident"})' /\ ~InFlight(m, {"incident", "alert"})'
  BY DEF Restart, Idle, InFlight
<1>4. lastDownAlert'[m] = NoAlert /\ page'[m] = page[m] /\ page[m] \in {"UP", "DOWN"}
  BY DEF Restart, TypeOK, AlerterTypeOK, Monitors
<1>5. openIncidents'[m] \in Nat
  BY DEF Restart, ResolveStaleIncidents, TypeOK
<1>6. drift'[m] = (IF openIncidents'[m] > 0 THEN {"resolve"} ELSE {})
                  \cup (IF page[m] = "DOWN" THEN {"restart"} ELSE {})
  BY DEF Restart
<1>7. IncidentInv(m)'
  <2>1. CASE openIncidents'[m] > 0
    BY <1>2, <1>5, <1>6, <2>1 DEF IncidentInv, Due
  <2>2. CASE openIncidents'[m] = 0
    BY <1>2, <1>3, <2>2 DEF IncidentInv, Due, Reported
  <2> QED BY <1>5, <2>1, <2>2
<1>8. PhoneInv(m)'
  <2>1. CASE page[m] = "DOWN"
    BY <1>6, <2>1 DEF PhoneInv
  <2>2. CASE page[m] = "UP"
    BY <1>2, <1>3, <1>4, <2>2 DEF PhoneInv, Reported
  <2> QED BY <1>4, <2>1, <2>2
<1> QED BY <1>3, <1>4, <1>7, <1>8 DEF FlightInv, AlertInv

\* Every step keeps the inductive invariant.
LEMMA NextIInv == TypeOK /\ IInv /\ [Next]_vars => IInv'
PROOF
<1> SUFFICES ASSUME TypeOK, IInv, [Next]_vars PROVE IInv'
  OBVIOUS
<1>1. ASSUME NEW m \in Monitors,
             \/ Flip(m) \/ ToggleMute(m)
             \/ RunnerCheck(m) \/ RunnerTick(m) \/ RunnerSend(m) \/ RunnerExit(m)
      PROVE  IInv'
  BY <1>1, UnrelatedStep
     DEF Flip, ToggleMute, RunnerCheck, RunnerTick, RunnerSend, RunnerExit, alerterVars
<1>2. CASE ReloadStop \/ UNCHANGED vars
  BY <1>2, UnrelatedStep DEF ReloadStop, alerterVars, vars
<1>3. CASE Tick
  <2>1. \A m \in Monitors : lastDownAlert'[m] # NoAlert => lastDownAlert[m] # NoAlert
    BY <1>3 DEF Tick, AgeAlerts, Ages, NoAlert, Monitors
  <2> QED BY <1>3, <2>1, UnrelatedStep DEF Tick
<1> QED
  BY <1>1, <1>2, <1>3, ReceiveIInv, RecordIInv, UpdateIncidentIInv, SendAlertIInv,
     ReloadSwapIInv, RestartIInv
  DEF Next

THEOREM InductiveInvariant == Spec => [](TypeOK /\ IInv)
PROOF
<1>1. Init => TypeOK /\ IInv BY InitType, InitIInv
<1>2. TypeOK /\ IInv /\ [Next]_vars => (TypeOK /\ IInv)'
  BY NextType, NextIInv
<1> QED BY <1>1, <1>2, PTL DEF Spec

-----------------------------------------------------------------------------
\* The properties the runs check.

\* Between two results an outage has its open row, unless that one could not be
\* created, and only a failed resolve or a removal while DOWN leaves a row over:
\* processResult, HandleTransition, ReloadConfig and resolveStaleIncidents.
THEOREM IncidentsAgreeAlways == Spec => []IncidentsAgree
PROOF
<1>1. TypeOK /\ IInv => IncidentsAgree
  BY DEF IInv, IncidentInv, Due, Reported, IncidentsAgree
<1> QED BY <1>1, InductiveInvariant, PTL

\* The deduplication of SendDown never swallows the alert of a new outage.
THEOREM NewOutageNeverDeduplicated == Spec => []NewOutageNotDeduplicated
PROOF
<1>1. TypeOK /\ IInv => NewOutageNotDeduplicated
  <2> SUFFICES ASSUME IInv, NEW m \in Monitors,
                      InFlight(m, {"alert"}), proc.trans = "to_down",
                      "removed" \notin drift[m]
               PROVE  ~Deduplicated(m)
    BY DEF NewOutageNotDeduplicated
  <2>1. InFlight(m, {"incident", "alert"})
    BY DEF InFlight
  <2>2. StatusOf(m) = "DOWN"
    BY <2>1 DEF IInv, FlightInv
  <2>3. Reported(m, {"incident", "alert"}) = "UP"
    BY <2>1, <2>2 DEF Reported
  <2> QED BY <2>3 DEF IInv, AlertInv, Deduplicated
<1> QED BY <1>1, InductiveInvariant, PTL

\* What the operator was last told is the status, where nothing marked in drift
\* has come between.
THEOREM PhoneAgreesAlways == Spec => []PhoneAgrees
PROOF
<1>1. TypeOK /\ IInv => PhoneAgrees
  BY DEF IInv, PhoneInv, Reported, PhoneAgrees
<1> QED BY <1>1, InductiveInvariant, PTL

=============================================================================
