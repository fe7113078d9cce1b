--------------------------- MODULE MonitorPipeline ---------------------------
(***************************************************************************)
(* The hub's core: scheduler goroutines check the monitored services and   *)
(* send the results over a bounded channel to the main goroutine, which    *)
(* runs each one through the UP/DOWN state machine, opens and resolves     *)
(* incidents in SQLite and pushes alerts, while ReloadConfig replaces the  *)
(* scheduler and the set of monitors, alerts are muted, store calls and    *)
(* pushes fail, and the process restarts.                                  *)
(*                                                                         *)
(* processResult takes four steps here (Receive, Record, UpdateIncident,   *)
(* SendAlert): the lock of the hub is held during Record only, and a crash *)
(* or a reload can come between any two of them.                           *)
(*                                                                         *)
(* One reload runs at a time here; ConfigReload has overlapping ones.       *)
(***************************************************************************)
EXTENDS MonitorState, Alerter, Sequences

CONSTANTS
  ChanCap,      \* capacity of resultCh (100 in the code)
  MutableNames, \* the names the operator mutes and unmutes
  MaxFlips,     \* bound: how often services change health
  MaxReloads,   \* bound: how often the configuration is reloaded
  MaxBoots,     \* bound: how often the process restarts
  MaxFaults     \* bound: how many store calls and pushes fail

Monitors == Names

ASSUME PipelineAssumption ==
  /\ ChanCap \in Nat \ {0}
  /\ MutableNames \subseteq Names
  /\ {MaxFlips, MaxReloads, MaxBoots, MaxFaults} \subseteq Nat

VARIABLES
  world,          \* external: the services that answer
  monitorStates,  \* Hub.monitorStates, a function on the configured monitors
  runner,         \* what the goroutine of runMonitor does for each monitor
  stopping,       \* ReloadConfig has closed stopCh and is in wg.Wait
  resultCh,       \* Hub.resultCh
  proc,           \* where the main goroutine is in processResult
  openIncidents,  \* SQLite: how many unresolved incident rows a monitor has
  mutes,          \* SQLite: the rows of alert_mutes
  drift,          \* history: why store or phone may disagree with the hub
  used            \* how much of each bound is spent

vars == <<world, monitorStates, runner, stopping, resultCh, proc,
          openIncidents, mutes, drift, used, lastDownAlert, muted, page>>

Results == [mon: Monitors, up: BOOLEAN]

\* "up" and "down": the check is done and its result waits to be sent.
RunnerStates == {"off", "check", "up", "down", "sleep"}

Idle == [stage |-> "idle"]

ProcStates ==
  {Idle}
  \cup [stage: {"record"}, mon: Monitors, up: BOOLEAN]
  \cup [stage: {"incident", "alert"}, mon: Monitors, trans: {"to_down", "to_up"}]

\* "create": the row of the outage could not be created; "resolve": a row could
\* not be resolved; "removed": the monitor was taken out of the configuration
\* while DOWN; "ntfy", "muted": an alert was not pushed;
\* "restart": the process restarted while the phone said DOWN.
Causes == {"create", "resolve", "removed", "ntfy", "muted", "restart"}

TypeOK ==
  /\ world \subseteq Monitors
  /\ DOMAIN monitorStates \subseteq Monitors
  /\ \A m \in DOMAIN monitorStates : monitorStates[m] \in MonitorStates
  /\ runner \in [Monitors -> RunnerStates]
  /\ \A m \in Monitors : runner[m] # "off" => m \in DOMAIN monitorStates
  /\ stopping \in BOOLEAN
  /\ resultCh \in Seq(Results)
  /\ Len(resultCh) <= ChanCap
  /\ proc \in ProcStates
  /\ openIncidents \in [Monitors -> Nat]
  /\ mutes \subseteq Monitors
  /\ drift \in [Monitors -> SUBSET Causes]
  /\ used \in [flips: 0..MaxFlips, reloads: 0..MaxReloads,
               boots: 0..MaxBoots, faults: 0..MaxFaults]
  /\ AlerterTypeOK

-----------------------------------------------------------------------------

\* A configuration: which monitors there are, with which thresholds.
Configs == UNION {[C -> Thresholds] : C \in SUBSET Monitors}

FreshStates(cfg) == [m \in DOMAIN cfg |-> NewMonitorState(cfg[m])]

\* Mutant: goroutines are started for removed monitors too.
StartRunnersAll(cfg) == [m \in Monitors |-> "check"]

StartRunners(cfg) ==
  [m \in Monitors |-> IF m \in DOMAIN cfg THEN "check" ELSE "off"]

\* A monitor the hub does not know counts as UP: that is how it would start.
StatusOf(m) == IF m \in DOMAIN monitorStates THEN monitorStates[m].status ELSE "UP"

Spend(what) == used' = [used EXCEPT ![what] = @ + 1]

\* ok is TRUE, or a failure is spent.
MayFail(ok) ==
  \/ ok /\ UNCHANGED used
  \/ ~ok /\ used.faults < MaxFaults /\ Spend("faults")

Init ==
  /\ world \in SUBSET Monitors
  /\ \E cfg \in Configs :
       /\ monitorStates = FreshStates(cfg)
       /\ runner = StartRunners(cfg)
  /\ stopping = FALSE
  /\ resultCh = <<>>
  /\ proc = Idle
  /\ openIncidents = [m \in Monitors |-> 0]
  /\ mutes = {}
  /\ drift = [m \in Monitors |-> {}]
  /\ used = [flips |-> 0, reloads |-> 0, boots |-> 0, faults |-> 0]
  /\ AlerterInit

-----------------------------------------------------------------------------
\* The environment.

\* A service starts or stops answering.
Flip(m) ==
  /\ used.flips < MaxFlips
  /\ world' = IF m \in world THEN world \ {m} ELSE world \cup {m}
  /\ Spend("flips")
  /\ UNCHANGED <<monitorStates, runner, stopping, resultCh, proc,
                 openIncidents, mutes, drift, alerterVars>>

\* Time passes for the alerter.
Tick ==
  /\ AgeAlerts
  /\ UNCHANGED <<world, monitorStates, runner, stopping, resultCh, proc,
                 openIncidents, mutes, drift, used, muted, page>>

-----------------------------------------------------------------------------
\* The scheduler goroutine of monitor m.

\* Checker.Check returns what the service answers now.
RunnerCheck(m) ==
  /\ runner[m] = "check"
  /\ runner' = [runner EXCEPT ![m] = IF m \in world THEN "up" ELSE "down"]
  /\ UNCHANGED <<world, monitorStates, stopping, resultCh, proc,
                 openIncidents, mutes, drift, used, alerterVars>>

\* The ticker fires.
RunnerTick(m) ==
  /\ runner[m] = "sleep"
  /\ runner' = [runner EXCEPT ![m] = "check"]
  /\ UNCHANGED <<world, monitorStates, stopping, resultCh, proc,
                 openIncidents, mutes, drift, used, alerterVars>>

\* Mutant: a result that finds the channel full is dropped.
RunnerSendOrDrop(m) ==
  /\ runner[m] \in {"up", "down"}
  /\ resultCh' = IF Len(resultCh) < ChanCap
                 THEN Append(resultCh, [mon |-> m, up |-> runner[m] = "up"]) ELSE resultCh
  /\ runner' = [runner EXCEPT ![m] = "sleep"]
  /\ UNCHANGED <<world, monitorStates, stopping, proc,
                 openIncidents, mutes, drift, used, alerterVars>>

\* The send on resultCh is chosen by the select.
RunnerSend(m) ==
  /\ runner[m] \in {"up", "down"}
  /\ Len(resultCh) < ChanCap
  /\ resultCh' = Append(resultCh, [mon |-> m, up |-> runner[m] = "up"])
  /\ runner' = [runner EXCEPT ![m] = "sleep"]
  /\ UNCHANGED <<world, monitorStates, stopping, proc,
                 openIncidents, mutes, drift, used, alerterVars>>

\* Mutant: leaving while a send waits skips wg.Done.
RunnerExitNoDone(m) ==
  /\ stopping
  /\ runner[m] \in {"sleep", "up", "down"}
  /\ runner' = [runner EXCEPT ![m] = IF @ = "sleep" THEN "off" ELSE "gone"]
  /\ UNCHANGED <<world, monitorStates, stopping, resultCh, proc,
                 openIncidents, mutes, drift, used, alerterVars>>

\* The closed stopCh is chosen by the select: a result not yet sent is lost.
RunnerExit(m) ==
  /\ stopping
  /\ runner[m] \in {"sleep", "up", "down"}
  /\ runner' = [runner EXCEPT ![m] = "off"]
  /\ UNCHANGED <<world, monitorStates, stopping, resultCh, proc,
                 openIncidents, mutes, drift, used, alerterVars>>

-----------------------------------------------------------------------------
\* The main goroutine: processResults and processResult.

\* A result is taken from the channel and its raw row inserted.
Receive ==
  /\ proc = Idle
  /\ resultCh # <<>>
  /\ proc' = [stage |-> "record", mon |-> Head(resultCh).mon, up |-> Head(resultCh).up]
  /\ resultCh' = Tail(resultCh)
  /\ UNCHANGED <<world, monitorStates, runner, stopping,
                 openIncidents, mutes, drift, used, alerterVars>>

\* Under the lock: a monitor removed since the check is ignored, any other
\* takes the result; without a transition the rest is only a broadcast.
Record ==
  /\ proc.stage = "record"
  /\ IF proc.mon \notin DOMAIN monitorStates
     THEN proc' = Idle /\ UNCHANGED monitorStates
     ELSE LET ms == monitorStates[proc.mon]
              trans == Transition(ms, proc.up)
          IN /\ monitorStates' =
                  [monitorStates EXCEPT ![proc.mon] = RecordResult(ms, proc.up)]
             /\ proc' = IF trans = "none" THEN Idle
                        ELSE [stage |-> "incident", mon |-> proc.mon, trans |-> trans]
  /\ UNCHANGED <<world, runner, stopping, resultCh,
                 openIncidents, mutes, drift, used, alerterVars>>

\* A row that is missing is missed until the next transition only; one that is
\* left over stays until a restart resolves it.
DriftAfter(causes, trans, ok) ==
  CASE ok                        -> causes \ {"create"}
    [] ~ok /\ trans = "to_down" -> causes \cup {"create"}
    [] ~ok /\ trans = "to_up"   -> causes \cup {"resolve"}

\* Mutant: the row is not resolved.
HandleTransitionCreateOnly(m, trans, ok) ==
  /\ openIncidents' =
       IF ok /\ trans = "to_down" THEN [openIncidents EXCEPT ![m] = @ + 1] ELSE openIncidents
  /\ drift' = [drift EXCEPT ![m] = DriftAfter(@, trans, ok)]

\* IncidentManager.HandleTransition: create a row, or resolve the newest open
\* one if there is any.  An error is only logged.
HandleTransition(m, trans, ok) ==
  /\ openIncidents' =
       IF ~ok THEN openIncidents
       ELSE IF trans = "to_down" THEN [openIncidents EXCEPT ![m] = @ + 1]
       ELSE [openIncidents EXCEPT ![m] = IF @ > 0 THEN @ - 1 ELSE 0]
  /\ drift' = [drift EXCEPT ![m] = DriftAfter(@, trans, ok)]

UpdateIncident ==
  /\ proc.stage = "incident"
  /\ \E ok \in BOOLEAN :
       /\ MayFail(ok)
       /\ HandleTransition(proc.mon, proc.trans, ok)
  /\ proc' = [proc EXCEPT !.stage = "alert"]
  /\ UNCHANGED <<world, monitorStates, runner, stopping, resultCh, mutes, alerterVars>>

\* Why the alert about to be sent for m does not reach the phone, if so.
Undelivered(m, ok) ==
  IF m \in muted THEN {"muted"} ELSE IF ~ok THEN {"ntfy"} ELSE {}

\* processResult's switch on the transition.  An error of the push is only
\* logged: nothing sends the alert again.
SendAlert ==
  /\ proc.stage = "alert"
  /\ \E ok \in BOOLEAN :
       /\ MayFail(ok)
       /\ IF proc.trans = "to_down" THEN SendDown(proc.mon, ok)
                                    ELSE SendRecovery(proc.mon, ok)
       /\ drift' = [drift EXCEPT ![proc.mon] =
                      (@ \ {"ntfy", "muted", "restart"}) \cup Undelivered(proc.mon, ok)]
  /\ proc' = Idle
  /\ UNCHANGED <<world, monitorStates, runner, stopping, resultCh,
                 openIncidents, mutes, muted>>

-----------------------------------------------------------------------------
\* ReloadConfig, mutes and restarts.

\* Scheduler.Stop closes stopCh; the goroutines leave by RunnerExit.
ReloadStop ==
  /\ ~stopping
  /\ used.reloads < MaxReloads
  /\ stopping' = TRUE
  /\ Spend("reloads")
  /\ UNCHANGED <<world, monitorStates, runner, resultCh, proc,
                 openIncidents, mutes, drift, alerterVars>>

\* The states ReloadConfig builds: kept for a monitor that is still there,
\* with the new threshold, and fresh for a new one.
ReloadedStates(cfg) ==
  [m \in DOMAIN cfg |->
     IF m \in DOMAIN monitorStates
     THEN [monitorStates[m] EXCEPT !.threshold = cfg[m]]
     ELSE NewMonitorState(cfg[m])]

\* wg.Wait returns; under the lock the states are replaced, and then the new
\* scheduler is started.
ReloadSwap ==
  /\ stopping
  /\ \A m \in Monitors : runner[m] = "off"
  /\ \E cfg \in Configs :
       /\ monitorStates' = ReloadedStates(cfg)
       /\ runner' = StartRunners(cfg)
       /\ drift' = [m \in Monitors |->
                      IF m \notin DOMAIN cfg /\ StatusOf(m) = "DOWN"
                      THEN drift[m] \cup {"removed"} ELSE drift[m]]
  /\ stopping' = FALSE
  /\ UNCHANGED <<world, resultCh, proc, openIncidents, mutes,
                 used, alerterVars>>

\* Handlers.ToggleMute, one at a time: the row decides, and memory follows it.
\* Alerts ask the memory and a restart asks the row, so that the two writes of
\* one toggle can be one step; a toggle whose store call fails changes nothing.
ToggleMute(m) ==
  /\ m \in MutableNames
  /\ IF m \in mutes
     THEN mutes' = mutes \ {m} /\ muted' = muted \ {m}
     ELSE mutes' = mutes \cup {m} /\ muted' = muted \cup {m}
  /\ UNCHANGED <<world, monitorStates, runner, stopping, resultCh, proc,
                 openIncidents, drift, used, lastDownAlert, page>>

\* resolveStaleIncidents, which runs when every configured monitor is UP: each
\* open row is resolved, except where the store fails.
ResolveStaleIncidents(failed) ==
  openIncidents' = [m \in Monitors |-> IF m \in failed THEN openIncidents[m] ELSE 0]

\* The process ends at any point and New and Run start it again: what is left
\* is the database (incidents, mutes) and what the phone was told.
Restart ==
  /\ used.boots < MaxBoots
  /\ \E cfg \in Configs :
       /\ monitorStates' = FreshStates(cfg)
       /\ runner' = StartRunners(cfg)
  /\ stopping' = FALSE
  /\ resultCh' = <<>>
  /\ proc' = Idle
  /\ \E failed \in SUBSET Monitors, loaded \in BOOLEAN :
       LET faulty == failed # {} \/ ~loaded
       IN /\ faulty => used.faults < MaxFaults
          /\ ResolveStaleIncidents(failed)
          /\ muted' = IF loaded THEN mutes ELSE {}
          /\ used' = [used EXCEPT !.boots = @ + 1,
                                  !.faults = IF faulty THEN @ + 1 ELSE @]
  /\ drift' = [m \in Monitors |->
                 (IF openIncidents'[m] > 0 THEN {"resolve"} ELSE {})
                 \cup (IF page[m] = "DOWN" THEN {"restart"} ELSE {})]
  /\ lastDownAlert' = [m \in Monitors |-> NoAlert]
  /\ UNCHANGED <<world, mutes, page>>

Next ==
  \/ \E m \in Monitors :
       \/ Flip(m) \/ ToggleMute(m)
       \/ RunnerCheck(m) \/ RunnerTick(m) \/ RunnerSend(m) \/ RunnerExit(m)
  \/ Tick
  \/ Receive \/ Record \/ UpdateIncident \/ SendAlert
  \/ ReloadStop \/ ReloadSwap
  \/ Restart

Spec == Init /\ [][Next]_vars

(***************************************************************************)
(* Fairness: the runtime schedules every goroutine, tickers fire and calls *)
(* return.  A send on a full channel is queued first come first served and *)
(* a select chooses at random among its ready cases, so neither a send nor *)
(* an exit that is ready again and again is passed over for ever.          *)
(***************************************************************************)
Fairness ==
  /\ \A m \in Monitors :
       /\ WF_vars(RunnerCheck(m)) /\ WF_vars(RunnerTick(m))
       /\ SF_vars(RunnerSend(m)) /\ SF_vars(RunnerExit(m))
  /\ WF_vars(Tick)
  /\ WF_vars(Receive) /\ WF_vars(Record)
  /\ WF_vars(UpdateIncident) /\ WF_vars(SendAlert)
  /\ WF_vars(ReloadSwap)

FairSpec == Spec /\ Fairness

-----------------------------------------------------------------------------
\* Safety.

\* The main goroutine has recorded a transition of m and has yet to do what
\* is left in the given stages.
InFlight(m, stages) == proc.stage \in stages /\ proc.mon = m

\* How many open rows a monitor of this status ought to have.
Due(m, status) == IF status = "DOWN" /\ "create" \notin drift[m] THEN 1 ELSE 0

\* The history page and the state machine tell one story (README.md:9, "automatic
\* create on DOWN, resolve on UP"): between two results an outage always has an
\* open row, but the one whose row could not be created; and no monitor has more
\* rows than that, but one of which a row could not be resolved or that was
\* removed while DOWN.  A row that is missing is not missed after its outage.
IncidentsAgree ==
  \A m \in Monitors :
    ~InFlight(m, {"incident"}) =>
      /\ openIncidents[m] >= Due(m, StatusOf(m))
      /\ drift[m] \cap {"resolve", "removed"} = {} => openIncidents[m] = Due(m, StatusOf(m))

\* The deduplication of NtfyClient.SendDown never swallows the alert of a new
\* outage: when a DOWN transition reaches SendDown, every earlier alert about
\* that monitor was forgotten by a SendRecovery or a restart, unless the
\* monitor was removed while DOWN.
NewOutageNotDeduplicated ==
  \A m \in Monitors :
    InFlight(m, {"alert"}) /\ proc.trans = "to_down" /\ "removed" \notin drift[m]
      => ~Deduplicated(m)

\* What the operator was last told of a monitor is its status, unless a push
\* failed, was muted, or the monitor was lost track of in a reload or restart.
PhoneAgrees ==
  \A m \in Monitors :
    drift[m] \subseteq {"create", "resolve"} /\ ~InFlight(m, {"incident", "alert"})
      => page[m] = StatusOf(m)

-----------------------------------------------------------------------------
\* The three safety invariants speak of the states between two results.  What
\* makes them inductive is what holds while one is being processed.

\* A transition in flight is the last one of its monitor; a monitor removed while
\* DOWN is UP before its transition has been through.
FlightInv(m) ==
  InFlight(m, {"incident", "alert"}) =>
    \/ StatusOf(m) = IF proc.trans = "to_down" THEN "DOWN" ELSE "UP"
    \/ "removed" \in drift[m] /\ StatusOf(m) = "UP"

\* The status of m before the transition that has yet to pass these stages.
Reported(m, stages) ==
  IF ~InFlight(m, stages) THEN StatusOf(m)
  ELSE IF StatusOf(m) = "DOWN" THEN "UP" ELSE "DOWN"

\* The incident row follows the status, one step behind.
IncidentInv(m) ==
  /\ ~InFlight(m, {"incident"}) => openIncidents[m] >= Due(m, StatusOf(m))
  /\ drift[m] \cap {"resolve", "removed"} = {}
       => openIncidents[m] = Due(m, Reported(m, {"incident"}))

\* An alert is remembered only while the monitor is DOWN, or until the recovery
\* in flight is sent.
AlertInv(m) ==
  "removed" \notin drift[m] /\ lastDownAlert[m] # NoAlert
    => Reported(m, {"incident", "alert"}) = "DOWN"

\* The phone follows the status, one step behind.
PhoneInv(m) ==
  drift[m] \subseteq {"create", "resolve"} => page[m] = Reported(m, {"incident", "alert"})

IInv == \A m \in Monitors : FlightInv(m) /\ IncidentInv(m) /\ AlertInv(m) /\ PhoneInv(m)

-----------------------------------------------------------------------------
\* Liveness.

\* A service that stays down ends up DOWN with an open incident, whatever the
\* reloads and restarts before, unless it is no longer configured or creating
\* the row failed.
OutageDetected ==
  \A m \in Monitors :
    <>[](m \notin world) =>
      <>[](\/ m \notin DOMAIN monitorStates
           \/ /\ StatusOf(m) = "DOWN"
              /\ openIncidents[m] > 0 \/ "create" \in drift[m])

\* A service that stays up ends up UP and with no open incident, unless a row
\* could not be resolved or the monitor was removed while DOWN.
RecoveryDetected ==
  \A m \in Monitors :
    <>[](m \in world) =>
      <>[](/\ StatusOf(m) = "UP"
           /\ openIncidents[m] = 0 \/ drift[m] \cap {"resolve", "removed"} # {})

\* ReloadConfig does not hang in Scheduler.Stop, whatever the goroutines were
\* doing, a full channel included.
ReloadFinishes == stopping ~> ~stopping

=============================================================================
