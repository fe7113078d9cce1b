--------------------------- MODULE ConfigReloadProofs ---------------------------
(***************************************************************************)
(* Theorems about ConfigReload for every finite set of requests and        *)
(* however many of them overlap.                                           *)
(***************************************************************************)
EXTENDS ConfigReload, FiniteSetTheorems, TLAPS

-----------------------------------------------------------------------------
\* The inductive invariants.

\* The types, but for how often a scheduler may be started.
CoreType ==
  /\ file \in Files
  /\ tmp \in Files \cup {"none"}
  /\ content \in [Files -> Configs]
  /\ req \in [Requests -> RequestStates]
  /\ hubCfg \in Configs
  /\ scheduler \in Schedulers
  /\ schedCfg \in [Schedulers -> Configs]
  /\ stopped \subseteq Schedulers
  /\ runners \in [Schedulers -> Nat]
  /\ booted \in BOOLEAN
  /\ closer \in {"open", "stop", "wait", "exited"}
  /\ alone \subseteq Requests

\* Only Hub.Run and the requests that were answered 200 have called Start.
Started == {r \in Requests : req[r].at = "ok"}

StartsCounted ==
  \A s \in Schedulers : runners[s] <= Cardinality(Started) + (IF booted THEN 1 ELSE 0)

\* The requests between the stop of the old scheduler and the new one.
Reloading == {r \in Requests : req[r].at \in {"wait", "swap", "install"}}

\* The scheduler that is stopped is the lock of the reload: as long as it is the
\* current one nobody else stops it.
OneReloads ==
  /\ \A q, r \in Reloading : q = r
  /\ Reloading # {} => scheduler \in stopped
  /\ closer = "open" /\ scheduler \in stopped => Reloading # {}

\* A scheduler is used only after the request that builds it has installed it.
FreshUnused ==
  \A r \in Requests :
    r = scheduler \/ r \in stopped \/ runners[r] > 0 => req[r].at \in {"start"} \cup Ended

\* The states and the scheduler have one configuration, except between the two
\* assignments.
CfgAgree ==
  /\ \A r \in Requests : req[r].at = "install" => hubCfg = req[r].cfg
  /\ (\A r \in Requests : req[r].at # "install") => schedCfg[scheduler] = hubCfg

\* A current scheduler without goroutines is about to be started.
WillStart ==
  booted /\ scheduler \notin stopped =>
    \/ runners[scheduler] > 0
    \/ scheduler \in Requests /\ req[scheduler].at = "start"

ReloadInv ==
  /\ CoreType
  /\ OneReloads
  /\ FreshUnused
  /\ CfgAgree
  /\ WillStart
  /\ OldSchedulersStopped

\* How far a request that overlaps no other has got.
AloneAt(r) ==
  /\ req[r].at = "write" => tmp = req[r].fd /\ content[tmp] = "empty"
  /\ req[r].at = "rename" => tmp = req[r].fd /\ content[tmp] = r
  /\ req[r].at # "remove"
  /\ req[r].at \in {"load", "stop", "wait", "swap", "install", "start"} => content[file] = r
  /\ req[r].at \in {"stop", "wait", "swap", "install"} => req[r].cfg = r
  /\ req[r].at = "start" =>
       hubCfg = r /\ scheduler = r /\ r \notin stopped /\ runners[r] = 0

AloneInv ==
  \A r \in alone \cap Active :
    Active = {r} /\ booted /\ closer = "open" /\ AloneAt(r)

-----------------------------------------------------------------------------
\* Types.

\* What the fields of a request's state are.
LEMMA RequestFields ==
  ASSUME CoreType, NEW r \in Requests
  PROVE  /\ req[r].at \in {"write", "rename"} => req[r].fd \in Files
         /\ req[r].at \in {"stop", "wait", "swap", "install"} => req[r].cfg \in Configs
         /\ req[r].at = "wait" => req[r].on \in Schedulers
         /\ req[r].at \in {"new", "write", "rename", "remove", "load", "stop", "wait", "swap",
                           "install", "start"} \cup Ended
BY DEF CoreType, RequestStates, Ended

\* The states a step leads to.
LEMMA StateTypes ==
  /\ \A a \in {"new", "remove", "load", "start"} \cup Ended : [at |-> a] \in RequestStates
  /\ \A a \in {"write", "rename"}, f \in Files : [at |-> a, fd |-> f] \in RequestStates
  /\ \A a \in {"stop", "swap", "install"}, c \in Configs : [at |-> a, cfg |-> c] \in RequestStates
  /\ \A c \in Configs, s \in Schedulers : [at |-> "wait", cfg |-> c, on |-> s] \in RequestStates
BY DEF RequestStates

\* A step moves one request, and the process is there.
LEMMA StepMoves ==
  ASSUME CoreType, NEW r \in Requests, NEW from, NEW to, Step(r, from, to)
  PROVE  /\ closer # "exited"
         /\ req[r].at = from
         /\ req'[r] = to
         /\ \A q \in Requests : q # r => req'[q] = req[q]
         /\ to \in RequestStates => req' \in [Requests -> RequestStates]
BY DEF CoreType, Step

LEMMA TypeStep == CoreType /\ [Next]_vars => CoreType'
PROOF
<1> SUFFICES ASSUME CoreType, [Next]_vars PROVE CoreType'
  OBVIOUS
<1> USE StateTypes DEF Ended
<1> USE DEF vars, disk, hub, main
<1>0. Requests \subseteq Configs /\ Requests \subseteq Files /\ Files = Schedulers /\ {"empty", "torn"} \subseteq Configs
  BY DEF Configs, Files, Schedulers
<1>1. ASSUME NEW r \in Requests, OpenTmp(r) PROVE CoreType'
  <2> DEFINE fd == IF tmp = "none" THEN r ELSE tmp
  <2>1. fd \in Files
    BY <1>0 DEF CoreType
  <2>2. Step(r, "new", [at |-> "write", fd |-> fd]) /\ tmp' = fd
        /\ content' = [content EXCEPT ![fd] = "empty"]
    BY <1>1 DEF OpenTmp
  <2> HIDE DEF fd
  <2>3. req' \in [Requests -> RequestStates]
    BY <2>1, <2>2, StepMoves
  <2>4. content' \in [Files -> Configs] /\ tmp' \in Files
    BY <1>0, <2>1, <2>2 DEF CoreType
  <2>5. alone' \subseteq Requests
    BY <1>1 DEF OpenTmp, CoreType
  <2> QED
    BY <1>1, <2>3, <2>4, <2>5 DEF OpenTmp, CoreType
<1>2. ASSUME NEW r \in Requests, WriteTmp(r) PROVE CoreType'
  <2>1. req[r].fd \in Files
    BY <1>2, RequestFields, StepMoves DEF WriteTmp
  <2>2. req' \in [Requests -> RequestStates]
    BY <1>2, <2>1, StepMoves DEF WriteTmp
  <2>3. content' \in [Files -> Configs]
    BY <1>0, <1>2, <2>1 DEF WriteTmp, CoreType
  <2> QED
    BY <1>2, <2>2, <2>3 DEF WriteTmp, CoreType
<1>3. ASSUME NEW r \in Requests, Rename(r) PROVE CoreType'
  <2>1. req' \in [Requests -> RequestStates]
    BY <1>3, StepMoves DEF Rename
  <2> QED
    BY <1>3, <2>1 DEF Rename, CoreType
<1>4. ASSUME NEW r \in Requests, RenameFails(r) PROVE CoreType'
  <2>1. req' \in [Requests -> RequestStates]
    BY <1>4, StepMoves DEF RenameFails
  <2> QED
    BY <1>4, <2>1 DEF RenameFails, CoreType
<1>5. ASSUME NEW r \in Requests, RemoveTmp(r) PROVE CoreType'
  <2>1. req' \in [Requests -> RequestStates]
    BY <1>5, StepMoves DEF RemoveTmp
  <2> QED
    BY <1>5, <2>1 DEF RemoveTmp, CoreType
<1>6. ASSUME NEW r \in Requests, Load(r) PROVE CoreType'
  <2>1. content[file] \in Configs
    BY DEF CoreType
  <2>2. req' \in [Requests -> RequestStates]
    BY <1>6, <2>1, StepMoves DEF Load
  <2> QED
    BY <1>6, <2>2 DEF Load, CoreType
<1>7. ASSUME NEW r \in Requests, LoadFails(r) \/ StopPanics(r) PROVE CoreType'
  <2>1. req' \in [Requests -> RequestStates]
    BY <1>7, StepMoves DEF LoadFails, StopPanics
  <2> QED
    BY <1>7, <2>1 DEF LoadFails, StopPanics, CoreType
<1>8. ASSUME NEW r \in Requests, StopScheduler(r) PROVE CoreType'
  <2>1. req[r].cfg \in Configs
    BY <1>8, RequestFields, StepMoves DEF StopScheduler
  <2>2. req' \in [Requests -> RequestStates]
    BY <1>8, <2>1, StepMoves DEF StopScheduler, CoreType
  <2> QED
    BY <1>8, <2>2 DEF StopScheduler, CoreType
<1>9. ASSUME NEW r \in Requests, WaitEnds(r) PROVE CoreType'
  <2>1. req[r].cfg \in Configs
    BY <1>9, RequestFields, StepMoves DEF WaitEnds
  <2>2. req' \in [Requests -> RequestStates]
    BY <1>9, <2>1, StepMoves DEF WaitEnds
  <2> QED
    BY <1>9, <2>2 DEF WaitEnds, CoreType
<1>10. ASSUME NEW r \in Requests, SwapStates(r) PROVE CoreType'
  <2>1. req[r].cfg \in Configs
    BY <1>10, RequestFields, StepMoves DEF SwapStates
  <2>2. req' \in [Requests -> RequestStates]
    BY <1>10, <2>1, StepMoves DEF SwapStates
  <2> QED
    BY <1>10, <2>1, <2>2 DEF SwapStates, CoreType
<1>11. ASSUME NEW r \in Requests, InstallScheduler(r) PROVE CoreType'
  <2>1. req[r].cfg \in Configs
    BY <1>11, RequestFields, StepMoves DEF InstallScheduler
  <2>2. req' \in [Requests -> RequestStates]
    BY <1>11, StepMoves DEF InstallScheduler
  <2> QED
    BY <1>0, <1>11, <2>1, <2>2 DEF InstallScheduler, CoreType
<1>12. ASSUME NEW r \in Requests, StartScheduler(r) PROVE CoreType'
  <2>1. req' \in [Requests -> RequestStates]
    BY <1>12, StepMoves DEF StartScheduler
  <2> QED
    BY <1>12, <2>1 DEF StartScheduler, CoreType
<1>13. ASSUME NEW s \in Schedulers, RunnersEnd(s) PROVE CoreType'
  BY <1>13 DEF RunnersEnd, CoreType
<1>14. CASE Boot
  BY <1>14 DEF Boot, CoreType
<1>15. CASE BeginClose
  BY <1>15 DEF BeginClose, CoreType
<1>16. CASE CloseScheduler
  BY <1>16 DEF CloseScheduler, CoreType
<1>17. CASE Exit
  <2>1. req' \in [Requests -> RequestStates]
    BY <1>17 DEF Exit, CoreType
  <2> QED
    BY <1>17, <2>1 DEF Exit, CoreType, Configs, Schedulers
<1>18. CASE UNCHANGED vars
  BY <1>18 DEF CoreType
<1>19. ASSUME NEW r \in Requests, Refuse(r) PROVE CoreType'
  <2>1. req' \in [Requests -> RequestStates]
    BY <1>19, StepMoves DEF Refuse
  <2> QED
    BY <1>19, <2>1 DEF Refuse, CoreType
<1>20. ASSUME NEW r \in Requests, WriteFails(r) PROVE CoreType'
  <2>1. req[r].fd \in Files
    BY <1>20, RequestFields, StepMoves DEF WriteFails
  <2>2. req' \in [Requests -> RequestStates]
    BY <1>20, StepMoves DEF WriteFails
  <2>3. content' \in [Files -> Configs]
    BY <1>0, <1>20, <2>1 DEF WriteFails, CoreType
  <2> QED
    BY <1>20, <2>2, <2>3 DEF WriteFails, CoreType
<1> QED
  BY <1>1, <1>2, <1>3, <1>4, <1>5, <1>6, <1>7, <1>8, <1>9, <1>10, <1>11, <1>12, <1>13,
     <1>14, <1>15, <1>16, <1>17, <1>18, <1>19, <1>20 DEF Next, Put, Reload

-----------------------------------------------------------------------------
\* Reloads.

\* A step of a request outside the reload that leaves the hub alone.
LEMMA QuietStep ==
  ASSUME ReloadInv, NEW r \in Requests, NEW from, NEW to, Step(r, from, to),
         from \notin {"wait", "swap", "install", "start"} \cup Ended,
         to.at \notin {"wait", "swap", "install"},
         UNCHANGED <<hub, main>>
  PROVE  (OneReloads /\ FreshUnused /\ CfgAgree /\ WillStart /\ OldSchedulersStopped)'
PROOF
<1>1. /\ req[r].at = from /\ req'[r] = to
      /\ \A q \in Requests : q # r => req'[q] = req[q]
  BY StepMoves DEF ReloadInv
<1>2. Reloading' = Reloading
  BY <1>1 DEF Reloading
<1>3. OneReloads'
  BY <1>2 DEF ReloadInv, OneReloads, hub, main
<1>4. FreshUnused'
  BY <1>1 DEF ReloadInv, FreshUnused, hub
<1>5. CfgAgree'
  BY <1>1 DEF ReloadInv, CfgAgree, hub
<1>6. WillStart'
  BY <1>1 DEF ReloadInv, WillStart, hub, main
<1>7. OldSchedulersStopped'
  BY DEF ReloadInv, OldSchedulersStopped, hub
<1> QED
  BY <1>3, <1>4, <1>5, <1>6, <1>7

LEMMA ReloadStep == ReloadInv /\ [Next]_vars => ReloadInv'
PROOF
<1> SUFFICES ASSUME ReloadInv, [Next]_vars
             PROVE  (OneReloads /\ FreshUnused /\ CfgAgree /\ WillStart /\ OldSchedulersStopped)'
  BY TypeStep DEF ReloadInv
<1> DEFINE Goal == OneReloads /\ FreshUnused /\ CfgAgree /\ WillStart /\ OldSchedulersStopped
<1> USE DEF Ended, hub, main
<1>0. CoreType /\ "boot" \notin Requests
  BY ReloadAssumption DEF ReloadInv
<1>1. ASSUME NEW r \in Requests,
             Refuse(r) \/ OpenTmp(r) \/ WriteTmp(r) \/ WriteFails(r) \/ Rename(r)
               \/ RenameFails(r) \/ RemoveTmp(r) \/ Load(r) \/ LoadFails(r) \/ StopPanics(r)
      PROVE  Goal'
  BY <1>1, QuietStep DEF Refuse, OpenTmp, WriteTmp, WriteFails, Rename, RenameFails, RemoveTmp, Load, LoadFails, StopPanics
<1>2. ASSUME NEW r \in Requests, StopScheduler(r) PROVE Goal'
  <2>1. /\ req[r].at = "stop" /\ req'[r].at = "wait"
        /\ \A q \in Requests : q # r => req'[q] = req[q]
    BY <1>0, <1>2, StepMoves DEF StopScheduler
  <2>2. Reloading = {} /\ Reloading' = {r}
    BY <1>2, <2>1 DEF ReloadInv, OneReloads, Reloading, StopScheduler
  <2>3. OneReloads'
    BY <1>2, <2>2 DEF OneReloads, StopScheduler
  <2>4. FreshUnused'
    BY <1>2, <2>1 DEF ReloadInv, FreshUnused, StopScheduler
  <2>5. CfgAgree'
    BY <1>2, <2>1 DEF ReloadInv, CfgAgree, StopScheduler
  <2>6. WillStart' /\ OldSchedulersStopped'
    BY <1>2 DEF ReloadInv, WillStart, OldSchedulersStopped, StopScheduler
  <2> QED
    BY <2>3, <2>4, <2>5, <2>6
<1>3. ASSUME NEW r \in Requests, WaitEnds(r) PROVE Goal'
  <2>1. /\ req[r].at = "wait" /\ req'[r].at = "swap"
        /\ \A q \in Requests : q # r => req'[q] = req[q]
    BY <1>0, <1>3, StepMoves DEF WaitEnds
  <2>2. Reloading' = Reloading
    BY <2>1 DEF Reloading
  <2>3. OneReloads'
    BY <1>3, <2>2 DEF ReloadInv, OneReloads, WaitEnds
  <2>4. FreshUnused'
    BY <1>3, <2>1 DEF ReloadInv, FreshUnused, WaitEnds
  <2>5. CfgAgree'
    BY <1>3, <2>1 DEF ReloadInv, CfgAgree, WaitEnds
  <2>6. WillStart' /\ OldSchedulersStopped'
    BY <1>3, <2>1 DEF ReloadInv, WillStart, OldSchedulersStopped, WaitEnds
  <2> QED
    BY <2>3, <2>4, <2>5, <2>6
<1>4. ASSUME NEW r \in Requests, SwapStates(r) PROVE Goal'
  <2>1. /\ req[r].at = "swap" /\ req'[r] = [at |-> "install", cfg |-> req[r].cfg]
        /\ \A q \in Requests : q # r => req'[q] = req[q]
    BY <1>0, <1>4, StepMoves DEF SwapStates
  <2>2. Reloading' = Reloading /\ r \in Reloading
    BY <2>1 DEF Reloading
  <2>3. OneReloads'
    BY <1>4, <2>2 DEF ReloadInv, OneReloads, SwapStates
  <2>4. FreshUnused'
    BY <1>4, <2>1 DEF ReloadInv, FreshUnused, SwapStates
  <2>5. CfgAgree'
    <3>1. ASSUME NEW q \in Requests, req'[q].at = "install" PROVE q = r
      BY <2>2, <3>1 DEF ReloadInv, OneReloads, Reloading
    <3> QED
      BY <1>4, <2>1, <3>1 DEF CfgAgree, SwapStates
  <2>6. WillStart' /\ OldSchedulersStopped'
    BY <1>4, <2>1 DEF ReloadInv, WillStart, OldSchedulersStopped, SwapStates
  <2> QED
    BY <2>3, <2>4, <2>5, <2>6
<1>5. ASSUME NEW r \in Requests, InstallScheduler(r) PROVE Goal'
  <2>1. /\ req[r].at = "install" /\ req'[r].at = "start"
        /\ \A q \in Requests : q # r => req'[q] = req[q]
    BY <1>0, <1>5, StepMoves DEF InstallScheduler
  <2>2. scheduler \in stopped /\ Reloading = {r} /\ Reloading' = {}
    BY <2>1 DEF ReloadInv, OneReloads, Reloading
  <2>3. scheduler' = r /\ r \notin stopped /\ stopped' = stopped /\ runners' = runners
    BY <1>5, <2>1 DEF ReloadInv, FreshUnused, InstallScheduler
  <2>4. OneReloads'
    BY <2>2, <2>3 DEF OneReloads
  <2>5. FreshUnused'
    BY <2>1, <2>3 DEF ReloadInv, FreshUnused
  <2>6. CfgAgree'
    <3>1. hubCfg' = hubCfg /\ hubCfg = req[r].cfg
      BY <1>5, <2>1 DEF ReloadInv, CfgAgree, InstallScheduler
    <3>2. schedCfg'[r] = req[r].cfg
      BY <1>0, <1>5 DEF InstallScheduler, CoreType, Schedulers
    <3>3. \A q \in Requests : req'[q].at # "install"
      BY <2>2 DEF Reloading
    <3> QED
      BY <2>3, <3>1, <3>2, <3>3 DEF CfgAgree
  <2>7. WillStart'
    BY <2>1, <2>3 DEF WillStart
  <2>8. OldSchedulersStopped'
    BY <2>2, <2>3 DEF ReloadInv, OldSchedulersStopped
  <2> QED
    BY <2>4, <2>5, <2>6, <2>7, <2>8
<1>6. ASSUME NEW r \in Requests, StartScheduler(r) PROVE Goal'
  <2>1. /\ req[r].at = "start" /\ req'[r].at = "ok"
        /\ \A q \in Requests : q # r => req'[q] = req[q]
    BY <1>0, <1>6, StepMoves DEF StartScheduler
  <2>2. Reloading' = Reloading
    BY <2>1 DEF Reloading
  <2>3. /\ \A s \in Schedulers : s # scheduler => runners'[s] = runners[s]
        /\ runners'[scheduler] > 0
        /\ UNCHANGED <<hubCfg, scheduler, schedCfg, stopped, booted, closer>>
    BY <1>0, <1>6 DEF StartScheduler, CoreType
  <2>4. OneReloads'
    BY <2>2, <2>3 DEF ReloadInv, OneReloads
  <2>5. FreshUnused'
    BY <2>1, <2>3 DEF ReloadInv, FreshUnused, Schedulers
  <2>6. CfgAgree'
    BY <2>1, <2>3 DEF ReloadInv, CfgAgree
  <2>7. WillStart' /\ OldSchedulersStopped'
    BY <2>3 DEF ReloadInv, WillStart, OldSchedulersStopped
  <2> QED
    BY <2>4, <2>5, <2>6, <2>7
<1>7. ASSUME NEW s \in Schedulers, RunnersEnd(s) PROVE Goal'
  <2>1. /\ \A t \in Schedulers : t # s => runners'[t] = runners[t]
        /\ runners[s] > 0 /\ s \in stopped
        /\ UNCHANGED <<req, hubCfg, scheduler, schedCfg, stopped, booted, closer>>
    BY <1>0, <1>7 DEF RunnersEnd, CoreType
  <2>2. OneReloads'
    BY <2>1 DEF ReloadInv, OneReloads, Reloading
  <2>3. FreshUnused'
    BY <2>1 DEF ReloadInv, FreshUnused, Schedulers
  <2>4. CfgAgree' /\ WillStart' /\ OldSchedulersStopped'
    BY <1>0, <2>1 DEF ReloadInv, CfgAgree, WillStart, OldSchedulersStopped, CoreType
  <2> QED
    BY <2>2, <2>3, <2>4
<1>8. CASE Boot
  <2>1. /\ \A s \in Schedulers : s # scheduler => runners'[s] = runners[s]
        /\ runners'[scheduler] > 0
        /\ UNCHANGED <<req, hubCfg, scheduler, schedCfg, stopped, closer>>
    BY <1>0, <1>8 DEF Boot, CoreType
  <2>2. OneReloads'
    BY <2>1 DEF ReloadInv, OneReloads, Reloading
  <2>3. FreshUnused'
    BY <2>1 DEF ReloadInv, FreshUnused, Schedulers
  <2>4. CfgAgree' /\ WillStart' /\ OldSchedulersStopped'
    BY <2>1 DEF ReloadInv, CfgAgree, WillStart, OldSchedulersStopped
  <2> QED
    BY <2>2, <2>3, <2>4
<1>9. CASE BeginClose
  BY <1>9 DEF ReloadInv, OneReloads, Reloading, FreshUnused, CfgAgree, WillStart,
              OldSchedulersStopped, BeginClose
<1>10. CASE CloseScheduler
  BY <1>10 DEF ReloadInv, OneReloads, Reloading, FreshUnused, CfgAgree, WillStart,
               OldSchedulersStopped, CloseScheduler
<1>11. CASE Exit
  <2>1. /\ \A r \in Requests : req'[r].at \in Ended
        /\ closer' = "exited" /\ scheduler' = "boot" /\ stopped' = {} /\ booted' = FALSE
        /\ hubCfg' = "boot" /\ schedCfg'["boot"] = "boot"
        /\ \A s \in Schedulers : runners'[s] = 0
    BY <1>11 DEF Exit, Schedulers
  <2>2. Reloading' = {}
    BY <2>1 DEF Reloading
  <2> QED
    BY <1>0, <2>1, <2>2 DEF OneReloads, FreshUnused, CfgAgree, WillStart,
                            OldSchedulersStopped, Schedulers
<1>12. CASE UNCHANGED vars
  BY <1>12 DEF ReloadInv, OneReloads, Reloading, FreshUnused, CfgAgree, WillStart,
               OldSchedulersStopped, vars
<1> QED
  BY <1>1, <1>2, <1>3, <1>4, <1>5, <1>6, <1>7, <1>8, <1>9, <1>10, <1>11, <1>12
     DEF Next, Put, Reload

-----------------------------------------------------------------------------
\* Requests that overlap no other.

\* The request that overlaps no other goes on, and everybody else stays where
\* they are.
LEMMA AloneMoves ==
  ASSUME AloneInv, NEW r \in Requests, NEW from, NEW to, Step(r, from, to), CoreType,
         from # "new", from \notin Ended, alone' = alone, UNCHANGED main,
         r \in alone /\ r \in Active' => AloneAt(r)'
  PROVE  AloneInv'
PROOF
<1>1. /\ req[r].at = from /\ req'[r] = to
      /\ \A q \in Requests : q # r => req'[q] = req[q]
  BY StepMoves
<1>2. r \in Active /\ Active' \subseteq Active
  BY <1>1 DEF Active
<1> SUFFICES ASSUME NEW q \in alone \cap Active'
             PROVE  (Active = {q} /\ booted /\ closer = "open" /\ AloneAt(q))'
  BY DEF AloneInv
<1>3. Active = {q} /\ booted /\ closer = "open"
  BY <1>2 DEF AloneInv
<1>4. q = r /\ Active' = {q}
  BY <1>2, <1>3
<1> QED
  BY <1>3, <1>4 DEF main

LEMMA AloneStep == ReloadInv /\ AloneInv /\ [Next]_vars => AloneInv'
PROOF
<1> SUFFICES ASSUME ReloadInv, AloneInv, [Next]_vars PROVE AloneInv'
  OBVIOUS
<1> USE DEF Ended, disk, hub
<1>0. CoreType
  BY DEF ReloadInv
<1>00. ASSUME NEW r \in alone \cap Active PROVE AloneAt(r)
  BY DEF AloneInv
<1>1. ASSUME NEW r \in Requests, OpenTmp(r) PROVE AloneInv'
  <2> DEFINE fd == IF tmp = "none" THEN r ELSE tmp
  <2>1. /\ req[r].at = "new" /\ req'[r] = [at |-> "write", fd |-> fd]
        /\ \A q \in Requests : q # r => req'[q] = req[q]
    BY <1>0, <1>1, StepMoves DEF OpenTmp
  <2>2. fd \in Files
    BY <1>0, <1>1 DEF CoreType, Files
  <2>3. tmp' = fd /\ content'[fd] = "empty"
    BY <1>0, <1>1, <2>2 DEF OpenTmp, CoreType
  <2>4. Active' = Active \cup {r}
    BY <2>1 DEF Active
  <2>5. CASE Active = {} /\ booted /\ closer = "open"
    <3>1. AloneAt(r)'
      BY <2>1, <2>3 DEF AloneAt
    <3> QED
      BY <1>1, <2>4, <2>5, <3>1 DEF AloneInv, OpenTmp, main
  <2>6. CASE ~(Active = {} /\ booted /\ closer = "open")
    <3>1. alone' = alone \ (Active \cup {r})
      BY <1>1, <2>6 DEF OpenTmp
    <3> QED
      BY <2>4, <3>1 DEF AloneInv
  <2> QED
    BY <2>5, <2>6
<1>2. ASSUME NEW r \in Requests, WriteTmp(r) PROVE AloneInv'
  <2>1. /\ req[r].at = "write" /\ req'[r] = [at |-> "rename", fd |-> req[r].fd]
        /\ r \in Active
    BY <1>0, <1>2, StepMoves DEF WriteTmp, Active
  <2>2. ASSUME r \in alone PROVE AloneAt(r)'
    <3>1. tmp = req[r].fd /\ content[tmp] = "empty"
      BY <1>00, <2>1, <2>2 DEF AloneAt
    <3>2. content' = [content EXCEPT ![tmp] = r] /\ tmp' = tmp
      BY <1>2, <3>1 DEF WriteTmp
    <3>3. tmp \in Files
      BY <1>0, <2>1, <3>1, RequestFields
    <3>4. content'[tmp'] = r
      BY <1>0, <3>2, <3>3 DEF CoreType
    <3> QED
      BY <2>1, <3>1, <3>2, <3>4 DEF AloneAt
  <2> QED
    BY <1>0, <1>2, <2>2, AloneMoves DEF WriteTmp
<1>3. ASSUME NEW r \in Requests, Rename(r) PROVE AloneInv'
  <2>1. req[r].at = "rename" /\ req'[r] = [at |-> "load"] /\ r \in Active
    BY <1>0, <1>3, StepMoves DEF Rename, Active
  <2>2. ASSUME r \in alone PROVE AloneAt(r)'
    <3>1. content[tmp] = r
      BY <1>00, <2>1, <2>2 DEF AloneAt
    <3> QED
      BY <1>3, <2>1, <3>1 DEF AloneAt, Rename
  <2> QED
    BY <1>0, <1>3, <2>2, AloneMoves DEF Rename
<1>4. ASSUME NEW r \in Requests, RenameFails(r) PROVE AloneInv'
  <2>1. req[r].at = "rename" /\ r \in Active /\ tmp = "none"
    BY <1>0, <1>4, StepMoves DEF RenameFails, Active
  <2>2. r \notin alone
    <3> SUFFICES ASSUME r \in alone PROVE FALSE
      OBVIOUS
    <3>1. tmp = req[r].fd /\ req[r].fd \in Files
      BY <1>0, <1>00, <2>1, RequestFields DEF AloneAt
    <3> QED
      BY <2>1, <3>1, ReloadAssumption DEF Files
  <2> QED
    BY <1>0, <1>4, <2>2, AloneMoves DEF RenameFails
<1>5. ASSUME NEW r \in Requests, RemoveTmp(r) PROVE AloneInv'
  <2>1. req'[r] = [at |-> "failed"]
    BY <1>0, <1>5, StepMoves DEF RemoveTmp
  <2>2. r \notin Active'
    BY <2>1 DEF Active
  <2> QED
    BY <1>0, <1>5, <2>2, AloneMoves DEF RemoveTmp
<1>6. ASSUME NEW r \in Requests, Load(r) PROVE AloneInv'
  <2>1. req[r].at = "load" /\ req'[r] = [at |-> "stop", cfg |-> content[file]] /\ r \in Active
    BY <1>0, <1>6, StepMoves DEF Load, Active
  <2>2. ASSUME r \in alone PROVE AloneAt(r)'
    <3>1. content[file] = r
      BY <1>00, <2>1, <2>2 DEF AloneAt
    <3> QED
      BY <1>6, <2>1, <3>1 DEF AloneAt, Load
  <2> QED
    BY <1>0, <1>6, <2>2, AloneMoves DEF Load
<1>7. ASSUME NEW r \in Requests, LoadFails(r) \/ StopPanics(r) PROVE AloneInv'
  <2>1. req'[r].at \in {"warned", "failed"}
    BY <1>0, <1>7, StepMoves DEF LoadFails, StopPanics
  <2>2. r \notin Active'
    BY <2>1 DEF Active
  <2> QED
    BY <1>0, <1>7, <2>2, AloneMoves DEF LoadFails, StopPanics
<1>8. ASSUME NEW r \in Requests, StopScheduler(r) PROVE AloneInv'
  <2>1. /\ req[r].at = "stop" /\ r \in Active
        /\ req'[r] = [at |-> "wait", cfg |-> req[r].cfg, on |-> scheduler]
    BY <1>0, <1>8, StepMoves DEF StopScheduler, Active
  <2>2. ASSUME r \in alone PROVE AloneAt(r)'
    <3>1. content[file] = r /\ req[r].cfg = r
      BY <1>00, <2>1, <2>2 DEF AloneAt
    <3> QED
      BY <1>8, <2>1, <3>1 DEF AloneAt, StopScheduler
  <2> QED
    BY <1>0, <1>8, <2>2, AloneMoves DEF StopScheduler
<1>9. ASSUME NEW r \in Requests, WaitEnds(r) PROVE AloneInv'
  <2>1. /\ req[r].at = "wait" /\ r \in Active
        /\ req'[r] = [at |-> "swap", cfg |-> req[r].cfg]
    BY <1>0, <1>9, StepMoves DEF WaitEnds, Active
  <2>2. ASSUME r \in alone PROVE AloneAt(r)'
    <3>1. content[file] = r /\ req[r].cfg = r
      BY <1>00, <2>1, <2>2 DEF AloneAt
    <3> QED
      BY <1>9, <2>1, <3>1 DEF AloneAt, WaitEnds
  <2> QED
    BY <1>0, <1>9, <2>2, AloneMoves DEF WaitEnds
<1>10. ASSUME NEW r \in Requests, SwapStates(r) PROVE AloneInv'
  <2>1. /\ req[r].at = "swap" /\ r \in Active
        /\ req'[r] = [at |-> "install", cfg |-> req[r].cfg]
    BY <1>0, <1>10, StepMoves DEF SwapStates, Active
  <2>2. ASSUME r \in alone PROVE AloneAt(r)'
    <3>1. content[file] = r /\ req[r].cfg = r
      BY <1>00, <2>1, <2>2 DEF AloneAt
    <3> QED
      BY <1>10, <2>1, <3>1 DEF AloneAt, SwapStates
  <2> QED
    BY <1>0, <1>10, <2>2, AloneMoves DEF SwapStates
<1>11. ASSUME NEW r \in Requests, InstallScheduler(r) PROVE AloneInv'
  <2>1. req[r].at = "install" /\ r \in Active /\ req'[r] = [at |-> "start"]
    BY <1>0, <1>11, StepMoves DEF InstallScheduler, Active
  <2>2. ASSUME r \in alone PROVE AloneAt(r)'
    <3>1. content[file] = r /\ req[r].cfg = r
      BY <1>00, <2>1, <2>2 DEF AloneAt
    <3>2. hubCfg = r
      BY <2>1, <3>1 DEF ReloadInv, CfgAgree
    <3>3. r \notin stopped /\ runners[r] = 0
      BY <1>0, <2>1 DEF ReloadInv, FreshUnused, CoreType, Schedulers
    <3> QED
      BY <1>11, <2>1, <3>1, <3>2, <3>3 DEF AloneAt, InstallScheduler
  <2> QED
    BY <1>0, <1>11, <2>2, AloneMoves DEF InstallScheduler
<1>12. ASSUME NEW r \in Requests, StartScheduler(r) PROVE AloneInv'
  <2>1. req'[r] = [at |-> "ok"]
    BY <1>0, <1>12, StepMoves DEF StartScheduler
  <2>2. r \notin Active'
    BY <2>1 DEF Active
  <2> QED
    BY <1>0, <1>12, <2>2, AloneMoves DEF StartScheduler
<1>13. ASSUME NEW s \in Schedulers, RunnersEnd(s) PROVE AloneInv'
  <2>1. \A t \in Schedulers : t \notin stopped => runners'[t] = runners[t]
    BY <1>0, <1>13 DEF RunnersEnd, CoreType
  <2>2. Active' = Active /\ alone' = alone
    BY <1>13 DEF RunnersEnd, Active
  <2> QED
    BY <1>13, <2>1, <2>2 DEF AloneInv, AloneAt, RunnersEnd, Active, main, Schedulers
<1>14. CASE Boot
  <2>1. Active' = Active /\ alone' = alone
    BY <1>14 DEF Boot, Active
  <2>2. alone \cap Active = {}
    BY <1>14 DEF Boot, AloneInv
  <2> QED
    BY <2>1, <2>2 DEF AloneInv
<1>15. CASE BeginClose
  <2>1. alone' \cap Active' = {}
    BY <1>15 DEF BeginClose, Active
  <2> QED
    BY <2>1 DEF AloneInv
<1>16. CASE CloseScheduler
  <2>1. Active' = Active /\ alone' = alone
    BY <1>16 DEF CloseScheduler, Active
  <2>2. alone \cap Active = {}
    BY <1>16 DEF CloseScheduler, AloneInv
  <2> QED
    BY <2>1, <2>2 DEF AloneInv
<1>17. CASE Exit
  BY <1>17 DEF Exit, AloneInv
<1>18. CASE UNCHANGED vars
  BY <1>18 DEF AloneInv, AloneAt, Active, vars, main
<1>19. ASSUME NEW r \in Requests, Refuse(r) PROVE AloneInv'
  <2>1. /\ req[r].at = "new" /\ req'[r].at = "failed"
        /\ \A q \in Requests : q # r => req'[q] = req[q]
    BY <1>0, <1>19, StepMoves DEF Refuse
  <2>2. r \notin Active /\ Active' = Active
    BY <2>1 DEF Active
  <2> QED
    BY <1>19, <2>1, <2>2 DEF AloneInv, AloneAt, Refuse, main, Active
<1>20. ASSUME NEW r \in Requests, WriteFails(r) PROVE AloneInv'
  <2>1. req'[r] = [at |-> "failed"]
    BY <1>0, <1>20, StepMoves DEF WriteFails
  <2>2. r \notin Active'
    BY <2>1 DEF Active
  <2> QED
    BY <1>0, <1>20, <2>2, AloneMoves DEF WriteFails
<1> QED
  BY <1>1, <1>2, <1>3, <1>4, <1>5, <1>6, <1>7, <1>8, <1>9, <1>10, <1>11, <1>12, <1>13,
     <1>14, <1>15, <1>16, <1>17, <1>18, <1>19, <1>20 DEF Next, Put, Reload

-----------------------------------------------------------------------------
\* How often a scheduler is started.

LEMMA StartedFinite ==
  /\ IsFiniteSet(Started)
  /\ Cardinality(Started) \in Nat
  /\ Cardinality(Started) <= Cardinality(Requests)
  /\ Cardinality(Requests) \in Nat
BY ReloadAssumption, FS_Subset, FS_CardinalityType DEF Started

LEMMA CountStep == CoreType /\ StartsCounted /\ [Next]_vars => StartsCounted'
PROOF
<1> SUFFICES ASSUME CoreType, StartsCounted, [Next]_vars PROVE StartsCounted'
  OBVIOUS
<1> USE DEF Ended, hub, main, StartsCounted
<1>0. Cardinality(Started) \in Nat /\ runners \in [Schedulers -> Nat] /\ scheduler \in Schedulers
  BY StartedFinite DEF CoreType
<1>1. ASSUME NEW r \in Requests, NEW from, NEW to, Step(r, from, to),
             from # "ok", to.at # "ok", UNCHANGED <<runners, booted>>
      PROVE  StartsCounted'
  <2>1. Started' = Started
    BY <1>1, StepMoves DEF Started
  <2> QED
    BY <1>1, <2>1
<1>2. ASSUME NEW r \in Requests,
             Refuse(r) \/ OpenTmp(r) \/ WriteTmp(r) \/ WriteFails(r) \/ Rename(r)
               \/ RenameFails(r) \/ RemoveTmp(r) \/ Load(r) \/ LoadFails(r) \/ StopPanics(r)
               \/ StopScheduler(r) \/ WaitEnds(r) \/ SwapStates(r) \/ InstallScheduler(r)
      PROVE  StartsCounted'
  BY <1>1, <1>2 DEF Refuse, OpenTmp, WriteTmp, WriteFails, Rename, RenameFails, RemoveTmp, Load,
                    LoadFails, StopPanics, StopScheduler, WaitEnds, SwapStates, InstallScheduler
<1>3. ASSUME NEW r \in Requests, StartScheduler(r) PROVE StartsCounted'
  <2>1. /\ req[r].at = "start" /\ req'[r].at = "ok"
        /\ \A q \in Requests : q # r => req'[q] = req[q]
    BY <1>3, StepMoves DEF StartScheduler
  <2>2. Started' = Started \cup {r} /\ r \notin Started
    BY <2>1 DEF Started
  <2>3. Cardinality(Started') = Cardinality(Started) + 1
    BY <2>2, StartedFinite, FS_AddElement
  <2>4. \A s \in Schedulers : runners'[s] <= runners[s] + 1
    BY <1>0, <1>3 DEF StartScheduler
  <2>5. runners' \in [Schedulers -> Nat] /\ booted' = booted
    BY <1>0, <1>3 DEF StartScheduler
  <2> QED
    BY <1>0, <2>3, <2>4, <2>5
<1>4. ASSUME NEW s \in Schedulers, RunnersEnd(s) PROVE StartsCounted'
  <2>1. Started' = Started /\ booted' = booted
    BY <1>4 DEF RunnersEnd, Started
  <2>2. \A t \in Schedulers : runners'[t] \in Nat /\ runners'[t] <= runners[t]
    BY <1>0, <1>4 DEF RunnersEnd
  <2> QED
    BY <1>0, <2>1, <2>2
<1>5. CASE Boot
  <2>1. Started' = Started /\ ~booted /\ booted'
    BY <1>5 DEF Boot, Started
  <2>2. \A t \in Schedulers : runners'[t] \in Nat /\ runners'[t] <= runners[t] + 1
    BY <1>0, <1>5 DEF Boot
  <2> QED
    BY <1>0, <2>1, <2>2
<1>6. CASE BeginClose \/ CloseScheduler \/ UNCHANGED vars
  BY <1>6 DEF BeginClose, CloseScheduler, vars, Started
<1>7. CASE Exit
  <2>1. \A s \in Schedulers : runners'[s] = 0
    BY <1>7 DEF Exit
  <2>2. Cardinality(Started') \in Nat /\ booted' = FALSE
    BY <1>7, ReloadAssumption, FS_Subset, FS_CardinalityType DEF Started, Exit
  <2> QED
    BY <2>1, <2>2
<1> QED
  BY <1>2, <1>3, <1>4, <1>5, <1>6, <1>7 DEF Next, Put, Reload

-----------------------------------------------------------------------------
\* The theorems.

\* Nothing has happened yet.
LEMMA InitHolds == Init => ReloadInv /\ StartsCounted /\ AloneInv
PROOF
<1> SUFFICES ASSUME Init PROVE ReloadInv /\ StartsCounted /\ AloneInv
  OBVIOUS
<1> USE DEF Init
<1>1. CoreType
  BY StateTypes, ReloadAssumption DEF CoreType, Files, Configs, Schedulers, Ended
<1>2. OneReloads /\ FreshUnused /\ CfgAgree /\ WillStart /\ OldSchedulersStopped
  BY ReloadAssumption DEF OneReloads, Reloading, FreshUnused, CfgAgree, WillStart,
                          OldSchedulersStopped, Schedulers
<1>3. StartsCounted
  BY StartedFinite DEF StartsCounted
<1>4. AloneInv
  BY DEF AloneInv, Active
<1> QED
  BY <1>1, <1>2, <1>3, <1>4 DEF ReloadInv

LEMMA ReloadInvariant == Spec => [](ReloadInv /\ StartsCounted /\ AloneInv)
<1>1. ReloadInv /\ StartsCounted /\ AloneInv /\ [Next]_vars
        => (ReloadInv /\ StartsCounted /\ AloneInv)'
  BY ReloadStep, CountStep, AloneStep DEF ReloadInv
<1> QED
  BY <1>1, InitHolds, PTL DEF Spec

\* Every variable keeps its type; no scheduler is started more often than there
\* are requests and the start of the hub.
THEOREM TypeCorrect == Spec => []TypeOK
<1>1. ReloadInv /\ StartsCounted => TypeOK
  <2> SUFFICES ASSUME ReloadInv, StartsCounted PROVE TypeOK
    OBVIOUS
  <2>1. runners \in [Schedulers -> 0..(Cardinality(Requests) + 1)]
    BY StartedFinite DEF ReloadInv, CoreType, StartsCounted
  <2> QED
    BY <2>1 DEF ReloadInv, CoreType, TypeOK
<1> QED
  BY <1>1, ReloadInvariant, PTL

\* However requests, the start of the hub and its end are interleaved, a
\* scheduler that is not the current one is stopped.
THEOREM OldSchedulersAlwaysStopped == Spec => []OldSchedulersStopped
<1>1. ReloadInv => OldSchedulersStopped
  BY DEF ReloadInv
<1> QED
  BY <1>1, ReloadInvariant, PTL

\* When no request is under way the scheduler runs with the configuration the
\* monitor states were built from.
THEOREM NoReloadHalfDone == Spec => []NoHalfReload
<1>1. ReloadInv => NoHalfReload
  <2> SUFFICES ASSUME ReloadInv, Active = {}, booted, closer = "open"
               PROVE  /\ scheduler \notin stopped
                      /\ runners[scheduler] > 0
                      /\ schedCfg[scheduler] = hubCfg
    BY DEF NoHalfReload
  <2>1. \A r \in Requests : req[r].at \in Ended \cup {"new"}
    BY DEF Active
  <2>2. scheduler \notin stopped
    BY <2>1 DEF ReloadInv, OneReloads, Reloading, Ended
  <2>3. runners[scheduler] > 0
    BY <2>1, <2>2 DEF ReloadInv, WillStart, Ended
  <2>4. schedCfg[scheduler] = hubCfg
    BY <2>1 DEF ReloadInv, CfgAgree, Ended
  <2> QED
    BY <2>2, <2>3, <2>4
<1> QED
  BY <1>1, ReloadInvariant, PTL

\* A request that overlaps no other ends with one set of goroutines that checks
\* what its body says.
THEOREM AloneAlwaysApplied == Spec => AloneApplied
<1>1. ReloadInv /\ AloneInv =>
        \A r \in alone :
          closer = "open" /\ StartScheduler(r) =>
            /\ content[file] = r
            /\ hubCfg = r
            /\ scheduler = r /\ r \notin stopped
            /\ runners'[r] = 1
  <2> SUFFICES ASSUME ReloadInv, AloneInv, NEW r \in alone, StartScheduler(r)
               PROVE  /\ content[file] = r
                      /\ hubCfg = r
                      /\ scheduler = r /\ r \notin stopped
                      /\ runners'[r] = 1
    OBVIOUS
  <2>1. r \in Requests /\ runners \in [Schedulers -> Nat] /\ scheduler \in Schedulers
    BY DEF ReloadInv, CoreType
  <2>2. req[r].at = "start"
    BY DEF StartScheduler, Step
  <2>3. AloneAt(r)
    BY <2>1, <2>2 DEF AloneInv, Active, Ended
  <2>4. content[file] = r /\ hubCfg = r /\ scheduler = r /\ r \notin stopped /\ runners[r] = 0
    BY <2>2, <2>3 DEF AloneAt
  <2> QED
    BY <2>1, <2>4 DEF StartScheduler
<1> QED
  BY <1>1, ReloadInvariant, PTL DEF AloneApplied

=============================================================================
