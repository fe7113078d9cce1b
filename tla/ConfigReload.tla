----------------------------- MODULE ConfigReload -----------------------------
(***************************************************************************)
(* Requests that change the configuration (Handlers.PutConfig), each in a  *)
(* goroutine of its own and none locked against the others: the file is    *)
(* written to config.yml.tmp and renamed, and Hub.ReloadConfig reads it,   *)
(* stops the scheduler, builds the monitor states and starts a new         *)
(* scheduler.  The hub may be closed meanwhile.                            *)
(*                                                                         *)
(* Hub.scheduler is read and written without the lock; a read returns the  *)
(* last pointer written.  What the states keep over a reload is in         *)
(* MonitorPipeline, which has one reload at a time.                        *)
(***************************************************************************)
EXTENDS Integers, FiniteSets

CONSTANTS
  Requests,   \* the PUT requests
  Invalid,    \* those whose body does not parse or validate
  MaxOverlap  \* bound: how many requests are under way at a time

ASSUME ReloadAssumption ==
  /\ IsFiniteSet(Requests)
  /\ Invalid \subseteq Requests
  /\ MaxOverlap \in Nat
  /\ Requests \cap {"boot", "empty", "torn", "none"} = {}

\* A configuration is named by the request whose body it is; "boot" is the one
\* the hub started with, "empty" that of a file just truncated, "torn" that of
\* a file with a part of one body or with bytes of two.
Configs == Requests \cup {"boot", "empty", "torn"}

\* Files on disk, by the request that created them; so are the schedulers.
Files == Requests \cup {"boot"}
Schedulers == Requests \cup {"boot"}

VARIABLES
  file,      \* external: the file config.yml names
  tmp,       \* external: the file config.yml.tmp names, or "none"
  content,   \* external: what a file holds
  req,       \* where the handler of each request is
  hubCfg,    \* Hub.cfg, and the configuration monitorStates was built from
  scheduler, \* Hub.scheduler
  schedCfg,  \* the configuration of a scheduler
  stopped,   \* the schedulers whose stopCh is closed
  runners,   \* how often Start's goroutines run for a scheduler (its WaitGroup)
  booted,    \* Hub.Run, which serves the API first, has called Start
  closer,    \* where Hub.Close is
  alone      \* history: the requests that overlapped no other

disk == <<file, tmp, content>>
hub == <<hubCfg, scheduler, schedCfg, stopped, runners>>
main == <<booted, closer>>
vars == <<disk, req, hub, main, alone>>

\* fd is the file the request writes, cfg what it loaded, on the scheduler it
\* stops.  The last three states are those of a request that was answered.
Ended == {"ok", "warned", "failed"}

RequestStates ==
  [at: {"new"} \cup Ended]
  \cup [at: {"write", "rename"}, fd: Files]
  \cup [at: {"remove", "load"}]
  \cup [at: {"stop", "swap", "install"}, cfg: Configs]
  \cup [at: {"wait"}, cfg: Configs, on: Schedulers]
  \cup [at: {"start"}]

TypeOK ==
  /\ file \in Files
  /\ tmp \in Files \cup {"none"}
  /\ content \in [Files -> Configs]
  /\ req \in [Requests -> RequestStates]
  /\ hubCfg \in Configs
  /\ scheduler \in Schedulers
  /\ schedCfg \in [Schedulers -> Configs]
  /\ stopped \subseteq Schedulers
  /\ runners \in [Schedulers -> 0..(Cardinality(Requests) + 1)]
  /\ booted \in BOOLEAN
  /\ closer \in {"open", "stop", "wait", "exited"}
  /\ alone \subseteq Requests

Init ==
  /\ file = "boot"
  /\ tmp = "none"
  /\ content = [f \in Files |-> IF f = "boot" THEN "boot" ELSE "empty"]
  /\ req = [r \in Requests |-> [at |-> "new"]]
  /\ hubCfg = "boot"
  /\ scheduler = "boot"
  /\ schedCfg = [s \in Schedulers |-> "boot"]
  /\ stopped = {}
  /\ runners = [s \in Schedulers |-> 0]
  /\ booted = FALSE
  /\ closer = "open"
  /\ alone = Requests

-----------------------------------------------------------------------------

Active == {r \in Requests : req[r].at \notin Ended \cup {"new"}}

\* The process is there, and the handler of r goes from one state to the next.
Step(r, from, to) ==
  /\ closer # "exited"
  /\ req[r].at = from
  /\ req' = [req EXCEPT ![r] = to]

-----------------------------------------------------------------------------
\* PutConfig.

\* The body cannot be read or is blank (400), or config.yml.tmp cannot be opened
\* (500): nothing has happened.
Refuse(r) ==
  /\ Step(r, "new", [at |-> "failed"])
  /\ UNCHANGED <<disk, hub, main, alone>>

\* os.WriteFile opens config.yml.tmp, which is created or, when another request
\* has it open, truncated.
OpenTmp(r) ==
  LET fd == IF tmp = "none" THEN r ELSE tmp
  IN /\ Cardinality(Active) < MaxOverlap
     /\ Step(r, "new", [at |-> "write", fd |-> fd])
     /\ tmp' = fd
     /\ content' = [content EXCEPT ![fd] = "empty"]
     /\ alone' = IF Active = {} /\ booted /\ closer = "open"
                 THEN alone ELSE alone \ (Active \cup {r})
     /\ UNCHANGED <<file, hub, main>>

\* os.WriteFile writes; over bytes of another body the longer one shows through.
WriteTmp(r) ==
  LET fd == req[r].fd
  IN /\ Step(r, "write", [at |-> "rename", fd |-> fd])
     /\ content' \in {[content EXCEPT ![fd] = c] :
                        c \in IF content[fd] = "empty" THEN {r} ELSE {r, "torn"}}
     /\ UNCHANGED <<file, tmp, hub, main, alone>>

\* os.WriteFile fails, on a full disk for instance: the answer is 500, and what
\* was written stays in config.yml.tmp.
WriteFails(r) ==
  LET fd == req[r].fd
  IN /\ Step(r, "write", [at |-> "failed"])
     /\ content' \in {[content EXCEPT ![fd] = c] : c \in {content[fd], r, "torn"}}
     /\ UNCHANGED <<file, tmp, hub, main, alone>>

Rename(r) ==
  /\ tmp # "none"
  /\ Step(r, "rename", [at |-> "load"])
  /\ file' = tmp
  /\ tmp' = "none"
  /\ UNCHANGED <<content, hub, main, alone>>

\* Another request renamed the file away.
RenameFails(r) ==
  /\ tmp = "none"
  /\ Step(r, "rename", [at |-> "remove"])
  /\ UNCHANGED <<disk, hub, main, alone>>

\* os.Remove takes away whatever config.yml.tmp is by now; the answer is 500.
RemoveTmp(r) ==
  /\ Step(r, "remove", [at |-> "failed"])
  /\ tmp' = "none"
  /\ UNCHANGED <<file, content, hub, main, alone>>

-----------------------------------------------------------------------------
\* ReloadConfig.

\* config.Load of an empty file gives a configuration without monitors, of a
\* torn one an error or some configuration.
Load(r) ==
  /\ content[file] \notin Invalid
  /\ Step(r, "load", [at |-> "stop", cfg |-> content[file]])
  /\ UNCHANGED <<disk, hub, main, alone>>

\* The file stays as it is; the answer is 200 with a warning.
LoadFails(r) ==
  /\ content[file] \in Invalid \cup {"torn"}
  /\ Step(r, "load", [at |-> "warned"])
  /\ UNCHANGED <<disk, hub, main, alone>>

\* Mutant: Stop of a scheduler that is stopped already goes on.
StopSchedulerOnce(r) ==
  /\ Step(r, "stop", [at |-> "wait", cfg |-> req[r].cfg, on |-> scheduler])
  /\ stopped' = stopped \cup {scheduler}
  /\ UNCHANGED <<disk, hubCfg, scheduler, schedCfg, runners, main, alone>>

\* Mutant: Stop waits without closing the channel.
StopSchedulerWaits(r) ==
  /\ scheduler \notin stopped
  /\ Step(r, "stop", [at |-> "wait", cfg |-> req[r].cfg, on |-> scheduler])
  /\ UNCHANGED <<disk, hub, main, alone>>

\* Scheduler.Stop closes stopCh.
StopScheduler(r) ==
  /\ scheduler \notin stopped
  /\ Step(r, "stop", [at |-> "wait", cfg |-> req[r].cfg, on |-> scheduler])
  /\ stopped' = stopped \cup {scheduler}
  /\ UNCHANGED <<disk, hubCfg, scheduler, schedCfg, runners, main, alone>>

\* stopCh is closed already: close panics, and middleware.Recoverer answers 500.
StopPanics(r) ==
  /\ scheduler \in stopped
  /\ Step(r, "stop", [at |-> "failed"])
  /\ UNCHANGED <<disk, hub, main, alone>>

\* wg.Wait returns.  (When a Start follows at once, Wait may instead panic
\* because its WaitGroup is reused: that instant is left out.)
WaitEnds(r) ==
  /\ req[r].at = "wait"
  /\ runners[req[r].on] = 0
  /\ Step(r, "wait", [at |-> "swap", cfg |-> req[r].cfg])
  /\ UNCHANGED <<disk, hub, main, alone>>

\* Under the lock: Hub.cfg and the monitor states.
SwapStates(r) ==
  /\ Step(r, "swap", [at |-> "install", cfg |-> req[r].cfg])
  /\ hubCfg' = req[r].cfg
  /\ UNCHANGED <<disk, scheduler, schedCfg, stopped, runners, main, alone>>

\* Mutant: the scheduler is used again.
InstallSchedulerAgain(r) ==
  /\ Step(r, "install", [at |-> "start"])
  /\ schedCfg' = [schedCfg EXCEPT ![scheduler] = req[r].cfg]
  /\ UNCHANGED <<disk, hubCfg, scheduler, stopped, runners, main, alone>>

\* h.scheduler = sched.
InstallScheduler(r) ==
  /\ Step(r, "install", [at |-> "start"])
  /\ scheduler' = r
  /\ schedCfg' = [schedCfg EXCEPT ![r] = req[r].cfg]
  /\ UNCHANGED <<disk, hubCfg, stopped, runners, main, alone>>

\* h.scheduler.Start(), which reads the pointer again.
StartScheduler(r) ==
  /\ Step(r, "start", [at |-> "ok"])
  /\ runners' = [runners EXCEPT ![scheduler] = @ + 1]
  /\ UNCHANGED <<disk, hubCfg, scheduler, schedCfg, stopped, main, alone>>

\* Mutant: wg.Done is called once too often.
RunnersEndAgain(s) ==
  /\ closer # "exited"
  /\ s \in stopped
  /\ runners' = [runners EXCEPT ![s] = @ - 1]
  /\ UNCHANGED <<disk, req, hubCfg, scheduler, schedCfg, stopped, main, alone>>

\* The goroutines of one Start see stopCh closed and return.
RunnersEnd(s) ==
  /\ closer # "exited"
  /\ s \in stopped
  /\ runners[s] > 0
  /\ runners' = [runners EXCEPT ![s] = @ - 1]
  /\ UNCHANGED <<disk, req, hubCfg, scheduler, schedCfg, stopped, main, alone>>

-----------------------------------------------------------------------------
\* Hub.Run, and Hub.Close in the signal goroutine of main.

\* Run starts the scheduler when requests may be under way already.
Boot ==
  /\ ~booted
  /\ closer # "exited"
  /\ booted' = TRUE
  /\ runners' = [runners EXCEPT ![scheduler] = @ + 1]
  /\ UNCHANGED <<disk, req, hubCfg, scheduler, schedCfg, stopped, closer, alone>>

BeginClose ==
  /\ closer = "open"
  /\ closer' = "stop"
  /\ alone' = alone \ Active
  /\ UNCHANGED <<disk, req, hub, booted>>

\* Close stops the scheduler; what it waits for does not matter, see Exit.
CloseScheduler ==
  /\ closer = "stop"
  /\ scheduler \notin stopped
  /\ closer' = "wait"
  /\ stopped' = stopped \cup {scheduler}
  /\ UNCHANGED <<disk, req, hubCfg, scheduler, schedCfg, runners, booted, alone>>

\* The process ends: wg.Wait has returned, or stopCh was closed already and Close
\* panics, or Run sees the hub's stopCh closed and main returns.  Memory is gone
\* and no request is answered any more.
Exit ==
  /\ closer \in {"stop", "wait"}
  /\ closer' = "exited"
  /\ req' = [r \in Requests |-> IF req[r].at \in Ended THEN req[r] ELSE [at |-> "failed"]]
  /\ hubCfg' = "boot" /\ scheduler' = "boot"
  /\ schedCfg' = [s \in Schedulers |-> "boot"]
  /\ stopped' = {}
  /\ runners' = [s \in Schedulers |-> 0]
  /\ booted' = FALSE
  /\ alone' = {}
  /\ UNCHANGED disk

Reload(r) ==
  \/ Load(r) \/ LoadFails(r) \/ StopScheduler(r) \/ StopPanics(r) \/ WaitEnds(r)
  \/ SwapStates(r) \/ InstallScheduler(r) \/ StartScheduler(r)

Put(r) ==
  \/ WriteTmp(r) \/ WriteFails(r) \/ Rename(r) \/ RenameFails(r) \/ RemoveTmp(r)
  \/ Reload(r)

Next ==
  \/ \E r \in Requests : Refuse(r) \/ OpenTmp(r) \/ Put(r)
  \/ \E s \in Schedulers : RunnersEnd(s)
  \/ Boot \/ BeginClose \/ CloseScheduler \/ Exit

Spec == Init /\ [][Next]_vars

\* Fairness: a handler that can go on does, and so does a goroutine that finds
\* its stopCh closed: a check ends at its timeout.
FairSpec ==
  /\ Spec
  /\ \A r \in Requests : WF_vars(Put(r))
  /\ \A s \in Schedulers : WF_vars(RunnersEnd(s))

-----------------------------------------------------------------------------
\* Safety.

\* However requests overlap, only the current scheduler goes on: every other
\* one with goroutines is stopped, so no monitor of an old configuration is
\* checked for ever.
OldSchedulersStopped ==
  \A s \in Schedulers : s # scheduler /\ runners[s] > 0 => s \in stopped

\* However requests overlap, none leaves a reload half done: once all are
\* answered the scheduler runs, and it checks the monitors the states are of.
\* The double close that panics is what keeps two reloads apart.
NoHalfReload ==
  Active = {} /\ booted /\ closer = "open" =>
    /\ scheduler \notin stopped
    /\ runners[scheduler] > 0
    /\ schedCfg[scheduler] = hubCfg

\* A request that overlaps no other is applied as it was sent, whatever earlier
\* requests left behind: the file holds its body, and one set of goroutines
\* runs with it.
AloneApplied ==
  [][\A r \in alone :
       closer = "open" /\ StartScheduler(r) =>
         /\ content[file] = r
         /\ hubCfg = r
         /\ scheduler = r /\ r \notin stopped
         /\ runners'[r] = 1]_vars

-----------------------------------------------------------------------------
\* Liveness.

\* No request hangs in a wait for goroutines: it ends, at the latest with the
\* process.
RequestsEnd ==
  \A r \in Requests : r \in Active ~> r \notin Active

=============================================================================
