---------------------------- MODULE SecurityDrift ----------------------------
(***************************************************************************)
(* The security scans of one target (internal/hub/hub.go and               *)
(* internal/checks/security.go): a scan is stored, compared with the       *)
(* baseline, filtered by the hysteresis, alerted on and folded into the    *)
(* baseline, one store call or push at a time, while ports open and close, *)
(* the operator accepts a baseline, calls fail and the hub restarts.       *)
(*                                                                         *)
(* A port that is probed is found open or not; what the scan shows on the  *)
(* dashboard while it runs is left out.                                    *)
(***************************************************************************)
EXTENDS Integers, Sequences

CONSTANTS
  Ports,        \* the TCP ports of the target
  Hysteresis,   \* alert_hysteresis, at least 1
  MaxFlips,     \* bound: how often a port opens or closes
  MaxMisses,    \* bound: how many scans miss open ports
  MaxAccepts,   \* bound: how often the operator accepts a baseline
  MaxFaults     \* bound: store calls and pushes that fail, and restarts, in all

ASSUME DriftAssumption ==
  /\ Hysteresis \in Nat \ {0}
  /\ {MaxFlips, MaxMisses, MaxAccepts, MaxFaults} \subseteq Nat

VARIABLES
  world,     \* external: the ports that are open
  steady,    \* history: the ports that never opened or closed
  scans,     \* SQLite: the newest Hysteresis rows of security_scans, newest first
  hasRow,    \* SQLite: security_baselines has a row for the target
  baseline,  \* SQLite: expected_ports_json of that row
  scan,      \* where the goroutine of runSecurityScanSchedule is
  accept,    \* where Handlers.AcceptBaseline is
  known,     \* history: the ports the operator takes to be open, by what the
             \* first baseline, the alerts and the baselines accepted said
  excused,   \* history: ports whose alert was not pushed, or the baseline did
             \* not record, or whose accepted state a scan in flight overwrote
  overlap,   \* history: a baseline was accepted since the scan read it
  used       \* how much of each bound is spent

vars == <<world, steady, scans, hasRow, baseline, scan, accept, known, excused,
          overlap, used>>

Idle == [at |-> "idle"]

\* base is the baseline as it was read.
ScanStates ==
  {Idle}
  \cup [at: {"compare", "initial"}, open: SUBSET Ports]
  \cup [at: {"filter"}, base: SUBSET Ports, new: SUBSET Ports, gone: SUBSET Ports]
  \cup [at: {"alert"}, base: SUBSET Ports, new: SUBSET Ports, gone: SUBSET Ports,
        todo: SUBSET Ports]

TypeOK ==
  /\ world \subseteq Ports
  /\ steady \subseteq Ports
  /\ scans \in Seq(SUBSET Ports) /\ Len(scans) <= Hysteresis
  /\ hasRow \in BOOLEAN
  /\ baseline \subseteq Ports
  /\ scan \in ScanStates
  /\ accept \in {Idle} \cup [at: {"write"}, open: SUBSET Ports]
  /\ known \subseteq Ports
  /\ excused \subseteq Ports
  /\ overlap \in BOOLEAN
  /\ used \in [flips: 0..MaxFlips, misses: 0..MaxMisses,
               accepts: 0..MaxAccepts, faults: 0..MaxFaults]

Init ==
  /\ world \in SUBSET Ports
  /\ steady = Ports
  /\ scans = <<>>
  /\ hasRow = FALSE
  /\ baseline = {}
  /\ scan = Idle
  /\ accept = Idle
  /\ known = {}
  /\ excused = {}
  /\ overlap = FALSE
  /\ used = [flips |-> 0, misses |-> 0, accepts |-> 0, faults |-> 0]

-----------------------------------------------------------------------------
\* internal/checks/security.go.

\* CompareBaseline: the ports that are new, and the ports that are gone.
New(base, open) == open \ base
Gone(base, open) == base \ open

\* Mutant: the newest scan is enough.
ConfirmedByNewest(recent, p, open) ==
  Len(recent) >= Hysteresis /\ (p \in recent[1]) = open

\* Mutant: one scan more is asked for than is ever read.
ConfirmedLater(recent, p, open) ==
  /\ Len(recent) > Hysteresis
  /\ \A i \in 1..Hysteresis : (p \in recent[i]) = open

\* FilterByHysteresis, for one port: every scan of the window agrees on it, and
\* with too few scans nothing is confirmed.
Confirmed(recent, p, open) ==
  /\ Len(recent) >= Hysteresis
  /\ \A i \in 1..Hysteresis : (p \in recent[i]) = open

FilterNew(new, recent) == {p \in new : Confirmed(recent, p, TRUE)}

FilterGone(gone, recent) == {p \in gone : Confirmed(recent, p, FALSE)}

\* Mutant: ports that are gone stay in the baseline.
ApplyBaselineDriftNewOnly(base, new, gone) == base \cup new

\* ApplyBaselineDrift.
ApplyBaselineDrift(base, new, gone) == (base \cup new) \ gone

-----------------------------------------------------------------------------
\* The environment.

Spend(what) ==
  /\ used[what] < (CASE what = "flips" -> MaxFlips   [] what = "misses" -> MaxMisses
                     [] what = "accepts" -> MaxAccepts [] OTHER -> MaxFaults)
  /\ used' = [used EXCEPT ![what] = @ + 1]

MayFail(ok) == IF ok THEN UNCHANGED used ELSE Spend("faults")

Flip(p) ==
  /\ Spend("flips")
  /\ world' = IF p \in world THEN world \ {p} ELSE world \cup {p}
  /\ steady' = steady \ {p}
  /\ UNCHANGED <<scans, hasRow, baseline, scan, accept, known, excused, overlap>>

-----------------------------------------------------------------------------
\* executeSecurityScan and processScanResult.

\* Mutant: the query of GetRecentSecurityScans has no LIMIT.
RecentAll(open) == <<open>> \o scans

\* The rows GetRecentSecurityScans returns once a scan is inserted.
Recent(open) ==
  SubSeq(<<open>> \o scans, 1, IF Len(scans) < Hysteresis THEN Len(scans) + 1 ELSE Hysteresis)

\* The scan is over; it finds the open ports, or misses some.  The row is
\* inserted; if that fails the scan is processed all the same.
Scan ==
  /\ scan = Idle
  /\ \E missed \in SUBSET world, stored \in BOOLEAN :
       LET open == world \ missed
       IN /\ used' = [used EXCEPT !.misses = IF missed = {} THEN @ ELSE @ + 1,
                                  !.faults = IF stored THEN @ ELSE @ + 1]
          /\ used'.misses <= MaxMisses /\ used'.faults <= MaxFaults
          /\ scans' = IF stored THEN Recent(open) ELSE scans
          /\ scan' = [at |-> "compare", open |-> open]
  /\ UNCHANGED <<world, steady, hasRow, baseline, accept, known, excused, overlap>>

\* The alerts to send, if any.
Alerting(base, new, gone) ==
  IF new \cup gone = {} THEN Idle
  ELSE [at |-> "alert", base |-> base, new |-> new, gone |-> gone,
        todo |-> new \cup gone]

\* GetSecurityBaseline, and CompareBaseline.
ReadBaseline ==
  /\ scan.at = "compare"
  /\ LET new == New(baseline, scan.open)
         gone == Gone(baseline, scan.open)
     IN scan' = CASE ~hasRow -> [at |-> "initial", open |-> scan.open]
                  [] hasRow /\ Hysteresis > 1 /\ new \cup gone # {} ->
                       [at |-> "filter", base |-> baseline, new |-> new, gone |-> gone]
                  [] OTHER -> Alerting(baseline, new, gone)
  /\ overlap' = FALSE
  /\ UNCHANGED <<world, steady, scans, hasRow, baseline, accept, known, excused, used>>

\* GetSecurityBaseline fails: nothing more is done with this scan.
ReadBaselineFails ==
  /\ scan.at = "compare"
  /\ Spend("faults")
  /\ scan' = Idle
  /\ UNCHANGED <<world, steady, scans, hasRow, baseline, accept, known, excused, overlap>>

Differ(s, t) == (s \ t) \cup (t \ s)

\* There was no baseline: the first scan becomes it.
SetInitialBaseline ==
  /\ scan.at = "initial"
  /\ \E ok \in BOOLEAN :
       /\ MayFail(ok)
       /\ hasRow' = (hasRow \/ ok)
       /\ baseline' = IF ok THEN scan.open ELSE baseline
       /\ known' = IF ok /\ ~overlap THEN scan.open ELSE known
       /\ excused' = IF ok /\ overlap THEN excused \cup Differ(scan.open, known) ELSE excused
  /\ scan' = Idle
  /\ UNCHANGED <<world, steady, scans, accept, overlap>>

\* Mutant: what the hysteresis suppresses is folded in too.
FilterByHysteresisAbsorbs ==
  /\ scan.at = "filter"
  /\ scan' = [at |-> "alert", base |-> scan.base, new |-> scan.new, gone |-> scan.gone,
              todo |-> FilterNew(scan.new, scans) \cup FilterGone(scan.gone, scans)]
  /\ UNCHANGED <<world, steady, scans, hasRow, baseline, accept, known, excused, overlap, used>>

\* GetRecentSecurityScans and FilterByHysteresis.
FilterByHysteresis ==
  /\ scan.at = "filter"
  /\ scan' = Alerting(scan.base, FilterNew(scan.new, scans), FilterGone(scan.gone, scans))
  /\ UNCHANGED <<world, steady, scans, hasRow, baseline, accept, known, excused, overlap, used>>

\* The scans cannot be read: every drift counts.  The ports are no longer
\* called steady, so that NoFalseAlarm does not speak of them.
FilterFails ==
  /\ scan.at = "filter"
  /\ Spend("faults")
  /\ scan' = Alerting(scan.base, scan.new, scan.gone)
  /\ steady' = steady \ (scan.new \cup scan.gone)
  /\ UNCHANGED <<world, scans, hasRow, baseline, accept, known, excused, overlap>>

\* SendNewPort or SendPortGone for one more port.  An error is only logged: the
\* port is folded in all the same, and the operator does not know of it.
SendAlert(p) ==
  /\ scan.at = "alert"
  /\ p \in scan.todo
  /\ \E ok \in BOOLEAN :
       /\ MayFail(ok)
       /\ known' = CASE ~ok -> known
                     [] ok /\ p \in scan.new -> known \cup {p}
                     [] OTHER -> known \ {p}
       /\ excused' = IF ok THEN excused \ {p} ELSE excused \cup {p}
  /\ scan' = [scan EXCEPT !.todo = @ \ {p}]
  /\ UNCHANGED <<world, steady, scans, hasRow, baseline, accept, overlap>>

\* All alerts are sent: the change is folded into the baseline as it was read.
FoldDrift ==
  /\ scan.at = "alert"
  /\ scan.todo = {}
  /\ LET folded == ApplyBaselineDrift(scan.base, scan.new, scan.gone)
     IN \E ok \in BOOLEAN :
          /\ MayFail(ok)
          /\ baseline' = IF ok THEN folded ELSE baseline
          /\ excused' = excused \cup (CASE ~ok -> scan.new \cup scan.gone
                                        [] ok /\ overlap -> Differ(folded, known)
                                        [] OTHER -> {})
  /\ scan' = Idle
  /\ UNCHANGED <<world, steady, scans, hasRow, accept, known, overlap>>

-----------------------------------------------------------------------------
\* AcceptBaseline, and restarts.

\* The newest scan of the target is read; without one the answer is 404 and
\* nothing happens.  The code looks at the newest 100 scans of all targets: when
\* none of them is of this target the answer is 404 too, as if nobody had asked.
AcceptRead ==
  /\ accept = Idle
  /\ scans # <<>>
  /\ Spend("accepts")
  /\ accept' = [at |-> "write", open |-> scans[1]]
  /\ UNCHANGED <<world, steady, scans, hasRow, baseline, scan, known, excused, overlap>>

\* It becomes the baseline, whatever happened since; or the store fails.
AcceptWrite ==
  /\ accept.at = "write"
  /\ \E ok \in BOOLEAN :
       /\ MayFail(ok)
       /\ hasRow' = (hasRow \/ ok)
       /\ baseline' = IF ok THEN accept.open ELSE baseline
       /\ known' = IF ok THEN accept.open ELSE known
       /\ excused' = IF ok THEN {} ELSE excused
       /\ overlap' = (overlap \/ ok)
  /\ accept' = Idle
  /\ UNCHANGED <<world, steady, scans, scan>>

\* The hub restarts.  Alerts sent for a change that is not folded in yet go out
\* again.
Restart ==
  /\ Spend("faults")
  /\ excused' = IF scan.at = "alert" THEN excused \cup ((scan.new \cup scan.gone) \ scan.todo)
                ELSE excused
  /\ scan' = Idle
  /\ accept' = Idle
  /\ UNCHANGED <<world, steady, scans, hasRow, baseline, known, overlap>>

ScanStep ==
  \/ Scan \/ ReadBaseline \/ SetInitialBaseline \/ FilterByHysteresis
  \/ (\E p \in Ports : SendAlert(p)) \/ FoldDrift

Next ==
  \/ ScanStep
  \/ ReadBaselineFails \/ FilterFails
  \/ \E p \in Ports : Flip(p)
  \/ AcceptRead \/ AcceptWrite
  \/ Restart

Spec == Init /\ [][Next]_vars

\* Fairness: the schedule has a next time, and calls return.
FairSpec == Spec /\ WF_vars(ScanStep) /\ WF_vars(AcceptWrite)

-----------------------------------------------------------------------------
\* Safety.

\* Nothing becomes the new normal without the operator having been told (the
\* comment of ApplyBaselineDrift): the baseline is what the first scan, the
\* alerts and the baselines accepted say, except for ports whose alert could not
\* be pushed or recorded or whose accepted state was overwritten.
BaselineIsKnown ==
  hasRow /\ scan.at # "alert" => Differ(baseline, known) \subseteq excused

\* "baseline updated, alerts once" (SendNewPort): no alert repeats what the
\* operator knows, except about such ports or when a baseline is accepted while
\* a scan is being processed.
AlertsOnce ==
  scan.at = "alert" /\ ~overlap =>
    \A p \in scan.todo \ excused : p \in scan.new <=> p \notin known

\* One bad scan raises no alarm when the hysteresis is 2 or more: of a port that
\* was open all the time the operator is never told that it is gone, and of one
\* that was closed all the time never that it is new.
NoFalseAlarm ==
  scan.at = "alert" =>
    \A p \in scan.todo \cap steady : p \in scan.new /\ p \in world

-----------------------------------------------------------------------------
\* Liveness.

\* A port that stays open ends up in the baseline and one that stays closed out
\* of it, whatever was missed, accepted or lost before.
BaselineConverges ==
  \A p \in Ports :
    /\ <>[](p \in world) => <>[](hasRow /\ p \in baseline)
    /\ <>[](p \notin world) => <>[](hasRow /\ p \notin baseline)

=============================================================================
