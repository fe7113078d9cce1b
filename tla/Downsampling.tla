----------------------------- MODULE Downsampling -----------------------------
(***************************************************************************)
(* The downsampler of the hub (internal/hub/downsampler.go): four          *)
(* goroutines with tickers of their own aggregate check results and agent  *)
(* metrics into wider and wider windows and delete what is too old, and    *)
(* the REST API picks a table by the length of the range asked for.        *)
(*                                                                         *)
(* One monitor and one agent, with one row each per unit of time.  What a  *)
(* row says is abstracted to the times of the raw rows it was computed     *)
(* from.  A run of a goroutine takes far less than a unit, so time passes  *)
(* between runs; a run that slips over the end of a unit is one of the     *)
(* faults, which are bounded.                                              *)
(***************************************************************************)
EXTENDS Integers, Sequences, SequencesExt

CONSTANTS
  FiveMin, Fifteen, Hour, Day,  \* the widths of the windows, in units of time
  Keep,       \* how long the rows of a table are kept
  Zoom,       \* the longest range that is answered from a table
  MaxLate,    \* the age at which an agent drops a batch it could not push
  MaxNow,     \* bound: the clock
  Starts,     \* bound: when the hub is started first
  FaultTimes, \* bound: when something goes wrong
  MaxFaults   \* bound: how many restarts, failed statements, slow runs and
              \* pushes that fail there are, in all

Tables == {"checks", "checkHour", "checkDay",
           "agent", "agent5", "agent15", "agentHour", "agentDay"}

\* The daily tables keep their rows for ever, and answer every longer range.
Daily == {"checkDay", "agentDay"}

Width ==
  [checks |-> 1, checkHour |-> Hour, checkDay |-> Day, agent |-> 1, agent5 |-> FiveMin,
   agent15 |-> Fifteen, agentHour |-> Hour, agentDay |-> Day]

\* What is kept is enough for the ranges asked for, for the aggregates, which read
\* the windows that ended since the run before, and for the rows they insert,
\* whose window began up to two windows before.
RetentionFits(keep, zoom, five, fifteen, hour, day, late) ==
  /\ DOMAIN keep = Tables \ Daily /\ DOMAIN zoom = Tables \ Daily
  /\ \A t \in Tables \ Daily : keep[t] \in Nat /\ zoom[t] \in Nat /\ zoom[t] <= keep[t]
  /\ keep["checks"] >= hour /\ keep["agent5"] >= hour
  /\ keep["checkHour"] >= day /\ keep["agentHour"] >= day
  /\ keep["agent"] >= late + five
  /\ keep["agent5"] >= 2 * five /\ keep["agent15"] >= 2 * fifteen
  /\ keep["checkHour"] >= 2 * hour /\ keep["agentHour"] >= 2 * hour

\* The constants of the code, in minutes; MCDownsampling asserts that they fit.
CodeKeep == [checks |-> 12 * 60, checkHour |-> 90 * 24 * 60, agent |-> 6 * 60, agent5 |-> 24 * 60,
             agent15 |-> 7 * 24 * 60, agentHour |-> 90 * 24 * 60]
CodeZoom == [checks |-> 6 * 60, checkHour |-> 7 * 24 * 60, agent |-> 60, agent5 |-> 6 * 60,
             agent15 |-> 48 * 60, agentHour |-> 7 * 24 * 60]

ASSUME DownsamplingAssumption ==
  /\ {FiveMin, Fifteen, Hour, Day} \subseteq Nat \ {0}
  /\ Fifteen % FiveMin = 0 /\ Hour % Fifteen = 0 /\ Day % Hour = 0
  /\ FiveMin < Fifteen /\ Fifteen < Hour
  /\ {MaxLate, MaxNow, MaxFaults} \subseteq Nat
  /\ Starts \subseteq 0..MaxNow /\ FaultTimes \subseteq 0..MaxNow
  /\ RetentionFits(Keep, Zoom, FiveMin, Fifteen, Hour, Day, MaxLate)

\* The tables with a UNIQUE key, whose rows an aggregate replaces.
Unique == {"agent5", "agent15", "agentHour", "agentDay"}

Loops == {"five", "fifteen", "hourly", "daily"}

Aggregate(src, dst) == [do |-> "aggregate", src |-> src, dst |-> dst]
Delete(t) == [do |-> "delete", src |-> t, dst |-> t]

Statements == [do : {"aggregate", "delete"}, src : Tables, dst : Tables]

\* Mutant: the table that was added last is never cleaned.
WorkKeeps15 ==
  [five    |-> <<Aggregate("agent", "agent5"), Delete("agent")>>,
   fifteen |-> <<Aggregate("agent5", "agent15")>>,
   hourly  |-> <<Aggregate("checks", "checkHour"), Delete("checks"),
                 Aggregate("agent5", "agentHour"), Delete("agent5")>>,
   daily   |-> <<Aggregate("checkHour", "checkDay"), Aggregate("agentHour", "agentDay"),
                 Delete("checkHour"), Delete("agentHour")>>]

\* What a goroutine does when its ticker fires, a statement of SQL each.
Work ==
  [five    |-> <<Aggregate("agent", "agent5"), Delete("agent")>>,
   fifteen |-> <<Aggregate("agent5", "agent15")>>,
   hourly  |-> <<Aggregate("checks", "checkHour"), Delete("checks"),
                 Aggregate("agent5", "agentHour"), Delete("agent5"), Delete("agent15")>>,
   daily   |-> <<Aggregate("checkHour", "checkDay"), Aggregate("agentHour", "agentDay"),
                 Delete("checkHour"), Delete("agentHour")>>]

Period == [five |-> FiveMin, fifteen |-> Fifteen, hourly |-> Hour, daily |-> Day]

VARIABLES
  now,      \* external: the clock
  up,       \* the hub runs
  started,  \* when the downsampler was started last
  loop,     \* the goroutines: the statements left of a run, the clock as the
            \* run read it, and when the ticker fires next
  db,       \* SQLite: for a table and the start of a window, its rows
  owed,     \* external: batches of the agent that were not pushed in time
  faults,   \* how much of MaxFaults is spent
  upset     \* history: the times at which something was wrong

vars == <<now, up, started, loop, db, owed, faults, upset>>

Times == 0..MaxNow

\* The start of the window that a time is in (Time.Truncate).
Truncate(t, width) == t - (t % width)

TypeOK ==
  /\ now \in Times
  /\ up \in BOOLEAN
  /\ started \in Times
  /\ \A l \in Loops : /\ loop[l].todo \in Seq(Statements)
                      /\ loop[l].at \in Times
                      /\ loop[l].fire \in Nat
  /\ DOMAIN db = Tables
  \* A row stands for raw rows of its own window only.
  /\ \A t \in Tables : \A k \in DOMAIN db[t] :
       /\ k \in Times
       /\ k % Width[t] = 0
       /\ db[t][k] \in Seq(SUBSET (k..(k + Width[t] - 1)))
  /\ owed \subseteq Times
  /\ faults \in 0..MaxFaults
  /\ upset \subseteq 0..MaxNow

\* The tickers count from the start of the hub, the daily timer from midnight.
FreshLoops(start) ==
  [l \in Loops |-> [todo |-> <<>>, at |-> start,
                    fire |-> (IF l = "daily" THEN Truncate(start, Day) ELSE start) + Period[l]]]

Empty == [k \in {} |-> <<>>]

Init ==
  /\ now \in Starts
  /\ up = TRUE
  /\ started = now
  /\ loop = FreshLoops(now)
  /\ db = [t \in Tables |-> Empty]
  /\ owed = {}
  /\ faults = 0
  /\ upset = 0..now

-----------------------------------------------------------------------------
\* The statements.

Between(t, from, to) == {k \in DOMAIN db[t] : from <= k /\ k <= to}

RowsOf(t, keys) == UNION UNION {ToSet(db[t][k]) : k \in keys}

\* The raw rows that an aggregate computes a row from.  The query for fifteen
\* minutes groups by "bucket", which SQLite takes to be the column of that name
\* and not the quotient that the query names so: there is a group for every five
\* minutes, and each replaces the row of the one before.
Counted(src, dst, from, to) ==
  LET keys == Between(src, from, to)
  IN RowsOf(src, IF dst = "agent15" THEN {k \in keys : \A j \in keys : j <= k} ELSE keys)

With(table, key, rows) ==
  [k \in DOMAIN table \cup {key} |-> IF k = key THEN rows ELSE table[k]]

\* InsertCheckResult and InsertAgentMetricsBatch, the time being that of the row.
InsertCheckResult(d, t) == [d EXCEPT !["checks"] = With(@, t, <<{t}>>)]
InsertAgentMetrics(d, t) == [d EXCEPT !["agent"] = With(@, t, <<{t}>>)]

\* Mutant: the window is taken from the time of the tick.
AggregateUntruncated(src, dst, at) ==
  LET start == at - Width[dst]
      raw == Counted(src, dst, start, at - 1)
  IN IF raw = {} \/ start < 0 THEN db
     ELSE [db EXCEPT ![dst] = With(@, start, <<raw>>)]

\* Mutant: the window is the one that has just begun.
AggregateBegun(src, dst, at) ==
  LET start == Truncate(at, Width[dst])
      raw == Counted(src, dst, start, start + Width[dst] - 1)
  IN IF raw = {} THEN db ELSE [db EXCEPT ![dst] = With(@, start, <<raw>>)]

\* Mutant: the start of the window is left out.
AggregateExclusive(src, dst, at) ==
  LET end == Truncate(at, Width[dst])
      start == end - Width[dst]
      raw == Counted(src, dst, start + 1, end - 1)
      old == IF start \in DOMAIN db[dst] /\ dst \notin Unique THEN db[dst][start] ELSE <<>>
  IN IF raw = {} THEN db ELSE [db EXCEPT ![dst] = With(@, start, Append(old, raw))]

\* The window is the last that is complete at that time.  No raw row, no new
\* row; a table without a key may get a second row for the window.
AggregateRows(src, dst, at) ==
  LET end == Truncate(at, Width[dst])
      start == end - Width[dst]
      raw == Counted(src, dst, start, end - 1)
      old == IF start \in DOMAIN db[dst] /\ dst \notin Unique THEN db[dst][start] ELSE <<>>
  IN IF raw = {} THEN db ELSE [db EXCEPT ![dst] = With(@, start, Append(old, raw))]

DeleteOld(t, at) ==
  [db EXCEPT ![t] = [k \in {k \in DOMAIN @ : k >= at - Keep[t]} |-> @[k]]]

Execute(s, at) ==
  IF s.do = "aggregate" THEN AggregateRows(s.src, s.dst, at) ELSE DeleteOld(s.src, at)

-----------------------------------------------------------------------------
\* The goroutines.

Fault ==
  /\ now \in FaultTimes
  /\ faults < MaxFaults
  /\ faults' = faults + 1

\* The ticker has fired, or a run is under way.
Busy(l) == loop[l].todo # <<>> \/ now >= loop[l].fire

\* The run: one begins by reading the clock, which its first statement follows.
\* The next tick of the daily timer is set after its run, on the same day.
Run(l) ==
  IF loop[l].todo # <<>> THEN loop[l]
  ELSE [todo |-> Work[l], at |-> now,
        fire |-> (IF l = "daily" THEN Truncate(now, Day) ELSE loop[l].fire) + Period[l]]

\* A run when the next statement is done.
Rest(run) == [todo |-> Tail(run.todo), at |-> run.at, fire |-> run.fire]

\* A goroutine executes the next statement of its run.
Statement(l) ==
  /\ up
  /\ Busy(l)
  /\ loop' = [loop EXCEPT ![l] = Rest(Run(l))]
  /\ db' = Execute(Head(Run(l).todo), Run(l).at)
  /\ UNCHANGED <<now, up, started, owed, faults, upset>>

\* The statement fails: the error is logged, and the run goes on.
StatementFails(l) ==
  /\ up
  /\ Busy(l)
  /\ Fault
  /\ loop' = [loop EXCEPT ![l] = Rest(Run(l))]
  /\ upset' = upset \cup {now}
  /\ UNCHANGED <<now, up, started, db, owed>>

-----------------------------------------------------------------------------
\* The rest of the system.

\* The hub is killed, or closed (then Stop waits for the runs under way).
Crash ==
  /\ up
  /\ Fault
  /\ up' = FALSE
  /\ loop' = [l \in Loops |-> [todo |-> <<>>, at |-> loop[l].at, fire |-> loop[l].fire]]
  /\ upset' = upset \cup {now}
  /\ UNCHANGED <<now, started, db, owed>>

Start ==
  /\ ~up
  /\ up' = TRUE
  /\ started' = now
  /\ loop' = FreshLoops(now)
  /\ upset' = upset \cup {now}
  /\ UNCHANGED <<now, db, owed, faults>>

\* A batch is pushed late.
Deliver ==
  /\ up
  /\ \E t \in owed : /\ db' = InsertAgentMetrics(db, t)
                     /\ owed' = owed \ {t}
  /\ UNCHANGED <<now, up, started, loop, faults, upset>>

\* Nothing is left to do at this time.
Quiet == \A l \in Loops : ~Busy(l)

\* A unit of time passes while the hub runs: the monitor is checked, the agent
\* pushes.
Pass ==
  LET next == now + 1
  IN /\ up
     /\ next \in Times
     /\ now' = next
     /\ owed' \in {{t \in owed : next - t < MaxLate}, {}}
     /\ \/ /\ Quiet
           /\ db' = InsertAgentMetrics(InsertCheckResult(db, next), next)
           /\ UNCHANGED <<faults, upset>>
        \* A run slips into the next unit.
        \/ /\ ~Quiet /\ Fault
           /\ upset' = upset \cup {now, next}
           /\ db' = InsertAgentMetrics(InsertCheckResult(db, next), next)
     /\ UNCHANGED <<up, started, loop>>

\* The same, but the push does not reach the hub in time.
PassUnpushed ==
  LET next == now + 1
  IN /\ up /\ Quiet /\ Fault
     /\ next \in Times
     /\ now' = next
     /\ db' = InsertCheckResult(db, next)
     /\ owed' = {t \in owed : next - t < MaxLate} \cup {next}
     /\ upset' = upset \cup {next}
     /\ UNCHANGED <<up, started, loop>>

\* The same while the hub is down.
PassDown ==
  LET next == now + 1
  IN /\ ~up
     /\ next \in FaultTimes
     /\ now' = next
     /\ owed' = {t \in owed : next - t < MaxLate} \cup {next}
     /\ upset' = upset \cup {next}
     /\ UNCHANGED <<up, started, loop, db, faults>>

Next ==
  \/ \E l \in Loops : Statement(l) \/ StatementFails(l)
  \/ Crash \/ Start \/ Deliver \/ Pass \/ PassUnpushed \/ PassDown

Spec == Init /\ [][Next]_vars

-----------------------------------------------------------------------------
\* The queries of the REST API.

\* selectCheckResultTier, selectAgentMetricTier.
CheckTier(range) ==
  CASE range <= Zoom["checks"] -> "checks"
    [] range > Zoom["checks"] /\ range <= Zoom["checkHour"] -> "checkHour"
    [] OTHER -> "checkDay"

\* Mutant: the 15-minute table is asked for what the hourly one is for.
AgentTierWide(range) ==
  CASE range <= Zoom["agent"] -> "agent"
    [] range > Zoom["agent"] /\ range <= Zoom["agent5"] -> "agent5"
    [] range > Zoom["agent5"] /\ range <= Zoom["agentHour"] -> "agent15"
    [] OTHER -> "agentDay"

AgentTier(range) ==
  CASE range <= Zoom["agent"] -> "agent"
    [] range > Zoom["agent"] /\ range <= Zoom["agent5"] -> "agent5"
    [] range > Zoom["agent5"] /\ range <= Zoom["agent15"] -> "agent15"
    [] range > Zoom["agent15"] /\ range <= Zoom["agentHour"] -> "agentHour"
    [] OTHER -> "agentDay"

\* The windows for which GetMonitorResults and GetHostMetrics answer with a row
\* when asked for a range that ends now.
MonitorResults(range) == Between(CheckTier(range), now - range, now)
HostMetrics(range) == Between(AgentTier(range), now - range, now)

\* The checks that Get24hUptimeAll counts.
Uptime24h == Between("checks", now - Day, now)

-----------------------------------------------------------------------------
\* Properties.  Nothing was wrong from one time to another.
Calm(from, to) == upset \cap (from..to) = {}

Windows(width) == {k \in Times : k % width = 0}

\* Every hour becomes one row of check_results_hourly, which counts each check of
\* the hour once: the ticks, the window and retention fit together, whatever the
\* phase of the ticker, unless something went wrong between the start of the
\* hour and the second tick after it.
HourlyComplete ==
  \A h \in Windows(Hour) :
    /\ h + 2 * Hour <= now
    /\ Calm(h, h + 2 * Hour - 1)
    /\ h >= now - Keep["checkHour"]
    => h \in DOMAIN db["checkHour"] /\ db["checkHour"][h] = <<h..(h + Hour - 1)>>

\* When a ticker fires in the first five minutes of a window, so does that of
\* the five minutes, which may be late for the last five minutes before.
Raced(width) == IF started % width < FiveMin THEN FiveMin ELSE 0

\* What the one row of a window must count.
AgentWindows(t, Good(_, _)) ==
  \A k \in Windows(Width[t]) :
    /\ k + 2 * Width[t] <= now
    /\ started < k
    /\ Calm(k, k + 2 * Width[t] - 1)
    /\ k >= now - Keep[t]
    => k \in DOMAIN db[t] /\ Len(db[t][k]) = 1 /\ Good(k, db[t][k][1])

InTime(t, k) == k..(k + Width[t] - 1 - (IF t = "agent5" THEN 0 ELSE Raced(Width[t])))

\* The last five minutes of fifteen, or those before, when the last were too late.
LastFive(k, counted) ==
  \E last \in {k + Fifteen - FiveMin, k + Fifteen - FiveMin - Raced(Fifteen)} :
    counted = last..(last + FiveMin - 1)

\* Five minutes of agent metrics become one row, and so does an hour of these
\* rows; only the last five minutes may be missing, and only when the tickers
\* fire together.  Of fifteen minutes, the last five that are there do.
AgentTiersComplete ==
  /\ \A t \in {"agent5", "agentHour"} :
       AgentWindows(t, LAMBDA k, counted : InTime(t, k) \subseteq counted)
  /\ AgentWindows("agent15", LastFive)

\* The row of a day is computed at midnight from the hours that have a row then:
\* all that ever get one but the last, whose row is computed at the next tick
\* of the hour.  Only where the ticks fall on midnight it may be in time.
DailyAllButLast ==
  \A d \in Windows(Day) :
    LET all == RowsOf("checkHour", Between("checkHour", d, d + Day - 1))
        butLast == RowsOf("checkHour", Between("checkHour", d, d + Day - Hour - 1))
        rows == IF d \in DOMAIN db["checkDay"] THEN db["checkDay"][d] ELSE <<>>
    IN d + Day < now /\ Calm(d + Day, d + Day) /\ d >= now - Keep["checkHour"]
       => /\ Len(rows) <= 1
          /\ butLast # {} => Len(rows) = 1
          /\ \A day \in ToSet(rows) : butLast \subseteq day /\ day \subseteq all
          /\ started % Hour # 0 /\ started < d => \A day \in ToSet(rows) : day = butLast

\* The rows that a range ending now is answered with are there after a step.
KeepsServed ==
  \A range \in Times : /\ MonitorResults(range) \subseteq DOMAIN db'[CheckTier(range)]
                       /\ HostMetrics(range) \subseteq DOMAIN db'[AgentTier(range)]

\* No deletion takes away a row that a range ending now is answered with: the
\* headroom of each table covers the ranges that its tier is chosen for.
LiveZoomServed == [][KeepsServed]_vars

\* Every table but the daily ones is kept short: no row outlives its retention by
\* more than the period of the goroutine that deletes it.
Retained ==
  \A t \in Tables \ Daily :
    LET period == CASE t = "agent" -> FiveMin
                    [] t \in {"checkHour", "agentHour"} -> Day
                    [] OTHER -> Hour
    IN Quiet /\ Calm(now - period, now)
       => \A k \in DOMAIN db[t] : k >= now - period - Keep[t]

\* agent_metrics.go:244, "aggregates 5-min agent metrics into 15-minute buckets":
\* a row of fifteen minutes counts the first five minutes of them as well.
FifteenComplete ==
  AgentWindows("agent15", LAMBDA k, counted : InTime("agent15", k) \subseteq counted)

\* queries.go:550, "the 24h uptime percentage for all monitors": it counts the
\* checks of the last day.
UptimeCoversDay ==
  \A t \in Times : now - Day <= t /\ t <= now /\ Calm(t, now) => t \in Uptime24h

=============================================================================
