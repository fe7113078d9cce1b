--------------------------- MODULE DownsamplingProofs ---------------------------
(***************************************************************************)
(* Theorems about Downsampling for every width of the windows, every       *)
(* retention and every choice of tables that RetentionFits.                *)
(***************************************************************************)
EXTENDS Downsampling, SequenceTheorems, TLAPS

\* A tier and the one it is aggregated to.
Tiers ==
  {<<"agent", "agent5">>, <<"agent5", "agent15">>, <<"agent5", "agentHour">>,
   <<"agentHour", "agentDay">>, <<"checks", "checkHour">>, <<"checkHour", "checkDay">>}

\* The statements of a run: what it deletes from has a retention.
Legal ==
  {s \in Statements : /\ s.do = "delete" => s.src \in Tables \ Daily
                      /\ s.do = "aggregate" => <<s.src, s.dst>> \in Tiers}

\* What a goroutine does first, which is when its run begins, and after that.
First(l) ==
  CASE l = "five" -> Aggregate("agent", "agent5")
    [] l = "fifteen" -> Aggregate("agent5", "agent15")
    [] l = "hourly" -> Aggregate("checks", "checkHour")
    [] OTHER -> Aggregate("checkHour", "checkDay")

Later(l) ==
  CASE l = "five" -> {Delete("agent")}
    [] l = "fifteen" -> {}
    [] l = "hourly" -> {Delete("checks"), Aggregate("agent5", "agentHour"),
                        Delete("agent5"), Delete("agent15")}
    [] OTHER -> {Aggregate("agentHour", "agentDay"), Delete("checkHour"), Delete("agentHour")}

\* A run deletes by a clock that is not ahead of the one the queries read.
RunInv ==
  /\ now \in Nat
  /\ owed \subseteq Nat
  /\ loop = [l \in Loops |-> loop[l]]
  /\ \A l \in Loops : /\ loop[l].todo \in Seq(Later(l))
                      /\ loop[l].at \in Nat
                      /\ loop[l].at <= now

\* The rows have the start of a window for a key.
RowsInv ==
  /\ db = [t \in Tables |-> db[t]]
  /\ \A t \in Tables : DOMAIN db[t] \subseteq Int

-----------------------------------------------------------------------------
\* Arithmetic of windows.

LEMMA Division ==
  ASSUME NEW t \in Int, NEW w \in Nat \ {0}
  PROVE  t = w * (t \div w) + (t % w) /\ t \div w \in Int /\ t % w \in 0..(w - 1)
OBVIOUS

LEMMA ProductMod ==
  ASSUME NEW q \in Int, NEW w \in Nat \ {0}
  PROVE  (q * w) % w = 0
OBVIOUS

LEMMA ProductGap ==
  ASSUME NEW p \in Int, NEW q \in Int, NEW w \in Nat \ {0}, p * w < q * w
  PROVE  p * w + w <= q * w
OBVIOUS

LEMMA Multiple ==
  ASSUME NEW t \in Int, NEW w \in Nat \ {0}, t % w = 0
  PROVE  \E q \in Int : t = q * w
PROOF
<1>1. t = (t \div w) * w
  BY Division
<1> QED BY <1>1, Division

\* Two windows that do not begin together do not overlap.
LEMMA MultipleGap ==
  ASSUME NEW a \in Int, NEW b \in Int, NEW w \in Nat \ {0}, a % w = 0, b % w = 0, a < b
  PROVE  a + w <= b
PROOF
<1>1. PICK p \in Int : a = p * w
  BY Multiple
<1>2. PICK q \in Int : b = q * w
  BY Multiple
<1> QED BY <1>1, <1>2, ProductGap

LEMMA MultipleDifference ==
  ASSUME NEW a \in Int, NEW b \in Int, NEW w \in Nat \ {0}, a % w = 0, b % w = 0
  PROVE  (a - b) % w = 0
PROOF
<1>1. PICK p \in Int : a = p * w
  BY Multiple
<1>2. PICK q \in Int : b = q * w
  BY Multiple
<1>3. a - b = (p - q) * w
  BY <1>1, <1>2
<1> QED BY <1>3, ProductMod

LEMMA MultipleSum ==
  ASSUME NEW a \in Int, NEW b \in Int, NEW w \in Nat \ {0}, a % w = 0, b % w = 0
  PROVE  (a + b) % w = 0
PROOF
<1>1. PICK p \in Int : a = p * w
  BY Multiple
<1>2. PICK q \in Int : b = q * w
  BY Multiple
<1>3. a + b = (p + q) * w
  BY <1>1, <1>2
<1> QED BY <1>3, ProductMod

\* A window of whole windows.
LEMMA MultipleOfMultiple ==
  ASSUME NEW a \in Int, NEW b \in Nat \ {0}, NEW w \in Nat \ {0}, a % b = 0, b % w = 0
  PROVE  a % w = 0
PROOF
<1>1. PICK p \in Int : a = p * b
  BY Multiple
<1>2. PICK q \in Int : b = q * w
  BY Multiple
<1>3. a = (p * q) * w
  BY <1>1, <1>2
<1>4. ((p * q) * w) % w = 0
  BY ProductMod
<1> QED BY <1>3, <1>4

LEMMA SelfMultiple ==
  ASSUME NEW w \in Nat \ {0}
  PROVE  w % w = 0 /\ 0 % w = 0 /\ w % 1 = 0
OBVIOUS

LEMMA TruncateType ==
  ASSUME NEW t \in Nat, NEW w \in Nat \ {0}
  PROVE  /\ Truncate(t, w) \in Nat
         /\ Truncate(t, w) <= t /\ t < Truncate(t, w) + w
         /\ Truncate(t, w) % w = 0
PROOF
<1>1. Truncate(t, w) = (t \div w) * w
  BY Division DEF Truncate
<1>2. t \div w \in Int
  BY Division
<1>3. Truncate(t, w) % w = 0
  BY <1>1, <1>2, ProductMod
<1>4. Truncate(t, w) \in Nat /\ Truncate(t, w) <= t /\ t < Truncate(t, w) + w
  BY Division DEF Truncate
<1> QED BY <1>3, <1>4

\* The window that a time is in.
LEMMA TruncateIs ==
  ASSUME NEW t \in Nat, NEW start \in Int, NEW w \in Nat \ {0}, start % w = 0,
         start <= t, t < start + w
  PROVE  Truncate(t, w) = start
PROOF
<1> DEFINE m == Truncate(t, w)
<1>1. m \in Int /\ m <= t /\ t < m + w /\ m % w = 0
  BY TruncateType
<1> HIDE DEF m
<1>2. ASSUME start < m PROVE FALSE
  <2>1. start + w <= m
    BY <1>1, <1>2, MultipleGap
  <2> QED BY <1>1, <2>1
<1>3. ASSUME m < start PROVE FALSE
  <2>1. m + w <= start
    BY <1>1, <1>3, MultipleGap
  <2> QED BY <1>1, <2>1
<1>4. m = start
  BY <1>1, <1>2, <1>3
<1> QED BY <1>4 DEF m

-----------------------------------------------------------------------------
\* The constants.

LEMMA Constants ==
  /\ {FiveMin, Fifteen, Hour, Day} \subseteq Nat \ {0}
  /\ MaxNow \in Nat
  /\ \A t \in Tables \ Daily : Keep[t] \in Nat /\ Zoom[t] \in Nat /\ Zoom[t] <= Keep[t]
BY DownsamplingAssumption DEF DownsamplingAssumption, RetentionFits

LEMMA WidthPositive == \A t \in Tables : Width[t] \in Nat \ {0}
BY Constants DEF Width, Tables

LEMMA StatementsLegal == \A l \in Loops : Later(l) \cup {First(l)} \subseteq Legal
PROOF
<1>1. \A src, dst \in Tables : <<src, dst>> \in Tiers => Aggregate(src, dst) \in Legal
  BY DEF Legal, Statements, Aggregate
<1>2. \A t \in Tables \ Daily : Delete(t) \in Legal
  BY DEF Legal, Statements, Delete
<1> QED BY <1>1, <1>2 DEF Loops, First, Later, Tables, Daily, Tiers

\* The run of a goroutine in full.
LEMMA WorkParts ==
  ASSUME NEW l \in Loops
  PROVE  Work[l] # <<>> /\ Head(Work[l]) = First(l) /\ Tail(Work[l]) \in Seq(Later(l))
PROOF
<1>1. CASE l = "five"
  BY <1>1 DEF Work, First, Later
<1>2. CASE l = "fifteen"
  BY <1>2 DEF Work, First, Later
<1>3. CASE l = "hourly"
  BY <1>3 DEF Work, First, Later
<1>4. CASE l = "daily"
  BY <1>4 DEF Work, First, Later
<1> QED BY <1>1, <1>2, <1>3, <1>4 DEF Loops

LEMMA NothingLeft == \A l \in Loops : <<>> \in Seq(Later(l))
OBVIOUS

\* What a tier is chosen for is kept in its table.
LEMMA CheckTierKept ==
  ASSUME NEW range \in Nat
  PROVE  /\ CheckTier(range) \in Tables
         /\ CheckTier(range) \notin Daily => range <= Keep[CheckTier(range)]
BY Constants DEF CheckTier, Tables, Daily

LEMMA AgentTierKept ==
  ASSUME NEW range \in Nat
  PROVE  /\ AgentTier(range) \in Tables
         /\ AgentTier(range) \notin Daily => range <= Keep[AgentTier(range)]
BY Constants DEF AgentTier, Tables, Daily

-----------------------------------------------------------------------------
\* The statements.

\* An aggregate takes no row away, and a deletion none that is in its retention.
LEMMA AggregateKeeps ==
  ASSUME RowsInv, NEW src \in Tables, NEW dst \in Tables, NEW at \in Nat
  PROVE  LET after == AggregateRows(src, dst, at)
         IN /\ after = [t \in Tables |-> after[t]]
            /\ \A t \in Tables : /\ DOMAIN after[t] \subseteq Int
                                 /\ DOMAIN db[t] \subseteq DOMAIN after[t]
PROOF
<1> DEFINE end == Truncate(at, Width[dst])
           start == end - Width[dst]
           raw == Counted(src, dst, start, end - 1)
           old == IF start \in DOMAIN db[dst] /\ dst \notin Unique THEN db[dst][start] ELSE <<>>
           rows == Append(old, raw)
           after == AggregateRows(src, dst, at)
<1>1. start \in Int
  <2>1. Width[dst] \in Nat \ {0}
    BY WidthPositive
  <2>2. Truncate(at, Width[dst]) \in Int
    BY <2>1, TruncateType
  <2> QED BY <2>1, <2>2
<1>2. DOMAIN With(db[dst], start, rows) = DOMAIN db[dst] \cup {start}
  BY DEF With
<1>3. after = IF raw = {} THEN db ELSE [db EXCEPT ![dst] = With(db[dst], start, rows)]
  BY DEF AggregateRows
<1> HIDE DEF start, rows, after, raw
<1>4. CASE after = db
  BY <1>4 DEF RowsInv, after
<1>5. CASE after = [db EXCEPT ![dst] = With(db[dst], start, rows)]
  <2>1. after = [t \in Tables |-> IF t = dst THEN With(db[dst], start, rows) ELSE db[t]]
    BY <1>5 DEF RowsInv
  <2> QED BY <1>1, <1>2, <2>1 DEF RowsInv, after
<1> QED BY <1>3, <1>4, <1>5

LEMMA DeleteKeeps ==
  ASSUME RowsInv, NEW table \in Tables \ Daily, NEW at \in Nat
  PROVE  LET after == DeleteOld(table, at)
         IN /\ after = [t \in Tables |-> after[t]]
            /\ \A t \in Tables : /\ DOMAIN after[t] \subseteq DOMAIN db[t]
                                 /\ t # table => after[t] = db[t]
            /\ \A k \in DOMAIN db[table] : k >= at - Keep[table] => k \in DOMAIN after[table]
PROOF
<1> DEFINE kept == {k \in DOMAIN db[table] : k >= at - Keep[table]}
           after == DeleteOld(table, at)
<1>1. after = [db EXCEPT ![table] = [k \in kept |-> db[table][k]]]
  BY DEF DeleteOld
<1>2. after = [t \in Tables |-> IF t = table THEN [k \in kept |-> db[table][k]] ELSE db[t]]
  BY <1>1 DEF RowsInv
<1>3. DOMAIN [k \in kept |-> db[table][k]] = kept
  OBVIOUS
<1> HIDE DEF after
<1> QED BY <1>2, <1>3 DEF after

-----------------------------------------------------------------------------
\* The invariant.

LEMMA InvInit == Init => RunInv /\ RowsInv
PROOF
<1> SUFFICES ASSUME Init PROVE RunInv /\ RowsInv
  OBVIOUS
<1>1. now \in Nat
  BY DownsamplingAssumption DEF Init, DownsamplingAssumption
<1>2. RunInv
  <2>1. \A l \in Loops : loop[l].todo = <<>> /\ loop[l].at = now
    BY DEF Init, FreshLoops
  <2>2. loop = [l \in Loops |-> loop[l]] /\ owed = {}
    BY DEF Init, FreshLoops
  <2>3. \A l \in Loops : loop[l].todo \in Seq(Later(l))
    BY <2>1, NothingLeft
  <2> QED BY <1>1, <2>1, <2>2, <2>3 DEF RunInv
<1>3. RowsInv
  BY DEF Init, RowsInv, Empty
<1> QED BY <1>2, <1>3

\* What a run of a goroutine is, begun or about to begin.
LEMMA RunLegal ==
  ASSUME RunInv, NEW l \in Loops, Busy(l)
  PROVE  /\ Run(l).at \in Nat /\ Run(l).at <= now
         /\ Head(Run(l).todo) \in Legal
         /\ loop[l].todo = <<>> => Head(Run(l).todo) = First(l)
         /\ loop[l].todo # <<>> => Head(Run(l).todo) \in Later(l)
         /\ Tail(Run(l).todo) \in Seq(Later(l))
PROOF
<1>1. CASE loop[l].todo # <<>>
  <2>1. Run(l) = loop[l]
    BY <1>1 DEF Run
  <2>2. loop[l].todo \in Seq(Later(l)) /\ loop[l].at \in Nat /\ loop[l].at <= now
    BY DEF RunInv
  <2>3. Head(loop[l].todo) \in Later(l) /\ Tail(loop[l].todo) \in Seq(Later(l))
    BY <1>1, <2>2, HeadTailProperties
  <2> QED BY <1>1, <2>1, <2>2, <2>3, StatementsLegal
<1>2. CASE loop[l].todo = <<>>
  <2>1. Run(l).todo = Work[l] /\ Run(l).at = now
    BY <1>2 DEF Run
  <2> QED BY <1>2, <2>1, WorkParts, StatementsLegal DEF RunInv
<1> QED BY <1>1, <1>2

LEMMA RunStep ==
  ASSUME RunInv, NEW l \in Loops, Busy(l), UNCHANGED <<now, owed>>,
         loop' = [loop EXCEPT ![l] = Rest(Run(l))]
  PROVE  RunInv'
PROOF
<1>1. Rest(Run(l)).todo \in Seq(Later(l)) /\ Rest(Run(l)).at \in Nat /\ Rest(Run(l)).at <= now
  BY RunLegal DEF Rest
<1>2. loop' = [k \in Loops |-> IF k = l THEN Rest(Run(l)) ELSE loop[k]]
  BY DEF RunInv
<1> QED BY <1>1, <1>2 DEF RunInv

\* Time never goes back under the runs.
LEMMA RunInvStep == RunInv /\ [Next]_vars => RunInv'
PROOF
<1> SUFFICES ASSUME RunInv, [Next]_vars PROVE RunInv'
  OBVIOUS
<1>1. ASSUME NEW l \in Loops, Statement(l) \/ StatementFails(l) PROVE RunInv'
  BY <1>1, RunStep DEF Statement, StatementFails
<1>2. CASE Crash
  <2>1. \A l \in Loops : loop'[l].todo = <<>> /\ loop'[l].at = loop[l].at
    BY <1>2 DEF Crash
  <2>2. loop' = [l \in Loops |-> loop'[l]] /\ UNCHANGED <<now, owed>>
    BY <1>2 DEF Crash
  <2>3. \A l \in Loops : loop'[l].todo \in Seq(Later(l))
    BY <2>1, NothingLeft
  <2> QED BY <2>1, <2>2, <2>3 DEF RunInv
<1>3. CASE Start
  <2>1. \A l \in Loops : loop'[l].todo = <<>> /\ loop'[l].at = now
    BY <1>3 DEF Start, FreshLoops
  <2>2. loop' = [l \in Loops |-> loop'[l]] /\ UNCHANGED <<now, owed>>
    BY <1>3 DEF Start, FreshLoops
  <2>3. \A l \in Loops : loop'[l].todo \in Seq(Later(l))
    BY <2>1, NothingLeft
  <2> QED BY <2>1, <2>2, <2>3 DEF RunInv
<1>4. CASE Pass \/ PassUnpushed \/ PassDown
  <2>1. now' = now + 1 /\ loop' = loop
    BY <1>4 DEF Pass, PassUnpushed, PassDown
  <2>2. owed' \subseteq owed \cup {now + 1}
    BY <1>4 DEF Pass, PassUnpushed, PassDown
  <2> QED BY <2>1, <2>2 DEF RunInv
<1>5. CASE Deliver \/ UNCHANGED vars
  BY <1>5 DEF Deliver, vars, RunInv
<1> QED BY <1>1, <1>2, <1>3, <1>4, <1>5 DEF Next

\* The insertion of a row takes none away.
Grown(after) ==
  /\ after = [t \in Tables |-> after[t]]
  /\ \A t \in Tables : DOMAIN after[t] \subseteq Int /\ DOMAIN db[t] \subseteq DOMAIN after[t]

LEMMA InsertGrows ==
  ASSUME NEW d, d = [t \in Tables |-> d[t]], \A t \in Tables : DOMAIN d[t] \subseteq Int,
         NEW time \in Int
  PROVE  /\ InsertCheckResult(d, time) = [t \in Tables |-> InsertCheckResult(d, time)[t]]
         /\ InsertAgentMetrics(d, time) = [t \in Tables |-> InsertAgentMetrics(d, time)[t]]
         /\ \A t \in Tables :
              /\ DOMAIN InsertCheckResult(d, time)[t] \subseteq Int
              /\ DOMAIN d[t] \subseteq DOMAIN InsertCheckResult(d, time)[t]
              /\ DOMAIN InsertAgentMetrics(d, time)[t] \subseteq Int
              /\ DOMAIN d[t] \subseteq DOMAIN InsertAgentMetrics(d, time)[t]
PROOF
<1>1. \A t \in Tables : DOMAIN With(d[t], time, <<{time}>>) = DOMAIN d[t] \cup {time}
  BY DEF With
<1>2. InsertCheckResult(d, time) =
        [t \in Tables |-> IF t = "checks" THEN With(d[t], time, <<{time}>>) ELSE d[t]]
  BY DEF InsertCheckResult
<1>3. InsertAgentMetrics(d, time) =
        [t \in Tables |-> IF t = "agent" THEN With(d[t], time, <<{time}>>) ELSE d[t]]
  BY DEF InsertAgentMetrics
<1>4. \A t \in Tables :
        /\ DOMAIN InsertCheckResult(d, time)[t] \subseteq DOMAIN d[t] \cup {time}
        /\ DOMAIN d[t] \subseteq DOMAIN InsertCheckResult(d, time)[t]
  BY <1>1, <1>2
<1>5. \A t \in Tables :
        /\ DOMAIN InsertAgentMetrics(d, time)[t] \subseteq DOMAIN d[t] \cup {time}
        /\ DOMAIN d[t] \subseteq DOMAIN InsertAgentMetrics(d, time)[t]
  BY <1>1, <1>3
<1>6. /\ InsertCheckResult(d, time) = [t \in Tables |-> InsertCheckResult(d, time)[t]]
      /\ InsertAgentMetrics(d, time) = [t \in Tables |-> InsertAgentMetrics(d, time)[t]]
  BY <1>2, <1>3
<1> QED BY <1>4, <1>5, <1>6

\* A step keeps the rows that are in their retention, and the keys what they are.
RowsStep ==
  /\ RowsInv'
  /\ \A t \in Tables : \A k \in DOMAIN db[t] :
       t \in Daily \/ k >= now - Keep[t] => k \in DOMAIN db'[t]

LEMMA GrownStep == RowsInv /\ Grown(db') => RowsStep
BY DEF RowsInv, Grown, RowsStep

LEMMA StatementKeeps ==
  ASSUME RunInv, RowsInv, NEW l \in Loops, Statement(l)
  PROVE  RowsStep
PROOF
<1> DEFINE s == Head(Run(l).todo)
           at == Run(l).at
<1>1. s \in Legal /\ at \in Nat /\ at <= now /\ db' = Execute(s, at) /\ now \in Nat
  BY RunLegal DEF Statement, RunInv
<1> HIDE DEF s, at
<1>2. CASE s.do = "aggregate"
  <2>1. db' = AggregateRows(s.src, s.dst, at) /\ s.src \in Tables /\ s.dst \in Tables
    BY <1>1, <1>2 DEF Execute, Legal, Statements
  <2>2. Grown(db')
    BY <1>1, <2>1, AggregateKeeps DEF Grown
  <2> QED BY <2>2, GrownStep
<1>3. CASE s.do # "aggregate"
  <2>1. db' = DeleteOld(s.src, at) /\ s.src \in Tables \ Daily
    BY <1>1, <1>3 DEF Execute, Legal, Statements
  <2>2. Keep[s.src] \in Nat
    BY <2>1, Constants
  <2>3. \A k \in DOMAIN db[s.src] : k >= now - Keep[s.src] => k >= at - Keep[s.src]
    BY <1>1, <2>1, <2>2 DEF RowsInv
  <2>4. /\ db' = [t \in Tables |-> db'[t]]
        /\ \A t \in Tables : DOMAIN db'[t] \subseteq DOMAIN db[t] /\ (t # s.src => db'[t] = db[t])
        /\ \A k \in DOMAIN db[s.src] : k >= at - Keep[s.src] => k \in DOMAIN db'[s.src]
    BY <1>1, <2>1, DeleteKeeps
  <2> QED BY <2>1, <2>3, <2>4 DEF RowsInv, RowsStep
<1> QED BY <1>2, <1>3

LEMMA RowsInvStep == RunInv /\ RowsInv /\ [Next]_vars => RowsStep
PROOF
<1> SUFFICES ASSUME RunInv, RowsInv, [Next]_vars PROVE RowsStep
  OBVIOUS
<1>1. ASSUME NEW l \in Loops, Statement(l) PROVE RowsStep
  BY <1>1, StatementKeeps
<1>2. CASE \/ \E l \in Loops : StatementFails(l)
           \/ Crash \/ Start \/ PassDown \/ UNCHANGED vars
  <2>1. db' = db
    BY <1>2 DEF StatementFails, Crash, Start, PassDown, vars
  <2> QED BY <2>1 DEF RowsInv, RowsStep
<1>3. CASE Deliver
  <2>1. PICK t \in owed : db' = InsertAgentMetrics(db, t)
    BY <1>3 DEF Deliver
  <2>2. t \in Int
    BY DEF RunInv
  <2> QED BY <2>1, <2>2, InsertGrows, GrownStep DEF RowsInv, Grown
<1>4. CASE Pass \/ PassUnpushed
  <2>1. now + 1 \in Int
    BY DEF RunInv
  <2>2. \/ db' = InsertCheckResult(db, now + 1)
        \/ db' = InsertAgentMetrics(InsertCheckResult(db, now + 1), now + 1)
    BY <1>4 DEF Pass, PassUnpushed
  <2>3. Grown(InsertCheckResult(db, now + 1))
    BY <2>1, InsertGrows DEF RowsInv, Grown
  <2>4. Grown(InsertAgentMetrics(InsertCheckResult(db, now + 1), now + 1))
    BY <2>1, <2>3, InsertGrows DEF Grown
  <2> QED BY <2>2, <2>3, <2>4, GrownStep
<1> QED BY <1>1, <1>2, <1>3, <1>4 DEF Next

\* For every length of the ranges, of the retentions and of the windows: no step
\* takes away a row that selectCheckResultTier or selectAgentMetricTier leads a
\* query of a range that ends now to.
THEOREM LiveZoomServedAlways == Spec => LiveZoomServed
PROOF
<1>1. RunInv /\ RowsInv /\ RowsStep => KeepsServed
  <2> SUFFICES ASSUME RunInv, RowsInv, RowsStep, NEW range \in Times PROVE
        /\ MonitorResults(range) \subseteq DOMAIN db'[CheckTier(range)]
        /\ HostMetrics(range) \subseteq DOMAIN db'[AgentTier(range)]
    BY DEF KeepsServed
  <2>1. range \in Nat /\ now \in Nat
    BY Constants DEF Times, RunInv
  <2>2. ASSUME NEW tier \in Tables, tier \notin Daily => range <= Keep[tier]
        PROVE  Between(tier, now - range, now) \subseteq DOMAIN db'[tier]
    <3> SUFFICES ASSUME NEW k \in DOMAIN db[tier], now - range <= k PROVE k \in DOMAIN db'[tier]
      BY DEF Between
    <3>1. k \in Int
      BY DEF RowsInv
    <3>2. tier \notin Daily => k >= now - Keep[tier]
      BY <2>1, <2>2, <3>1, Constants
    <3> QED BY <3>2 DEF RowsStep
  <2> QED BY <2>1, <2>2, CheckTierKept, AgentTierKept DEF MonitorResults, HostMetrics
<1>2. Spec => []RunInv
  BY InvInit, RunInvStep, PTL DEF Spec
<1>3. RunInv /\ RowsInv /\ [Next]_vars => RowsInv'
  BY RowsInvStep DEF RowsStep
<1>4. RunInv /\ RowsInv /\ [Next]_vars => [KeepsServed]_vars
  BY <1>1, RowsInvStep
<1> QED BY <1>2, <1>3, <1>4, InvInit, PTL DEF Spec, LiveZoomServed

-----------------------------------------------------------------------------
\* The types.

\* A row stands for raw rows of its own window.
RowType(t, k, rows) ==
  k \in Times /\ k % Width[t] = 0 /\ rows \in Seq(SUBSET (k..(k + Width[t] - 1)))

TableType(t, table) == \A k \in DOMAIN table : RowType(t, k, table[k])

DbType(d) == d = [t \in Tables |-> d[t]] /\ \A t \in Tables : TableType(t, d[t])

ClockType ==
  /\ now \in Times
  /\ up \in BOOLEAN
  /\ started \in Times
  /\ \A l \in Loops : loop[l].fire \in Nat
  /\ owed \subseteq Times
  /\ faults \in 0..MaxFaults
  /\ upset \subseteq Times

LEMMA TypeFromParts == RunInv /\ DbType(db) /\ ClockType => TypeOK
PROOF
<1> SUFFICES ASSUME RunInv, DbType(db), ClockType PROVE TypeOK
  OBVIOUS
<1>1. ASSUME NEW l \in Loops
      PROVE  loop[l].todo \in Seq(Statements) /\ loop[l].at \in Times /\ loop[l].fire \in Nat
  <2>1. loop[l].todo \in Seq(Later(l)) /\ Later(l) \subseteq Statements
    BY StatementsLegal DEF RunInv, Legal
  <2>2. loop[l].todo \in Seq(Statements)
    <3> DEFINE some == Later(l)
    <3> HIDE DEF some
    <3>1. loop[l].todo \in Seq(some) /\ some \subseteq Statements
      BY <2>1 DEF some
    <3> QED BY <3>1
  <2>3. loop[l].at \in Times
    BY Constants DEF RunInv, ClockType, Times
  <2> QED BY <2>2, <2>3 DEF ClockType
<1>2. DOMAIN db = Tables
  BY DEF DbType
<1>3. ASSUME NEW t \in Tables, NEW k \in DOMAIN db[t]
      PROVE  /\ k \in Times
             /\ k % Width[t] = 0
             /\ db[t][k] \in Seq(SUBSET (k..(k + Width[t] - 1)))
  BY <1>3 DEF DbType, TableType, RowType
<1>4. upset \subseteq 0..MaxNow
  BY DEF ClockType, Times
<1> QED BY <1>1, <1>2, <1>3, <1>4 DEF TypeOK, ClockType

\* What is aggregated has windows that fill those of what it is aggregated to.
LEMMA TiersFit ==
  ASSUME NEW src, NEW dst, <<src, dst>> \in Tiers
  PROVE  /\ src \in Tables /\ dst \in Tables
         /\ Width[src] \in Nat \ {0} /\ Width[dst] \in Nat \ {0}
         /\ Width[dst] % Width[src] = 0
PROOF
<1>1. Fifteen % FiveMin = 0 /\ Hour % Fifteen = 0 /\ Day % Hour = 0
  BY DownsamplingAssumption DEF DownsamplingAssumption
<1>2. Hour % FiveMin = 0
  BY <1>1, Constants, MultipleOfMultiple
<1>3. FiveMin % 1 = 0 /\ Hour % 1 = 0
  BY Constants, SelfMultiple
<1>4. src \in Tables /\ dst \in Tables
  BY DEF Tiers, Tables
<1>5. Width[dst] % Width[src] = 0
  BY <1>1, <1>2, <1>3 DEF Tiers, Width
<1> QED BY <1>4, <1>5, WidthPositive

LEMMA WithType ==
  ASSUME NEW t \in Tables, NEW table, TableType(t, table), NEW key, NEW rows,
         RowType(t, key, rows)
  PROVE  TableType(t, With(table, key, rows))
PROOF
<1> SUFFICES ASSUME NEW k \in DOMAIN table \cup {key}
             PROVE  RowType(t, k, IF k = key THEN rows ELSE table[k])
  BY DEF TableType, With
<1> QED BY DEF TableType

\* The rows of one table change.
LEMMA TableChange ==
  ASSUME NEW d, DbType(d), NEW t \in Tables, NEW table, TableType(t, table)
  PROVE  DbType([d EXCEPT ![t] = table])
PROOF
<1>1. [d EXCEPT ![t] = table] = [s \in Tables |-> IF s = t THEN table ELSE d[s]]
  BY DEF DbType
<1> QED BY <1>1 DEF DbType

LEMMA CountedType ==
  ASSUME DbType(db), NEW src, NEW dst, <<src, dst>> \in Tiers,
         NEW from \in Int, NEW end \in Int, end % Width[src] = 0
  PROVE  Counted(src, dst, from, end - 1) \subseteq {x \in Nat : from <= x /\ x < end}
PROOF
<1> DEFINE keys == Between(src, from, end - 1)
           w == Width[src]
<1>1. w \in Nat \ {0} /\ end % w = 0 /\ src \in Tables
  BY TiersFit
<1>2. ASSUME NEW k \in keys, NEW S \in ToSet(db[src][k]), NEW x \in S
      PROVE  x \in Nat /\ from <= x /\ x < end
  <2>1. k \in DOMAIN db[src] /\ from <= k /\ k <= end - 1
    BY DEF Between
  <2>2. RowType(src, k, db[src][k])
    BY <1>1, <2>1 DEF DbType, TableType
  <2>3. k \in Nat /\ k % w = 0
    BY <2>2, Constants DEF RowType, Times
  <2>4. S \subseteq k..(k + w - 1)
    <3>1. db[src][k] \in Seq(SUBSET (k..(k + w - 1)))
      BY <2>2 DEF RowType
    <3>2. PICK i \in DOMAIN db[src][k] : S = db[src][k][i]
      BY DEF ToSet
    <3>3. i \in 1..Len(db[src][k])
      BY <3>1, <3>2, LenProperties
    <3> QED BY <3>1, <3>2, <3>3, ElementOfSeq
  <2> HIDE DEF keys, w
  <2>5. k + w <= end
    <3>1. k \in Int /\ k < end
      BY <2>1, <2>3
    <3> QED BY <1>1, <2>3, <3>1, MultipleGap
  <2> QED BY <1>1, <2>1, <2>3, <2>4, <2>5
<1>3. \A some \in SUBSET keys : RowsOf(src, some) \subseteq {x \in Nat : from <= x /\ x < end}
  <2> HIDE DEF keys
  <2> QED BY <1>2 DEF RowsOf
<1>4. (IF dst = "agent15" THEN {k \in keys : \A j \in keys : j <= k} ELSE keys) \in SUBSET keys
  OBVIOUS
<1> HIDE DEF keys
<1> QED BY <1>3, <1>4 DEF Counted, keys

LEMMA AggregateType ==
  ASSUME DbType(db), NEW src, NEW dst, <<src, dst>> \in Tiers, NEW at \in Times
  PROVE  DbType(AggregateRows(src, dst, at))
PROOF
<1> DEFINE w == Width[dst]
           end == Truncate(at, w)
           start == end - w
           raw == Counted(src, dst, start, end - 1)
           old == IF start \in DOMAIN db[dst] /\ dst \notin Unique THEN db[dst][start] ELSE <<>>
<1>1. w \in Nat \ {0} /\ Width[src] \in Nat \ {0} /\ w % Width[src] = 0 /\ dst \in Tables
  BY TiersFit
<1>2. at \in Nat /\ at <= MaxNow
  BY Constants DEF Times
<1>3. end \in Nat /\ end <= at /\ end % w = 0
  BY <1>1, <1>2, TruncateType
<1>4. AggregateRows(src, dst, at) =
        IF raw = {} THEN db ELSE [db EXCEPT ![dst] = With(db[dst], start, Append(old, raw))]
  BY DEF AggregateRows
<1>5. CASE raw = {}
  BY <1>4, <1>5
<1>6. CASE raw # {}
  <2>1. end % Width[src] = 0
    <3> HIDE DEF end, w
    <3> QED BY <1>1, <1>3, MultipleOfMultiple
  <2>2. raw \subseteq {x \in Nat : start <= x /\ x < end}
    <3> HIDE DEF end
    <3>1. end \in Int /\ start \in Int
      BY <1>1, <1>3
    <3> HIDE DEF start
    <3> QED BY <2>1, <3>1, CountedType
  <2> HIDE DEF raw
  <2>3. end > 0
    <3>1. end \in Int
      BY <1>3
    <3>2. PICK x \in raw : TRUE
      BY <1>6
    <3> HIDE DEF end, start
    <3>3. x \in Nat /\ x < end
      BY <2>2
    <3> QED BY <3>1, <3>3
  <2>4. w <= end
    <3> HIDE DEF end, w
    <3>1. 0 % w = 0
      BY <1>1, SelfMultiple
    <3>2. 0 + w <= end
      BY <1>1, <1>3, <2>3, <3>1, MultipleGap
    <3> QED BY <1>1, <3>2
  <2>5. start \in Times /\ start % w = 0
    <3> HIDE DEF end, w
    <3>1. w % w = 0
      BY <1>1, SelfMultiple
    <3>2. end \in Int /\ w \in Int /\ w \in Nat \ {0} /\ end % w = 0
      BY <1>1, <1>3
    <3>3. (end - w) % w = 0
      BY <3>1, <3>2, MultipleDifference
    <3>4. end - w \in Times
      BY <1>1, <1>2, <1>3, <2>4, Constants DEF Times
    <3> QED BY <3>3, <3>4
  <2>6. raw \in SUBSET (start..(start + w - 1))
    <3> HIDE DEF end, w
    <3> QED BY <1>1, <1>3, <2>2
  <2> HIDE DEF start
  <2>7. old \in Seq(SUBSET (start..(start + w - 1)))
    <3>1. CASE start \in DOMAIN db[dst] /\ dst \notin Unique
      <4>1. RowType(dst, start, db[dst][start])
        BY <1>1, <3>1 DEF DbType, TableType
      <4> QED BY <3>1, <4>1 DEF RowType
    <3>2. CASE ~(start \in DOMAIN db[dst] /\ dst \notin Unique)
      BY <3>2
    <3> QED BY <3>1, <3>2
  <2>8. RowType(dst, start, Append(old, raw))
    <3> DEFINE some == SUBSET (start..(start + w - 1))
    <3> HIDE DEF some, old
    <3>1. raw \in some /\ old \in Seq(some)
      BY <2>6, <2>7 DEF some
    <3>2. Append(old, raw) \in Seq(some)
      BY <3>1
    <3> QED BY <2>5, <3>2 DEF RowType, some
  <2>9. TableType(dst, With(db[dst], start, Append(old, raw)))
    <3>1. TableType(dst, db[dst])
      BY <1>1 DEF DbType
    <3> HIDE DEF old
    <3> QED BY <1>1, <2>8, <3>1, WithType
  <2>10. AggregateRows(src, dst, at) =
           [db EXCEPT ![dst] = With(db[dst], start, Append(old, raw))]
    BY <1>4, <1>6
  <2> HIDE DEF old, w
  <2> DEFINE table == With(db[dst], start, Append(old, raw))
  <2>11. TableType(dst, table) /\ AggregateRows(src, dst, at) = [db EXCEPT ![dst] = table]
    BY <2>9, <2>10
  <2> HIDE DEF table
  <2>12. DbType([db EXCEPT ![dst] = table])
    BY <1>1, <2>11, TableChange
  <2> QED BY <2>11, <2>12
<1> QED BY <1>5, <1>6

LEMMA DeleteType ==
  ASSUME DbType(db), NEW t \in Tables, NEW at
  PROVE  DbType(DeleteOld(t, at))
PROOF
<1> DEFINE kept == {k \in DOMAIN db[t] : k >= at - Keep[t]}
           table == [k \in kept |-> db[t][k]]
<1>1. DeleteOld(t, at) = [db EXCEPT ![t] = table]
  BY DEF DeleteOld
<1>2. TableType(t, table)
  <2>1. DOMAIN table = kept /\ \A k \in kept : table[k] = db[t][k]
    OBVIOUS
  <2>2. \A k \in kept : k \in DOMAIN db[t]
    OBVIOUS
  <2>3. TableType(t, db[t])
    BY DEF DbType
  <2> HIDE DEF kept, table
  <2> QED BY <2>1, <2>2, <2>3 DEF TableType
<1> HIDE DEF table
<1>3. DbType([db EXCEPT ![t] = table])
  BY <1>2, TableChange
<1> QED BY <1>1, <1>3

LEMMA InsertType ==
  ASSUME NEW d, DbType(d), NEW time \in Times
  PROVE  DbType(InsertCheckResult(d, time)) /\ DbType(InsertAgentMetrics(d, time))
PROOF
<1>1. "checks" \in Tables /\ "agent" \in Tables /\ Width["checks"] = 1 /\ Width["agent"] = 1
  BY DEF Tables, Width
<1>2. ASSUME NEW t \in {"checks", "agent"}
      PROVE  TableType(t, With(d[t], time, <<{time}>>))
  <2>1. time \in Nat /\ {time} \in SUBSET (time..(time + 1 - 1)) /\ time % 1 = 0
    BY Constants DEF Times
  <2>2. <<{time}>> \in Seq(SUBSET (time..(time + 1 - 1)))
    BY <2>1
  <2>3. RowType(t, time, <<{time}>>)
    BY <1>1, <2>1, <2>2 DEF RowType
  <2>4. TableType(t, d[t]) /\ t \in Tables
    BY <1>1 DEF DbType
  <2> QED BY <2>3, <2>4, WithType
<1> QED BY <1>1, <1>2, TableChange DEF InsertCheckResult, InsertAgentMetrics

LEMMA PeriodPositive == \A l \in Loops : Period[l] \in Nat \ {0}
BY Constants DEF Period, Loops

LEMMA FreshFire ==
  ASSUME NEW start \in Nat, NEW l \in Loops
  PROVE  /\ FreshLoops(start)[l].todo = <<>>
         /\ FreshLoops(start)[l].at = start
         /\ FreshLoops(start)[l].fire \in Nat
         /\ FreshLoops(start)[l].fire - Period[l] <= start
         /\ start < FreshLoops(start)[l].fire
         /\ l = "daily" => FreshLoops(start)[l].fire % Day = 0
         /\ l # "daily" => FreshLoops(start)[l].fire = start + Period[l]
PROOF
<1>1. /\ FreshLoops(start)[l].todo = <<>>
      /\ FreshLoops(start)[l].at = start
      /\ FreshLoops(start)[l].fire = (IF l = "daily" THEN Truncate(start, Day) ELSE start) + Period[l]
  BY DEF FreshLoops
<1>2. /\ Truncate(start, Day) \in Nat /\ Truncate(start, Day) <= start
      /\ start < Truncate(start, Day) + Day /\ Truncate(start, Day) % Day = 0
  BY Constants, TruncateType
<1>3. l = "daily" => Period[l] = Day
  BY DEF Period
<1> DEFINE m == Truncate(start, Day)
<1> HIDE DEF m
<1>4. (m + Day) % Day = 0
  <2>1. m \in Int /\ m % Day = 0
    BY <1>2 DEF m
  <2>2. Day \in Int /\ Day \in Nat \ {0} /\ Day % Day = 0
    BY Constants, SelfMultiple
  <2> QED BY <2>1, <2>2, MultipleSum
<1>5. Period[l] \in Nat \ {0}
  BY PeriodPositive
<1>6. CASE l = "daily"
  BY <1>1, <1>2, <1>3, <1>4, <1>5, <1>6 DEF m
<1>7. CASE l # "daily"
  BY <1>1, <1>5, <1>7
<1> QED BY <1>6, <1>7

\* When a run begins, the next tick is set to a later time.
LEMMA RunFire ==
  ASSUME now \in Nat, NEW l \in Loops, loop[l].fire \in Nat, Busy(l)
  PROVE  /\ loop[l].todo # <<>> => Run(l) = loop[l]
         /\ loop[l].todo = <<>> =>
              /\ loop[l].fire <= now
              /\ Run(l).todo = Work[l]
              /\ Run(l).at = now
              /\ l # "daily" => Run(l).fire = loop[l].fire + Period[l]
              /\ l = "daily" => Run(l).fire = Truncate(now, Day) + Day
         /\ Run(l).fire \in Nat
PROOF
<1>1. CASE loop[l].todo # <<>>
  BY <1>1 DEF Run
<1>2. CASE loop[l].todo = <<>>
  <2>1. /\ Run(l).todo = Work[l]
        /\ Run(l).at = now
        /\ Run(l).fire = (IF l = "daily" THEN Truncate(now, Day) ELSE loop[l].fire) + Period[l]
    BY <1>2 DEF Run
  <2>2. loop[l].fire <= now
    BY <1>2 DEF Busy
  <2>3. Truncate(now, Day) \in Nat /\ Period[l] \in Nat
    BY Constants, TruncateType, PeriodPositive
  <2>4. l = "daily" => Period[l] = Day
    BY DEF Period
  <2> QED BY <1>2, <2>1, <2>2, <2>3, <2>4
<1> QED BY <1>1, <1>2

\* A step of a goroutine changes what it has left, and no other goroutine's.
LEMMA LoopStep ==
  ASSUME RunInv, NEW l \in Loops, loop' = [loop EXCEPT ![l] = Rest(Run(l))]
  PROVE  /\ loop'[l].todo = Tail(Run(l).todo)
         /\ loop'[l].at = Run(l).at
         /\ loop'[l].fire = Run(l).fire
         /\ \A k \in Loops : k # l => loop'[k] = loop[k]
BY DEF RunInv, Rest

TypeInv == RunInv /\ DbType(db) /\ ClockType

LEMMA TypeInvInit == Init => TypeInv
PROOF
<1> SUFFICES ASSUME Init PROVE TypeInv
  OBVIOUS
<1>1. Starts \subseteq Times /\ MaxNow \in Nat /\ MaxFaults \in Nat
  BY DownsamplingAssumption DEF DownsamplingAssumption, Times
<1>2. now \in Times /\ started = now /\ 0..now \subseteq Times /\ now \in Nat
  BY <1>1 DEF Init, Times
<1>3. ClockType
  <2>1. \A l \in Loops : loop[l].fire \in Nat
    BY <1>2, FreshFire DEF Init
  <2> QED BY <1>1, <1>2, <2>1 DEF Init, ClockType
<1>4. DbType(db)
  <2>1. db = [t \in Tables |-> Empty]
    BY DEF Init
  <2>2. \A t \in Tables : TableType(t, Empty)
    BY DEF TableType, Empty
  <2> QED BY <2>1, <2>2 DEF DbType
<1> QED BY <1>3, <1>4, InvInit DEF TypeInv

LEMMA ClockTypeStep == TypeInv /\ [Next]_vars => ClockType'
PROOF
<1> SUFFICES ASSUME TypeInv, [Next]_vars PROVE ClockType'
  OBVIOUS
<1>a. now \in Nat /\ RunInv /\ ClockType
  BY DEF TypeInv, RunInv
<1>b. ASSUME Fault PROVE faults' \in 0..MaxFaults
  BY <1>a, <1>b, DownsamplingAssumption DEF Fault, ClockType, DownsamplingAssumption
<1>1. ASSUME NEW l \in Loops, Statement(l) \/ StatementFails(l) PROVE ClockType'
  <2>1. Busy(l) /\ loop' = [loop EXCEPT ![l] = Rest(Run(l))]
    BY <1>1 DEF Statement, StatementFails
  <2>2. \A k \in Loops : loop'[k].fire \in Nat
    BY <1>a, <2>1, LoopStep, RunFire DEF ClockType
  <2>3. UNCHANGED <<now, up, started, owed>> /\ upset' \subseteq upset \cup {now}
    BY <1>1 DEF Statement, StatementFails
  <2>4. faults' \in 0..MaxFaults
    BY <1>1, <1>a, <1>b DEF Statement, StatementFails, ClockType
  <2> QED BY <1>a, <2>2, <2>3, <2>4 DEF ClockType
<1>2. CASE Crash
  <2>1. \A k \in Loops : loop'[k].fire = loop[k].fire
    BY <1>2 DEF Crash
  <2>2. faults' \in 0..MaxFaults
    BY <1>2, <1>b DEF Crash
  <2> QED BY <1>2, <1>a, <2>1, <2>2 DEF Crash, ClockType
<1>3. CASE Start
  <2>1. \A k \in Loops : loop'[k].fire \in Nat
    BY <1>3, <1>a, FreshFire DEF Start
  <2> QED BY <1>3, <1>a, <2>1 DEF Start, ClockType
<1>4. CASE Pass \/ PassUnpushed \/ PassDown
  <2>1. now' = now + 1 /\ now + 1 \in Times \cup FaultTimes /\ UNCHANGED <<up, started, loop>>
    BY <1>4 DEF Pass, PassUnpushed, PassDown
  <2>2. FaultTimes \subseteq Times
    BY DownsamplingAssumption DEF DownsamplingAssumption, Times
  <2>3. owed' \subseteq owed \cup {now + 1} /\ upset' \subseteq upset \cup {now, now + 1}
    BY <1>4 DEF Pass, PassUnpushed, PassDown
  <2>4. faults' \in 0..MaxFaults
    BY <1>4, <1>a, <1>b DEF Pass, PassUnpushed, PassDown, ClockType
  <2> QED BY <1>a, <2>1, <2>2, <2>3, <2>4 DEF ClockType
<1>5. CASE Deliver \/ UNCHANGED vars
  BY <1>5, <1>a DEF Deliver, vars, ClockType
<1> QED BY <1>1, <1>2, <1>3, <1>4, <1>5 DEF Next

LEMMA DbTypeStep == TypeInv /\ [Next]_vars => DbType(db)'
PROOF
<1> SUFFICES ASSUME TypeInv, [Next]_vars PROVE DbType(db')
  BY DEF DbType, TableType, RowType
<1>a. RunInv /\ DbType(db) /\ now \in Times /\ owed \subseteq Times
  BY DEF TypeInv, ClockType
<1>1. ASSUME NEW l \in Loops, Statement(l) PROVE DbType(db')
  <2> DEFINE s == Head(Run(l).todo)
             at == Run(l).at
  <2>1. s \in Legal /\ at \in Nat /\ at <= now /\ db' = Execute(s, at)
    BY <1>1, <1>a, RunLegal DEF Statement
  <2> HIDE DEF s, at
  <2>2. at \in Times
    BY <1>a, <2>1, Constants DEF Times
  <2>3. CASE s.do = "aggregate"
    <3>1. db' = AggregateRows(s.src, s.dst, at) /\ <<s.src, s.dst>> \in Tiers
      BY <2>1, <2>3 DEF Execute, Legal
    <3> QED BY <1>a, <2>2, <3>1, AggregateType
  <2>4. CASE s.do # "aggregate"
    <3>1. db' = DeleteOld(s.src, at) /\ s.src \in Tables
      BY <2>1, <2>4 DEF Execute, Legal, Statements
    <3> QED BY <1>a, <3>1, DeleteType
  <2> QED BY <2>3, <2>4
<1>2. CASE \/ \E l \in Loops : StatementFails(l)
           \/ Crash \/ Start \/ PassDown \/ UNCHANGED vars
  BY <1>2, <1>a DEF StatementFails, Crash, Start, PassDown, vars
<1>3. CASE Deliver
  <2>1. PICK t \in owed : db' = InsertAgentMetrics(db, t)
    BY <1>3 DEF Deliver
  <2> QED BY <1>a, <2>1, InsertType
<1>4. CASE Pass \/ PassUnpushed
  <2>1. now + 1 \in Times
    BY <1>4 DEF Pass, PassUnpushed
  <2>2. \/ db' = InsertCheckResult(db, now + 1)
        \/ db' = InsertAgentMetrics(InsertCheckResult(db, now + 1), now + 1)
    BY <1>4 DEF Pass, PassUnpushed
  <2>3. DbType(InsertCheckResult(db, now + 1))
    BY <1>a, <2>1, InsertType
  <2>4. DbType(InsertAgentMetrics(InsertCheckResult(db, now + 1), now + 1))
    BY <2>1, <2>3, InsertType
  <2> QED BY <2>2, <2>3, <2>4
<1> QED BY <1>1, <1>2, <1>3, <1>4 DEF Next

LEMMA TypeInvariant == Spec => []TypeInv
PROOF
<1>1. TypeInv /\ [Next]_vars => TypeInv'
  <2>1. TypeInv /\ [Next]_vars => RunInv'
    BY RunInvStep DEF TypeInv
  <2>2. TypeInv /\ [Next]_vars => DbType(db)'
    BY DbTypeStep
  <2> QED BY <2>1, <2>2, ClockTypeStep DEF TypeInv
<1> QED BY <1>1, TypeInvInit, PTL DEF Spec

\* Every variable keeps its type, for every width of the windows: each row
\* is about raw rows of its own window only, for a window is aggregated from windows
\* that lie in it.
THEOREM TypeCorrect == Spec => []TypeOK
PROOF
<1>1. TypeInv => TypeOK
  BY TypeFromParts DEF TypeInv
<1> QED BY <1>1, TypeInvariant, PTL

-----------------------------------------------------------------------------
\* The ticks.

\* The tick before the next one: that of the last run, or the start.
LastTick(l) == loop[l].fire - Period[l]

\* The hub's times are in order, and whatever is late was wrong: a run that is
\* under way began at this very time, which is its tick.
LoopInv(l) ==
  /\ LastTick(l) <= now
  /\ up /\ loop[l].fire < now => now \in upset
  /\ loop[l].todo # <<>> /\ now \notin upset => loop[l].at = now /\ LastTick(l) = now

TickInv ==
  /\ started \in upset /\ started <= now
  /\ ~up => now \in upset
  /\ \A t \in owed : t <= now /\ now - t <= MaxLate
  /\ loop["daily"].fire % Day = 0
  /\ \A l \in Loops : LoopInv(l)

\* What a run that begins does to the next tick.
LEMMA RunTick ==
  ASSUME TypeInv, TickInv, up, NEW l \in Loops, Busy(l)
  PROVE  /\ Run(l).fire - Period[l] <= now
         /\ LastTick(l) <= Run(l).fire - Period[l]
         /\ l = "daily" => Run(l).fire % Day = 0
         /\ Run(l).fire < now => now \in upset
         /\ now \notin upset => Run(l).at = now /\ Run(l).fire - Period[l] = now
         /\ loop[l].todo = <<>> /\ now \notin upset => loop[l].fire = now
PROOF
<1>1. /\ now \in Nat /\ loop[l].fire \in Nat /\ loop[l].at \in Nat
      /\ Period[l] \in Nat \ {0} /\ Run(l).fire \in Nat
  BY RunFire, PeriodPositive DEF TypeInv, RunInv, ClockType
<1>2. LoopInv(l) /\ loop["daily"].fire % Day = 0
  BY DEF TickInv
<1>3. CASE loop[l].todo # <<>>
  <2>1. Run(l) = loop[l]
    BY <1>1, <1>3, RunFire
  <2> QED BY <1>1, <1>2, <1>3, <2>1 DEF LoopInv, LastTick
<1>4. CASE loop[l].todo = <<>>
  <2>1. /\ loop[l].fire <= now
        /\ Run(l).at = now
        /\ l # "daily" => Run(l).fire = loop[l].fire + Period[l]
        /\ l = "daily" => Run(l).fire = Truncate(now, Day) + Day
    BY <1>1, <1>4, RunFire
  <2>2. now \notin upset => loop[l].fire = now
    BY <1>1, <1>2, <2>1 DEF LoopInv
  <2>3. CASE l # "daily"
    BY <1>1, <1>2, <1>4, <2>1, <2>2, <2>3 DEF LoopInv, LastTick
  <2>4. CASE l = "daily"
    <3> DEFINE m == Truncate(now, Day)
               fire == loop[l].fire
    <3>1. m \in Nat /\ m <= now /\ now < m + Day /\ m % Day = 0
      BY <1>1, Constants, TruncateType
    <3>2. fire \in Nat /\ fire % Day = 0 /\ fire <= now /\ Day \in Nat \ {0} /\ Period[l] = Day
      BY <1>1, <1>2, <2>1, <2>4, Constants DEF Period
    <3>3. Run(l).fire = m + Day
      BY <2>1, <2>4
    <3>4. LastTick(l) = fire - Day
      BY <3>2 DEF LastTick
    <3> HIDE DEF m, fire
    <3>5. fire <= m
      <4>1. ASSUME m < fire PROVE FALSE
        <5>1. /\ m \in Int /\ fire \in Int /\ Day \in Nat \ {0}
              /\ m % Day = 0 /\ fire % Day = 0 /\ m < fire
          BY <3>1, <3>2, <4>1
        <5>2. m + Day <= fire
          BY <5>1, MultipleGap
        <5> QED BY <1>1, <3>1, <3>2, <5>2
      <4> QED BY <3>1, <3>2, <4>1
    <3>6. (m + Day) % Day = 0
      <4>1. m \in Int /\ Day \in Int /\ Day % Day = 0
        BY <3>1, <3>2, SelfMultiple
      <4> QED BY <3>1, <3>2, <4>1, MultipleSum
    <3>7. now \notin upset => m = now
      BY <1>1, <2>2, <3>1, <3>2, <3>5 DEF fire
    <3>8. now < Run(l).fire /\ Run(l).fire - Period[l] = m
      BY <1>1, <3>1, <3>2, <3>3
    <3> QED BY <1>1, <1>4, <2>1, <2>2, <3>1, <3>2, <3>3, <3>4, <3>5, <3>6, <3>7, <3>8
  <2> QED BY <2>3, <2>4
<1> QED BY <1>3, <1>4

LEMMA TickInvInit == Init => TickInv
PROOF
<1> SUFFICES ASSUME Init PROVE TickInv
  OBVIOUS
<1>1. now \in Nat
  BY InvInit DEF RunInv
<1>2. ASSUME NEW l \in Loops PROVE LoopInv(l)
  BY <1>1, FreshFire DEF Init, LoopInv, LastTick
<1>3. loop["daily"].fire % Day = 0
  BY <1>1, FreshFire DEF Init, Loops
<1>4. started \in upset /\ started <= now
  BY <1>1 DEF Init
<1> QED BY <1>2, <1>3, <1>4 DEF Init, TickInv

LEMMA TickInvStep == TypeInv /\ TickInv /\ [Next]_vars => TickInv'
PROOF
<1> SUFFICES ASSUME TypeInv, TickInv, [Next]_vars PROVE TickInv'
  OBVIOUS
<1>a. /\ now \in Nat /\ RunInv /\ MaxLate \in Nat
      /\ \A l \in Loops : loop[l].fire \in Nat /\ Period[l] \in Nat \ {0}
      /\ \A t \in owed : t \in Nat
  BY PeriodPositive, DownsamplingAssumption DEF TypeInv, RunInv, ClockType, DownsamplingAssumption
<1>b. /\ started \in upset /\ started <= now /\ (~up => now \in upset)
      /\ \A t \in owed : t <= now /\ now - t <= MaxLate
      /\ loop["daily"].fire % Day = 0 /\ "daily" \in Loops
      /\ \A l \in Loops : LoopInv(l)
  BY DEF TickInv, Loops
<1>1. ASSUME NEW l \in Loops, Statement(l) \/ StatementFails(l) PROVE TickInv'
  <2>1. /\ Busy(l) /\ up /\ loop' = [loop EXCEPT ![l] = Rest(Run(l))]
        /\ UNCHANGED <<now, up, started, owed>> /\ upset \subseteq upset'
    BY <1>1 DEF Statement, StatementFails
  <2>2. /\ loop'[l].at = Run(l).at /\ loop'[l].fire = Run(l).fire
        /\ \A k \in Loops : k # l => loop'[k] = loop[k]
    BY <1>a, <2>1, LoopStep
  <2>3. LoopInv(l)'
    BY <1>a, <2>1, <2>2, RunTick DEF LoopInv, LastTick
  <2>4. ASSUME NEW k \in Loops, k # l PROVE LoopInv(k)'
    BY <1>b, <2>1, <2>2, <2>4 DEF LoopInv, LastTick
  <2>5. loop'["daily"].fire % Day = 0
    BY <1>b, <2>1, <2>2, RunTick
  <2> QED BY <1>b, <2>1, <2>3, <2>4, <2>5 DEF TickInv
<1>2. CASE Crash
  <2>1. ASSUME NEW k \in Loops PROVE LoopInv(k)'
    <3>1. loop'[k].todo = <<>> /\ loop'[k].fire = loop[k].fire /\ ~up' /\ now' = now
      BY <1>2 DEF Crash
    <3> QED BY <1>b, <3>1 DEF LoopInv, LastTick
  <2>2. loop'["daily"].fire = loop["daily"].fire
    BY <1>2, <1>b DEF Crash
  <2> QED BY <1>2, <1>b, <2>1, <2>2 DEF Crash, TickInv
<1>3. CASE Start
  <2>1. loop' = FreshLoops(now) /\ now' = now
    BY <1>3 DEF Start
  <2>2. ASSUME NEW k \in Loops PROVE LoopInv(k)'
    <3>1. /\ loop'[k].todo = <<>> /\ loop'[k].fire \in Nat
          /\ loop'[k].fire - Period[k] <= now /\ now < loop'[k].fire
      BY <1>a, <2>1, FreshFire
    <3> QED BY <1>a, <2>1, <3>1 DEF LoopInv, LastTick
  <2>3. loop'["daily"].fire % Day = 0
    BY <1>a, <1>b, <2>1, FreshFire
  <2> QED BY <1>3, <1>a, <1>b, <2>2, <2>3 DEF Start, TickInv
<1>4. CASE Pass \/ PassUnpushed \/ PassDown
  <2>1. now' = now + 1 /\ UNCHANGED <<up, started, loop>> /\ upset \subseteq upset'
    BY <1>4 DEF Pass, PassUnpushed, PassDown
  <2>2. Quiet \/ now + 1 \in upset'
    BY <1>4 DEF Pass, PassUnpushed, PassDown
  <2>3. ASSUME NEW k \in Loops PROVE LoopInv(k)'
    <3>1. LastTick(k)' = LastTick(k) /\ LastTick(k) <= now
      BY <1>b, <2>1 DEF LoopInv, LastTick
    <3>2. LastTick(k) \in Int
      BY <1>a DEF LastTick
    <3>3. CASE now + 1 \in upset'
      BY <1>a, <2>1, <3>1, <3>2, <3>3 DEF LoopInv
    <3>4. CASE Quiet
      <4>1. loop[k].todo = <<>> /\ now < loop[k].fire
        BY <1>a, <3>4 DEF Quiet, Busy
      <4> QED BY <1>a, <2>1, <3>1, <3>2, <4>1 DEF LoopInv
    <3> QED BY <2>2, <3>3, <3>4
  <2>4. ASSUME NEW t \in owed', t # now + 1 PROVE t \in owed /\ now + 1 - t < MaxLate
    <3>1. CASE Pass
      BY <2>4, <3>1, <1>a DEF Pass
    <3>2. CASE PassUnpushed
      BY <2>4, <3>2, <1>a DEF PassUnpushed
    <3>3. CASE PassDown
      BY <2>4, <3>3, <1>a DEF PassDown
    <3> QED BY <1>4, <3>1, <3>2, <3>3
  <2>5. ASSUME NEW t \in owed' PROVE t <= now' /\ now' - t <= MaxLate
    <3>1. CASE t = now + 1
      BY <1>a, <2>1, <3>1
    <3>2. CASE t # now + 1
      BY <1>a, <1>b, <2>1, <2>4, <3>2
    <3> QED BY <3>1, <3>2
  <2>6. ~up' => now' \in upset'
    <3>1. CASE Pass \/ PassUnpushed
      BY <3>1 DEF Pass, PassUnpushed
    <3>2. CASE PassDown
      BY <3>2 DEF PassDown
    <3> QED BY <1>4, <3>1, <3>2
  <2>7. started' \in upset' /\ started' <= now'
    <3>1. started \in Nat
      BY Constants DEF TypeInv, ClockType, Times
    <3> QED BY <1>a, <1>b, <2>1, <3>1
  <2>8. loop'["daily"].fire % Day = 0
    BY <1>b, <2>1
  <2>9. \A k \in Loops : LoopInv(k)'
    BY <2>3
  <2> QED BY <2>5, <2>6, <2>7, <2>8, <2>9 DEF TickInv
<1>5. CASE Deliver \/ UNCHANGED vars
  <2>1. UNCHANGED <<now, up, started, loop, upset>> /\ owed' \subseteq owed
    BY <1>5 DEF Deliver, vars
  <2>2. ASSUME NEW k \in Loops PROVE LoopInv(k)'
    BY <1>b, <2>1 DEF LoopInv, LastTick
  <2> QED BY <1>b, <2>1, <2>2 DEF TickInv
<1> QED BY <1>1, <1>2, <1>3, <1>4, <1>5 DEF Next

\* Time passes after a unit in which nothing was wrong, when the hub runs and all
\* is done.
LEMMA PassQuiet ==
  ASSUME TypeInv, TickInv, Pass \/ PassUnpushed \/ PassDown, now \notin upset'
  PROVE  Quiet
PROOF
<1>1. CASE Pass
  BY <1>1 DEF Pass
<1>2. CASE PassUnpushed
  BY <1>2 DEF PassUnpushed
<1>3. CASE PassDown
  <2>1. ~up /\ upset \subseteq upset'
    BY <1>3 DEF PassDown
  <2> QED BY <2>1 DEF TickInv
<1> QED BY <1>1, <1>2, <1>3

-----------------------------------------------------------------------------
\* The runs of a calm time.

\* What is left of a run of the hour.
HourlyLeft ==
  {<<>>, <<Delete("agent15")>>, <<Delete("agent5"), Delete("agent15")>>,
   <<Aggregate("agent5", "agentHour"), Delete("agent5"), Delete("agent15")>>,
   <<Delete("checks"), Aggregate("agent5", "agentHour"), Delete("agent5"), Delete("agent15")>>}

\* The run of the hour has not come to the hour of the agent yet.
Pending == Len(loop["hourly"].todo) >= 3

\* A run that did not begin at this time was wrong when it did.  The ticks come a
\* whole number of periods after the start.
OrderInv ==
  /\ loop["hourly"].todo \in HourlyLeft
  /\ \A l \in Loops : loop[l].todo # <<>> /\ loop[l].at # now => loop[l].at \in upset
  /\ \A l \in Loops \ {"daily"} : (loop[l].fire - started) % Period[l] = 0

LEMMA HourlyTail ==
  ASSUME NEW todo \in HourlyLeft, todo # <<>>
  PROVE  /\ Tail(todo) \in HourlyLeft
         /\ Len(Tail(todo)) = Len(todo) - 1 /\ Len(todo) \in 1..4
         /\ Head(todo) = Aggregate("agent5", "agentHour") <=> Len(todo) = 3
         /\ Head(todo).do = "aggregate" => Head(todo) = Aggregate("agent5", "agentHour")
         /\ Head(todo) = Delete("agent5") => Len(todo) = 2
         /\ Head(todo) # Delete("checkHour") /\ Head(todo) # Delete("agentHour")
PROOF
<1> DEFINE s1 == <<Delete("agent15")>>
           s2 == <<Delete("agent5"), Delete("agent15")>>
           s3 == <<Aggregate("agent5", "agentHour"), Delete("agent5"), Delete("agent15")>>
           s4 == <<Delete("checks"), Aggregate("agent5", "agentHour"), Delete("agent5"),
                   Delete("agent15")>>
<1>1. Head(s1) = Delete("agent15") /\ Tail(s1) = <<>> /\ Len(s1) = 1 /\ Len(Tail(s1)) = 0
  OBVIOUS
<1>2. Head(s2) = Delete("agent5") /\ Tail(s2) = s1 /\ Len(s2) = 2
  OBVIOUS
<1>3. Head(s3) = Aggregate("agent5", "agentHour") /\ Tail(s3) = s2 /\ Len(s3) = 3
  OBVIOUS
<1>4. Head(s4) = Delete("checks") /\ Tail(s4) = s3 /\ Len(s4) = 4
  OBVIOUS
<1>5. HourlyLeft = {<<>>, s1, s2, s3, s4}
  BY DEF HourlyLeft
<1> HIDE DEF s1, s2, s3, s4
<1>6. \A t : Delete(t).do # "aggregate" /\ Delete(t) # Aggregate("agent5", "agentHour")
  BY DEF Delete, Aggregate
<1>7. \A t, u : t # u => Delete(t) # Delete(u)
  BY DEF Delete
<1>8. Aggregate("agent5", "agentHour").do = "aggregate"
  BY DEF Aggregate
<1> DEFINE ok(head, tail, len) ==
             /\ tail \in HourlyLeft
             /\ Len(tail) = len - 1 /\ len \in 1..4
             /\ head = Aggregate("agent5", "agentHour") <=> len = 3
             /\ head.do = "aggregate" => head = Aggregate("agent5", "agentHour")
             /\ head = Delete("agent5") => len = 2
             /\ head # Delete("checkHour") /\ head # Delete("agentHour")
<1>9. ok(Delete("agent15"), <<>>, 1)
  BY <1>1, <1>5, <1>6, <1>7
<1>10. ok(Delete("agent5"), s1, 2)
  BY <1>1, <1>5, <1>6, <1>7
<1>11. ok(Aggregate("agent5", "agentHour"), s2, 3)
  BY <1>2, <1>5, <1>6
<1>12. ok(Delete("checks"), s3, 4)
  BY <1>3, <1>5, <1>6, <1>7
<1> HIDE DEF ok
<1>13. ok(Head(todo), Tail(todo), Len(todo))
  BY <1>1, <1>2, <1>3, <1>4, <1>5, <1>9, <1>10, <1>11, <1>12
<1> QED BY <1>13 DEF ok

LEMMA OrderInit == Init => OrderInv
PROOF
<1> SUFFICES ASSUME Init PROVE OrderInv
  OBVIOUS
<1>1. now \in Nat /\ "hourly" \in Loops
  BY InvInit DEF RunInv, Loops
<1>2. \A l \in Loops : loop[l].todo = <<>>
  BY <1>1, FreshFire DEF Init
<1>3. \A l \in Loops \ {"daily"} : loop[l].fire - started = Period[l]
  BY <1>1, FreshFire, PeriodPositive DEF Init
<1> QED BY <1>1, <1>2, <1>3, PeriodPositive, SelfMultiple DEF OrderInv, HourlyLeft

\* A goroutine goes on with its run.
LEMMA OrderRun ==
  ASSUME TypeInv, OrderInv, NEW l \in Loops, Busy(l), UNCHANGED <<now, started>>,
         upset \subseteq upset', loop' = [loop EXCEPT ![l] = Rest(Run(l))]
  PROVE  OrderInv'
PROOF
<1>1. /\ RunInv /\ now \in Nat /\ loop[l].fire \in Nat /\ started \in Nat
      /\ "hourly" \in Loops
  BY Constants DEF TypeInv, RunInv, ClockType, Loops, Times
<1>2. /\ loop'[l].todo = Tail(Run(l).todo) /\ loop'[l].at = Run(l).at
      /\ loop'[l].fire = Run(l).fire /\ \A k \in Loops : k # l => loop'[k] = loop[k]
  BY <1>1, LoopStep
<1>3. loop'["hourly"].todo \in HourlyLeft
  <2>1. CASE l # "hourly"
    BY <1>1, <1>2, <2>1 DEF OrderInv
  <2>2. CASE l = "hourly" /\ loop[l].todo = <<>>
    <3>1. Tail(Work["hourly"]) \in HourlyLeft
      BY DEF Work, HourlyLeft
    <3> QED BY <1>1, <1>2, <2>2, <3>1, RunFire
  <2>3. CASE l = "hourly" /\ loop[l].todo # <<>>
    BY <1>1, <1>2, <2>3, RunFire, HourlyTail DEF OrderInv
  <2> QED BY <2>1, <2>2, <2>3
<1>4. ASSUME NEW k \in Loops, loop'[k].todo # <<>>, loop'[k].at # now' PROVE loop'[k].at \in upset'
  <2>1. CASE k # l
    BY <1>2, <1>4, <2>1 DEF OrderInv
  <2>2. CASE k = l
    <3>1. Run(l).at # now
      BY <1>2, <1>4, <2>2
    <3>2. Run(l) = loop[l] /\ loop[l].todo # <<>>
      BY <1>1, <3>1, RunFire
    <3> QED BY <1>2, <2>2, <3>1, <3>2 DEF OrderInv
  <2> QED BY <2>1, <2>2
<1>5. ASSUME NEW k \in Loops \ {"daily"} PROVE (loop'[k].fire - started') % Period[k] = 0
  <2>1. CASE loop'[k].fire = loop[k].fire
    BY <2>1 DEF OrderInv
  <2>2. CASE loop'[k].fire # loop[k].fire
    <3>1. k = l /\ loop'[k].fire = loop[k].fire + Period[k]
      BY <1>1, <1>2, <2>2, RunFire
    <3> DEFINE x == loop[k].fire - started
    <3>2. x \in Int /\ Period[k] \in Nat \ {0} /\ x % Period[k] = 0 /\ Period[k] % Period[k] = 0
      BY <1>1, <3>1, PeriodPositive, SelfMultiple DEF OrderInv
    <3>3. loop'[k].fire - started' = x + Period[k]
      BY <1>1, <3>1, <3>2
    <3> HIDE DEF x
    <3>4. (x + Period[k]) % Period[k] = 0
      BY <3>2, MultipleSum
    <3> QED BY <3>3, <3>4
  <2> QED BY <2>1, <2>2
<1> QED BY <1>3, <1>4, <1>5 DEF OrderInv

LEMMA OrderStep == TypeInv /\ TickInv /\ OrderInv /\ [Next]_vars => OrderInv'
PROOF
<1> SUFFICES ASSUME TypeInv, TickInv, OrderInv, [Next]_vars PROVE OrderInv'
  OBVIOUS
<1>a. now \in Nat /\ "hourly" \in Loops /\ \A l \in Loops : loop[l].at \in Nat
  BY DEF TypeInv, RunInv, Loops
<1>b. ASSUME UNCHANGED <<now, started, loop>>, upset \subseteq upset' PROVE OrderInv'
  BY <1>b DEF OrderInv
<1>1. ASSUME NEW l \in Loops, Statement(l) \/ StatementFails(l) PROVE OrderInv'
  <2>1. /\ Busy(l) /\ UNCHANGED <<now, started>> /\ upset \subseteq upset'
        /\ loop' = [loop EXCEPT ![l] = Rest(Run(l))]
    BY <1>1 DEF Statement, StatementFails
  <2> QED BY <2>1, OrderRun
<1>2. CASE Crash
  <2>1. /\ UNCHANGED started
        /\ \A l \in Loops : loop'[l].todo = <<>> /\ loop'[l].fire = loop[l].fire
    BY <1>2 DEF Crash
  <2> QED BY <1>a, <2>1 DEF OrderInv, HourlyLeft
<1>3. CASE Start
  <2>1. started' = now /\ loop' = FreshLoops(now)
    BY <1>3 DEF Start
  <2>2. \A l \in Loops : loop'[l].todo = <<>>
    BY <1>a, <2>1, FreshFire
  <2>3. \A l \in Loops \ {"daily"} : loop'[l].fire - started' = Period[l]
    BY <1>a, <2>1, FreshFire, PeriodPositive
  <2> QED BY <1>a, <2>2, <2>3, PeriodPositive, SelfMultiple DEF OrderInv, HourlyLeft
<1>4. CASE Deliver
  BY <1>4, <1>b DEF Deliver
<1>5. CASE Pass \/ PassUnpushed \/ PassDown
  <2>1. now' = now + 1 /\ UNCHANGED <<loop, started>> /\ upset \subseteq upset'
    BY <1>5 DEF Pass, PassUnpushed, PassDown
  <2>2. ASSUME NEW l \in Loops, loop[l].todo # <<>> PROVE loop[l].at \in upset'
    <3>1. ~Quiet
      BY <2>2 DEF Quiet, Busy
    <3>2. now \in upset'
      BY <1>5, <3>1, PassQuiet
    <3> QED BY <2>1, <2>2, <3>2 DEF OrderInv
  <2> QED BY <2>1, <2>2 DEF OrderInv
<1>6. CASE UNCHANGED vars
  BY <1>6, <1>b DEF vars
<1> QED BY <1>1, <1>2, <1>3, <1>4, <1>5, <1>6 DEF Next

-----------------------------------------------------------------------------
\* Retention.

\* Who deletes the old rows of a table.
DeleterOf(t) ==
  CASE t = "agent" -> "five" [] t \in {"checkHour", "agentHour"} -> "daily" [] OTHER -> "hourly"

\* The last tick's run has deleted what was old, and nothing was wrong since.
Cleaned(t) ==
  LET l == DeleterOf(t)
  IN /\ started < LastTick(l)
     /\ Calm(LastTick(l), now)
     /\ \A i \in 1..Len(loop[l].todo) : loop[l].todo[i] # Delete(t)

RetainInv ==
  \A t \in Tables \ Daily :
    Cleaned(t) => \A k \in DOMAIN db[t] : k >= LastTick(DeleterOf(t)) - Keep[t]

LEMMA DeleterType ==
  ASSUME NEW t \in Tables \ Daily
  PROVE  /\ DeleterOf(t) \in Loops
         /\ Delete(t) \in Later(DeleterOf(t))
         /\ Delete(t) # First(DeleterOf(t))
         /\ \E i \in 1..Len(Tail(Work[DeleterOf(t)])) : Tail(Work[DeleterOf(t)])[i] = Delete(t)
PROOF
<1> DEFINE deletes(l, s) == \E i \in 1..Len(Tail(Work[l])) : Tail(Work[l])[i] = s
<1>1. deletes("five", Delete("agent"))
  <2> DEFINE s == <<Delete("agent")>>
  <2>1. Tail(Work["five"]) = s
    BY DEF Work
  <2>2. s[1] = Delete("agent") /\ 1 \in 1..Len(s)
    OBVIOUS
  <2> QED BY <2>1, <2>2
<1>2. deletes("daily", Delete("checkHour")) /\ deletes("daily", Delete("agentHour"))
  <2> DEFINE s == <<Aggregate("agentHour", "agentDay"), Delete("checkHour"), Delete("agentHour")>>
  <2>1. Tail(Work["daily"]) = s
    BY DEF Work
  <2>2. s[2] = Delete("checkHour") /\ s[3] = Delete("agentHour") /\ {2, 3} \subseteq 1..Len(s)
    OBVIOUS
  <2> QED BY <2>1, <2>2
<1>3. \A x \in {"checks", "agent5", "agent15"} : deletes("hourly", Delete(x))
  <2> DEFINE s == <<Delete("checks"), Aggregate("agent5", "agentHour"),
                    Delete("agent5"), Delete("agent15")>>
  <2>1. Tail(Work["hourly"]) = s
    BY DEF Work
  <2>2. /\ s[1] = Delete("checks") /\ s[3] = Delete("agent5") /\ s[4] = Delete("agent15")
        /\ {1, 3, 4} \subseteq 1..Len(s)
    OBVIOUS
  <2> QED BY <2>1, <2>2
<1>4. deletes(DeleterOf(t), Delete(t))
  <2> HIDE DEF deletes
  <2> QED BY <1>1, <1>2, <1>3 DEF DeleterOf, Tables, Daily
<1>5. /\ DeleterOf(t) \in Loops
      /\ Delete(t) \in Later(DeleterOf(t))
      /\ Delete(t) # First(DeleterOf(t))
  <2> HIDE DEF deletes
  <2>1. CASE t = "agent"
    BY <2>1 DEF DeleterOf, Loops, Later, First, Delete, Aggregate
  <2>2. CASE t \in {"checkHour", "agentHour"}
    BY <2>2 DEF DeleterOf, Loops, Later, First, Delete, Aggregate
  <2>3. CASE t \in {"checks", "agent5", "agent15"}
    BY <2>3 DEF DeleterOf, Loops, Later, First, Delete, Aggregate
  <2> QED BY <2>1, <2>2, <2>3 DEF Tables, Daily
<1> QED BY <1>4, <1>5

\* Two windows of each table are kept, and for the agent's the late batches.
LEMMA KeepsWindows ==
  ASSUME NEW t \in Tables \ Daily
  PROVE  Keep[t] \in Nat /\ Width[t] \in Nat \ {0} /\ Keep[t] >= 2 * Width[t] - 1
PROOF
<1>1. Keep[t] \in Nat /\ Width[t] \in Nat \ {0}
  BY Constants, WidthPositive
<1>2. /\ Keep["checks"] >= Hour /\ Keep["agent"] >= MaxLate + FiveMin /\ MaxLate \in Nat
      /\ Keep["agent5"] >= 2 * FiveMin /\ Keep["agent15"] >= 2 * Fifteen
      /\ Keep["checkHour"] >= 2 * Hour /\ Keep["agentHour"] >= 2 * Hour
  BY DownsamplingAssumption DEF DownsamplingAssumption, RetentionFits
<1>3. FiveMin \in Nat \ {0} /\ Fifteen \in Nat \ {0} /\ Hour \in Nat \ {0}
  BY Constants
<1>4. /\ Width["checks"] = 1 /\ Width["agent"] = 1 /\ Width["agent5"] = FiveMin
      /\ Width["agent15"] = Fifteen /\ Width["checkHour"] = Hour /\ Width["agentHour"] = Hour
  BY DEF Width
<1>5. /\ Keep["checks"] \in Nat /\ Keep["agent"] \in Nat /\ Keep["agent5"] \in Nat
      /\ Keep["agent15"] \in Nat /\ Keep["checkHour"] \in Nat /\ Keep["agentHour"] \in Nat
  BY Constants DEF Tables, Daily
<1>6. t \in {"checks", "checkHour", "agent", "agent5", "agent15", "agentHour"}
  BY DEF Tables, Daily
<1> QED BY <1>1, <1>2, <1>3, <1>4, <1>5, <1>6

\* One row is inserted or replaced, at most.
Adds(before, after, table, key) ==
  /\ \A t \in Tables : t # table => after[t] = before[t]
  /\ DOMAIN after[table] \subseteq DOMAIN before[table] \cup {key}
  /\ \A k \in DOMAIN before[table] :
       k # key => k \in DOMAIN after[table] /\ after[table][k] = before[table][k]

LEMMA WithAdds ==
  ASSUME NEW d, d = [t \in Tables |-> d[t]], NEW table \in Tables, NEW key, NEW rows
  PROVE  LET after == [d EXCEPT ![table] = With(d[table], key, rows)]
         IN Adds(d, after, table, key) /\ key \in DOMAIN after[table] /\ after[table][key] = rows
PROOF
<1> DEFINE new == With(d[table], key, rows)
           after == [d EXCEPT ![table] = new]
<1>1. /\ DOMAIN new = DOMAIN d[table] \cup {key} /\ new[key] = rows
      /\ \A k \in DOMAIN d[table] : k # key => new[k] = d[table][k]
  BY DEF With
<1> HIDE DEF new
<1>2. after[table] = new /\ \A t \in Tables : t # table => after[t] = d[t]
  OBVIOUS
<1> HIDE DEF after
<1>3. Adds(d, after, table, key) /\ key \in DOMAIN after[table] /\ after[table][key] = rows
  BY <1>1, <1>2 DEF Adds
<1> QED BY <1>3 DEF after, new

\* The row that an aggregate inserts began less than two windows ago.
LEMMA AggregateAdds ==
  ASSUME TypeInv, NEW src, NEW dst, <<src, dst>> \in Tiers, NEW at \in Nat
  PROVE  LET start == Truncate(at, Width[dst]) - Width[dst]
         IN /\ start \in Int /\ start > at - 2 * Width[dst]
            /\ Adds(db, AggregateRows(src, dst, at), dst, start)
PROOF
<1> DEFINE w == Width[dst]
           end == Truncate(at, w)
           start == end - w
           raw == Counted(src, dst, start, end - 1)
           old == IF start \in DOMAIN db[dst] /\ dst \notin Unique THEN db[dst][start] ELSE <<>>
           rows == Append(old, raw)
           after == AggregateRows(src, dst, at)
<1>1. w \in Nat \ {0} /\ dst \in Tables
  BY TiersFit
<1>2. end \in Nat /\ end <= at /\ at < end + w
  BY <1>1, TruncateType
<1>3. start \in Int /\ start > at - 2 * w
  <2> HIDE DEF end, w
  <2> QED BY <1>1, <1>2
<1>4. after = IF raw = {} THEN db ELSE [db EXCEPT ![dst] = With(db[dst], start, rows)]
  BY DEF AggregateRows
<1>5. db = [t \in Tables |-> db[t]]
  BY DEF TypeInv, DbType
<1>6. Adds(db, db, dst, start)
  BY DEF Adds
<1>7. Adds(db, [db EXCEPT ![dst] = With(db[dst], start, rows)], dst, start)
  <2> HIDE DEF rows, start
  <2> QED BY <1>1, <1>5, WithAdds
<1>8. Adds(db, after, dst, start)
  <2> HIDE DEF rows, start, raw, after
  <2> QED BY <1>4, <1>6, <1>7
<1> QED BY <1>3, <1>8

LEMMA DeleteKey ==
  ASSUME TypeInv, NEW table \in Tables, NEW at
  PROVE  /\ \A t \in Tables : t # table => DeleteOld(table, at)[t] = db[t]
         /\ DOMAIN DeleteOld(table, at)[table] = {k \in DOMAIN db[table] : k >= at - Keep[table]}
         /\ \A k \in DOMAIN db[table] :
              k >= at - Keep[table] => DeleteOld(table, at)[table][k] = db[table][k]
PROOF
<1> DEFINE kept == {k \in DOMAIN db[table] : k >= at - Keep[table]}
           left == [k \in kept |-> db[table][k]]
<1>1. DeleteOld(table, at) = [db EXCEPT ![table] = left]
  BY DEF DeleteOld
<1>2. db = [t \in Tables |-> db[t]]
  BY DEF TypeInv, DbType
<1>3. DOMAIN left = kept /\ \A k \in kept : left[k] = db[table][k]
  OBVIOUS
<1> HIDE DEF left
<1>4. DeleteOld(table, at)[table] = left /\ \A t \in Tables : t # table => DeleteOld(table, at)[t] = db[t]
  BY <1>1, <1>2
<1> QED BY <1>3, <1>4

LEMMA KeyType ==
  ASSUME TypeInv, NEW t \in Tables \ Daily, NEW k \in DOMAIN db[t]
  PROVE  k \in Nat
PROOF
<1>1. TableType(t, db[t])
  BY DEF TypeInv, DbType
<1>2. RowType(t, k, db[t][k])
  BY <1>1 DEF TableType
<1> QED BY <1>2, Constants DEF RowType, Times

LEMMA InsertAdds ==
  ASSUME NEW d, d = [t \in Tables |-> d[t]], NEW time
  PROVE  /\ Adds(d, InsertCheckResult(d, time), "checks", time)
         /\ time \in DOMAIN InsertCheckResult(d, time)["checks"]
         /\ InsertCheckResult(d, time)["checks"][time] = <<{time}>>
         /\ Adds(d, InsertAgentMetrics(d, time), "agent", time)
PROOF
<1>1. "checks" \in Tables /\ "agent" \in Tables
  BY DEF Tables
<1>2. InsertCheckResult(d, time) = [d EXCEPT !["checks"] = With(d["checks"], time, <<{time}>>)]
  BY DEF InsertCheckResult
<1>3. InsertAgentMetrics(d, time) = [d EXCEPT !["agent"] = With(d["agent"], time, <<{time}>>)]
  BY DEF InsertAgentMetrics
<1> DEFINE row == <<{time}>>
<1>4. row = <<{time}>>
  OBVIOUS
<1> HIDE DEF row
<1>5. LET after == [d EXCEPT !["checks"] = With(d["checks"], time, row)]
      IN /\ Adds(d, after, "checks", time) /\ time \in DOMAIN after["checks"]
         /\ after["checks"][time] = row
  BY <1>1, WithAdds
<1>6. Adds(d, [d EXCEPT !["agent"] = With(d["agent"], time, row)], "agent", time)
  BY <1>1, WithAdds
<1> QED BY <1>2, <1>3, <1>4, <1>5, <1>6

\* What a step does to the rows when nothing is wrong after it.
LEMMA CalmStep ==
  ASSUME TypeInv, [Next]_vars, now' \notin upset'
  PROVE  \/ \E l \in Loops : Statement(l)
         \/ Deliver
         \/ Pass /\ Quiet /\ upset' = upset
              /\ db' = InsertAgentMetrics(InsertCheckResult(db, now + 1), now + 1)
         \/ UNCHANGED vars
PROOF
<1>1. ~(\E l \in Loops : StatementFails(l))
  BY DEF StatementFails
<1>2. ~Crash /\ ~Start
  BY DEF Crash, Start
<1>3. ~PassUnpushed
  BY DEF PassUnpushed
<1>4. ~PassDown
  BY DEF PassDown
<1>5. CASE Pass
  BY <1>5 DEF Pass
<1> QED BY <1>1, <1>2, <1>3, <1>4, <1>5 DEF Next

\* A statement that does not delete from the table finds it cleaned before.
LEMMA CleanedBefore ==
  ASSUME TypeInv, TickInv, NEW t \in Tables \ Daily, NEW l \in Loops, Statement(l),
         Cleaned(t)', Head(Run(l).todo) # Delete(t)
  PROVE  Cleaned(t) /\ LastTick(DeleterOf(t))' = LastTick(DeleterOf(t))
PROOF
<1> DEFINE d == DeleterOf(t)
<1>1. /\ Busy(l) /\ loop' = [loop EXCEPT ![l] = Rest(Run(l))] /\ d \in Loops
      /\ UNCHANGED <<now, started, upset>> /\ RunInv /\ now \in Nat /\ loop[l].fire \in Nat
  BY DeleterType DEF Statement, TypeInv, RunInv, ClockType
<1>2. /\ loop'[l].todo = Tail(Run(l).todo) /\ loop'[l].fire = Run(l).fire
      /\ \A k \in Loops : k # l => loop'[k] = loop[k]
  BY <1>1, LoopStep
<1>3. /\ started' < LastTick(d)' /\ Calm(LastTick(d), now)'
      /\ \A i \in 1..Len(loop'[d].todo) : loop'[d].todo[i] # Delete(t)
  BY DEF Cleaned
<1>4. CASE l # d
  <2>1. loop'[d] = loop[d] /\ LastTick(d)' = LastTick(d)
    BY <1>1, <1>2, <1>4 DEF LastTick
  <2> HIDE DEF d
  <2>2. /\ started < LastTick(d) /\ Calm(LastTick(d), now)
        /\ \A i \in 1..Len(loop[d].todo) : loop[d].todo[i] # Delete(t)
    BY <1>1, <1>3, <2>1 DEF Calm
  <2> QED BY <2>1, <2>2 DEF Cleaned, d
<1>5. CASE l = d /\ loop[l].todo = <<>>
  <2>1. Run(l).todo = Work[l]
    BY <1>1, <1>5, RunFire
  <2>2. \E i \in 1..Len(Tail(Work[l])) : Tail(Work[l])[i] = Delete(t)
    BY <1>5, DeleterType
  <2> HIDE DEF d
  <2> QED BY <1>2, <1>3, <1>5, <2>1, <2>2
<1>6. CASE l = d /\ loop[l].todo # <<>>
  <2>1. Run(l) = loop[l] /\ LastTick(d)' = LastTick(d)
    BY <1>1, <1>2, <1>6, RunFire DEF LastTick
  <2>2. loop[l].todo \in Seq(Later(l))
    BY <1>1 DEF RunInv
  <2> DEFINE todo == loop[l].todo
  <2>3. \A i \in 1..Len(todo) : todo[i] # Delete(t)
    <3> SUFFICES ASSUME NEW i \in 1..Len(todo), todo[i] = Delete(t) PROVE FALSE
      OBVIOUS
    <3>1. Head(todo) # Delete(t)
      BY <2>1
    <3>2. todo \in Seq(Later(l)) /\ todo # <<>> /\ loop'[l].todo = Tail(todo)
      BY <1>2, <1>6, <2>1, <2>2
    <3> HIDE DEF todo
    <3> DEFINE some == Later(l)
    <3>3. todo \in Seq(some)
      BY <3>2
    <3> HIDE DEF some
    <3>4. Len(todo) \in Nat /\ i # 1
      BY <3>1, <3>2, <3>3
    <3>5. i - 1 \in 1..Len(Tail(todo)) /\ Tail(todo)[i - 1] = todo[i]
      BY <3>2, <3>3, <3>4
    <3>6. \A j \in 1..Len(Tail(todo)) : Tail(todo)[j] # Delete(t)
      BY <1>3, <1>6, <3>2
    <3> QED BY <3>5, <3>6
  <2> HIDE DEF d
  <2>4. started < LastTick(d) /\ Calm(LastTick(d), now)
    BY <1>1, <1>3, <2>1 DEF Calm
  <2> QED BY <1>6, <2>1, <2>3, <2>4 DEF Cleaned, d
<1> QED BY <1>4, <1>5, <1>6

LEMMA RetainStatement ==
  ASSUME TypeInv, TickInv, RetainInv, NEW l \in Loops, Statement(l),
         NEW t \in Tables \ Daily, Cleaned(t)', now \notin upset, LastTick(DeleterOf(t))' <= now,
         LastTick(DeleterOf(t))' \in Int, NEW k \in DOMAIN db'[t]
  PROVE  k >= LastTick(DeleterOf(t))' - Keep[t]
PROOF
<1> DEFINE s == Head(Run(l).todo)
           last == LastTick(DeleterOf(t))'
<1>1. s \in Legal /\ db' = Execute(s, Run(l).at) /\ up /\ Busy(l) /\ now \in Nat
  BY RunLegal DEF Statement, TypeInv, RunInv
<1>2. Run(l).at = now
  BY <1>1, RunTick
<1>3. ASSUME s # Delete(t), k \in DOMAIN db[t] PROVE k >= last - Keep[t]
  BY <1>3, CleanedBefore DEF RetainInv
<1>4. last \in Int /\ last <= now
  OBVIOUS
<1>5. Keep[t] \in Nat /\ Width[t] \in Nat \ {0} /\ Keep[t] >= 2 * Width[t] - 1
  BY KeepsWindows
<1> HIDE DEF s, last
<1>6. CASE s.do = "aggregate"
  <2> DEFINE start == Truncate(now, Width[s.dst]) - Width[s.dst]
  <2>1. db' = AggregateRows(s.src, s.dst, now) /\ <<s.src, s.dst>> \in Tiers /\ s # Delete(t)
    BY <1>1, <1>2, <1>6 DEF Execute, Legal, Delete
  <2>2. start \in Int /\ start > now - 2 * Width[s.dst] /\ Adds(db, db', s.dst, start)
    BY <1>1, <2>1, AggregateAdds
  <2> HIDE DEF start
  <2>3. k \in DOMAIN db[t] \/ (k = start /\ s.dst = t)
    BY <2>2 DEF Adds
  <2>4. CASE k = start /\ s.dst = t
    BY <1>1, <1>4, <1>5, <2>2, <2>4 DEF last
  <2> QED BY <1>3, <2>1, <2>3, <2>4 DEF last
<1>7. CASE s.do # "aggregate"
  <2>1. db' = DeleteOld(s.src, now) /\ s.src \in Tables /\ s.do = "delete"
    BY <1>1, <1>2, <1>7 DEF Execute, Legal, Statements
  <2>2. CASE s.src = t
    <3>1. k \in DOMAIN db[t] /\ k >= now - Keep[t]
      BY <2>1, <2>2, DeleteKey
    <3>2. k \in Nat
      BY <3>1, KeyType
    <3> QED BY <1>1, <1>4, <1>5, <3>1, <3>2 DEF last
  <2>3. CASE s.src # t
    <3>1. db'[t] = db[t] /\ s # Delete(t)
      BY <2>1, <2>3, DeleteKey DEF Delete
    <3> QED BY <1>3, <3>1 DEF last
  <2> QED BY <2>2, <2>3
<1> QED BY <1>6, <1>7

LEMMA RetainInvStep == TypeInv /\ TickInv /\ RetainInv /\ [Next]_vars => RetainInv'
PROOF
<1> SUFFICES ASSUME TypeInv, TickInv, RetainInv, [Next]_vars, TypeInv', TickInv',
                    NEW t \in Tables \ Daily, Cleaned(t)', NEW k \in DOMAIN db'[t]
             PROVE  k >= LastTick(DeleterOf(t))' - Keep[t]
  <2>1. TypeInv /\ TickInv /\ [Next]_vars => TypeInv' /\ TickInv'
    BY RunInvStep, DbTypeStep, ClockTypeStep, TickInvStep DEF TypeInv
  <2> QED BY <2>1 DEF RetainInv
<1> DEFINE d == DeleterOf(t)
           last == LastTick(d)'
<1>1. d \in Loops
  BY DeleterType
<1>2. /\ now \in Nat /\ now' \in Nat /\ loop'[d].fire \in Nat /\ Period[d] \in Nat
      /\ Keep[t] \in Nat /\ Width[t] \in Nat
  BY <1>1, PeriodPositive, KeepsWindows DEF TypeInv, RunInv, ClockType
<1>3. last \in Int /\ last <= now'
  BY <1>1, <1>2 DEF TickInv, LoopInv, LastTick
<1>4. Calm(LastTick(d), now)'
  BY DEF Cleaned
<1>5. now' \notin upset'
  BY <1>2, <1>3, <1>4 DEF Calm
<1> HIDE DEF d
<1>6. CASE \E l \in Loops : Statement(l)
  <2>1. PICK l \in Loops : Statement(l)
    BY <1>6
  <2>2. now' = now /\ upset' = upset
    BY <2>1 DEF Statement
  <2>3. last <= now /\ now \notin upset
    BY <1>3, <1>5, <2>2
  <2> QED BY <1>3, <2>1, <2>3, RetainStatement DEF d
<1>7. ASSUME UNCHANGED <<loop, started>>, upset' = upset, now <= now', k \in DOMAIN db[t]
      PROVE  k >= last - Keep[t]
  <2>1. LastTick(d) = last /\ loop'[d] = loop[d]
    BY <1>7 DEF LastTick
  <2>2. Calm(last, now)
    BY <1>2, <1>3, <1>4, <1>7 DEF Calm
  <2>3. Cleaned(t)
    <3> HIDE DEF last
    <3>1. /\ started' < last
          /\ \A i \in 1..Len(loop'[d].todo) : loop'[d].todo[i] # Delete(t)
      BY DEF Cleaned, d, last
    <3> QED BY <1>7, <2>1, <2>2, <3>1 DEF Cleaned, d
  <2> QED BY <1>7, <2>1, <2>3 DEF RetainInv, d
<1> HIDE DEF last
<1>8. CASE Deliver
  <2>1. PICK x \in owed : db' = InsertAgentMetrics(db, x)
    BY <1>8 DEF Deliver
  <2>2. UNCHANGED <<now, loop, started, upset>>
    BY <1>8 DEF Deliver
  <2>3. Adds(db, db', "agent", x)
    BY <2>1, InsertAdds DEF TypeInv, DbType
  <2>4. k \in DOMAIN db[t] \/ (t = "agent" /\ k = x)
    BY <2>3 DEF Adds
  <2>5. CASE t = "agent" /\ k = x
    <3>1. x \in Nat /\ now - x <= MaxLate
      BY DEF TickInv, TypeInv, RunInv
    <3>2. MaxLate \in Nat /\ FiveMin \in Nat /\ Keep["agent"] >= MaxLate + FiveMin
      BY DownsamplingAssumption DEF DownsamplingAssumption, RetentionFits
    <3> QED BY <1>2, <1>3, <2>2, <2>5, <3>1, <3>2 DEF last, d
  <2> QED BY <1>2, <1>7, <2>2, <2>4, <2>5 DEF last, d
<1>9. CASE Pass /\ upset' = upset
           /\ db' = InsertAgentMetrics(InsertCheckResult(db, now + 1), now + 1)
  <2> DEFINE mid == InsertCheckResult(db, now + 1)
  <2>1. UNCHANGED <<loop, started>> /\ now' = now + 1 /\ now' \in Times
    BY <1>9 DEF Pass
  <2>2. Adds(db, mid, "checks", now + 1)
    BY InsertAdds DEF TypeInv, DbType
  <2>3. mid = [x \in Tables |-> mid[x]]
    BY <2>1, InsertType DEF TypeInv, DbType
  <2>4. db' = InsertAgentMetrics(mid, now + 1)
    BY <1>9
  <2> HIDE DEF mid
  <2>5. Adds(mid, db', "agent", now + 1)
    BY <2>3, <2>4, InsertAdds
  <2>6. k \in DOMAIN db[t] \/ k = now + 1
    BY <2>2, <2>5 DEF Adds
  <2>7. CASE k = now + 1
    BY <1>2, <1>3, <2>1, <2>7 DEF last, d
  <2> QED BY <1>2, <1>7, <1>9, <2>1, <2>6, <2>7 DEF last, d
<1>10. CASE UNCHANGED vars
  <2>1. UNCHANGED <<now, loop, started, upset, db>>
    BY <1>10 DEF vars
  <2> QED BY <1>2, <1>7, <2>1 DEF last, d
<1> QED BY <1>5, <1>6, <1>8, <1>9, <1>10, CalmStep

\* For every width, period and retention that fit: a table that is not kept for ever
\* has no row that outlived its retention by more than the period of the goroutine
\* that deletes from it, as long as nothing was wrong meanwhile.  The retention
\* has to cover two windows, for the row that an aggregate inserts began up to two
\* windows before, and its table may have been cleaned already.
THEOREM RetainedAlways == Spec => []Retained
PROOF
<1> DEFINE Inv == TypeInv /\ TickInv /\ RetainInv
<1>1. Init => Inv
  <2>1. Init => RetainInv
    BY DEF Init, RetainInv, Empty, Tables, Daily
  <2> QED BY <2>1, TypeInvInit, TickInvInit
<1>2. Inv /\ [Next]_vars => Inv'
  <2>1. TypeInv /\ TickInv /\ [Next]_vars => TypeInv' /\ TickInv'
    BY RunInvStep, DbTypeStep, ClockTypeStep, TickInvStep DEF TypeInv
  <2> QED BY <2>1, RetainInvStep
<1>3. Inv => Retained
  <2> SUFFICES ASSUME TypeInv, TickInv, RetainInv, NEW t \in Tables \ Daily, Quiet,
                      Calm(now - Period[DeleterOf(t)], now), NEW k \in DOMAIN db[t]
               PROVE  k >= now - Period[DeleterOf(t)] - Keep[t]
    <3>1. \A t \in Tables \ Daily :
            Period[DeleterOf(t)] = CASE t = "agent" -> FiveMin
                                     [] t \in {"checkHour", "agentHour"} -> Day
                                     [] OTHER -> Hour
      BY DEF Period, DeleterOf, Tables, Daily
    <3> QED BY <3>1 DEF Retained
  <2> DEFINE d == DeleterOf(t)
  <2>1. d \in Loops
    BY DeleterType
  <2>2. /\ now \in Nat /\ loop[d].fire \in Nat /\ Period[d] \in Nat \ {0} /\ started \in Nat
        /\ Keep[t] \in Nat
    BY <2>1, PeriodPositive, KeepsWindows, Constants DEF TypeInv, RunInv, ClockType, Times
  <2>3. loop[d].todo = <<>> /\ now < loop[d].fire
    BY <2>1, <2>2 DEF Quiet, Busy
  <2>4. LastTick(d) <= now /\ started \in upset /\ started <= now
    BY <2>1 DEF TickInv, LoopInv
  <2>5. Calm(now - Period[d], now)
    OBVIOUS
  <2> HIDE DEF d
  <2>6. LastTick(d) \in Int /\ now - Period[d] < LastTick(d)
    BY <2>2, <2>3 DEF LastTick
  <2>7. started < now - Period[d]
    BY <2>2, <2>4, <2>5 DEF Calm
  <2>8. Calm(LastTick(d), now)
    BY <2>2, <2>5, <2>6 DEF Calm
  <2>9. started < LastTick(d)
    BY <2>2, <2>6, <2>7
  <2>10. \A i \in 1..Len(loop[d].todo) : loop[d].todo[i] # Delete(t)
    BY <2>3
  <2>11. Cleaned(t)
    BY <2>8, <2>9, <2>10 DEF Cleaned, d
  <2>12. k >= LastTick(d) - Keep[t]
    BY <2>11 DEF RetainInv, d
  <2>13. k \in Nat
    BY KeyType
  <2> QED BY <2>2, <2>6, <2>12, <2>13 DEF d
<1> QED BY <1>1, <1>2, <1>3, PTL DEF Spec

-----------------------------------------------------------------------------
\* The rows of wider windows, those of days aside.

Wider == {"agent5", "agent15", "agentHour", "checkHour"}

\* Those that are computed from the raw rows.
FromRaw == {"agent5", "checkHour"}

Aggregator(t) ==
  CASE t = "agent5" -> "five" [] t = "agent15" -> "fifteen" [] OTHER -> "hourly"

Source(t) == CASE t = "agent5" -> "agent" [] t = "checkHour" -> "checks" [] OTHER -> "agent5"

\* The last tick whose run has come to the rows of the table.
AggregateTick(t) ==
  IF t = "agentHour" /\ Pending THEN LastTick(Aggregator(t)) - Hour ELSE LastTick(Aggregator(t))

\* The tick that turns a window into a row has been.
Aggregated(t, k) == k + Width[t] <= AggregateTick(t)

\* The row of a window says what it should.
Good(t, k) ==
  /\ k \in DOMAIN db[t]
  /\ t \in FromRaw => db[t][k] = <<k..(k + Width[t] - 1)>>
  /\ Len(db[t][k]) = 1
  /\ t = "agent15" => LastFive(k, db[t][k][1])
  /\ t = "agentHour" => InTime(t, k) \subseteq db[t][k][1]

\* The raw rows of a window are there.
Recorded(t, k) ==
  \A c \in k..(k + Width[t] - 1) :
    c <= now => c \in DOMAIN db[Source(t)] /\ db[Source(t)][c] = <<{c}>>

\* A window that waits for its tick has all that it is computed from.
Waiting(t, k) ==
  /\ t \in FromRaw => k \notin DOMAIN db[t] /\ Recorded(t, k)
  /\ t = "agentHour" =>
       \A w \in k..(k + Hour - 1) :
         w % FiveMin = 0 /\ Aggregated("agent5", w) => Good("agent5", w)

Undisturbed(t, k) == Calm(k, k + 2 * Width[t] - 1) /\ (t \notin FromRaw => started < k)

\* The tick comes before the window after it ends.
WindowOk(t, k) ==
  Undisturbed(t, k) =>
    /\ ~Aggregated(t, k) => now < k + 2 * Width[t] /\ Waiting(t, k)
    /\ Aggregated(t, k) /\ k >= now - Keep[t] => Good(t, k)

LEMMA WiderConstants ==
  ASSUME NEW t \in Wider
  PROVE  /\ t \in Tables \ Daily /\ Source(t) \in Tables \ Daily
         /\ Width[t] \in Nat \ {0}
         /\ Keep[t] \in Nat /\ Keep[t] >= 2 * Width[t] - 1
         /\ Aggregator(t) \in Loops \ {"daily"} /\ Period[Aggregator(t)] = Width[t]
         /\ <<Source(t), t>> \in Tiers
         /\ t = "agentHour" => Width[t] = Hour /\ Aggregator(t) = "hourly"
PROOF
<1>1. t \in Tables \ Daily /\ Source(t) \in Tables \ Daily /\ Aggregator(t) \in Loops \ {"daily"}
  BY DEF Wider, Source, Aggregator, Tables, Daily, Loops
<1>2. /\ <<Source(t), t>> \in Tiers
      /\ t = "agentHour" => Width[t] = Hour /\ Aggregator(t) = "hourly"
  BY DEF Wider, Source, Tiers, Width, Aggregator
<1>3. Period[Aggregator(t)] = Width[t]
  BY DEF Wider, Aggregator, Period, Width
<1> QED BY <1>1, <1>2, <1>3, KeepsWindows

\* What the invariant says of the clock and of the goroutine.
LEMMA WiderFacts ==
  ASSUME TypeInv, TickInv, OrderInv, NEW t \in Wider
  PROVE  /\ now \in Nat /\ started \in Nat
         /\ LastTick(Aggregator(t)) = loop[Aggregator(t)].fire - Width[t]
         /\ LastTick(Aggregator(t)) \in Int /\ LastTick(Aggregator(t)) <= now
         /\ AggregateTick(t) \in Int /\ AggregateTick(t) <= LastTick(Aggregator(t))
         /\ (AggregateTick(t) - started) % Width[t] = 0
PROOF
<1> DEFINE l == Aggregator(t)
           w == Width[t]
<1>1. l \in Loops \ {"daily"} /\ Period[l] = w /\ w \in Nat \ {0} /\ (t = "agentHour" => w = Hour)
  BY WiderConstants
<1>2. now \in Nat /\ started \in Nat /\ loop[l].fire \in Nat
  BY <1>1, Constants DEF TypeInv, RunInv, ClockType, Times
<1>3. LastTick(l) = loop[l].fire - w /\ LastTick(l) <= now
  BY <1>1 DEF LastTick, TickInv, LoopInv
<1>4. AggregateTick(t) \in {LastTick(l), LastTick(l) - w}
  BY <1>1 DEF AggregateTick
<1> DEFINE x == loop[l].fire - started
<1>5. x \in Int /\ x % w = 0 /\ w \in Int /\ w \in Nat \ {0} /\ w % w = 0
  BY <1>1, <1>2, SelfMultiple DEF OrderInv
<1> HIDE DEF l, w
<1>6. AggregateTick(t) - started \in {x - w, (x - w) - w}
  BY <1>1, <1>2, <1>3, <1>4
<1> HIDE DEF x
<1>7. (x - w) % w = 0
  BY <1>5, MultipleDifference
<1> DEFINE y == x - w
<1>8. y \in Int /\ y % w = 0
  BY <1>5, <1>7
<1> HIDE DEF y
<1>9. (y - w) % w = 0
  BY <1>5, <1>8, MultipleDifference
<1>10. (AggregateTick(t) - started) % w = 0
  BY <1>6, <1>7, <1>9 DEF y
<1> QED BY <1>1, <1>2, <1>3, <1>4, <1>10 DEF l, w

\* Who computes the rows of a table, and when.
LEMMA WiderAggregate ==
  ASSUME NEW l \in Loops, NEW s, s \in Later(l) \/ s = First(l), s.do = "aggregate",
         s.dst \in Wider
  PROVE  /\ l = Aggregator(s.dst) /\ s.src = Source(s.dst)
         /\ s.dst = "agentHour" => s = Aggregate("agent5", "agentHour") /\ s # First(l)
         /\ s.dst # "agentHour" => s = First(l) /\ s \notin Later(l)
PROOF
<1>1. CASE l = "five"
  BY <1>1 DEF Later, First, Aggregate, Delete, Wider, Aggregator, Source
<1>2. CASE l = "fifteen"
  BY <1>2 DEF Later, First, Aggregate, Delete, Wider, Aggregator, Source
<1>3. CASE l = "hourly"
  BY <1>3 DEF Later, First, Aggregate, Delete, Wider, Aggregator, Source
<1>4. CASE l = "daily"
  BY <1>4 DEF Later, First, Aggregate, Delete, Wider, Aggregator, Source
<1> QED BY <1>1, <1>2, <1>3, <1>4 DEF Loops

LEMMA WiderFirst ==
  ASSUME NEW t \in Wider, t # "agentHour"
  PROVE  First(Aggregator(t)).do = "aggregate" /\ First(Aggregator(t)).dst = t
BY DEF Wider, Aggregator, First, Aggregate

\* The statement that a goroutine comes to is the one that computes rows of t.
Computes(t, l) == Head(Run(l).todo).do = "aggregate" /\ Head(Run(l).todo).dst = t

LEMMA AggregateTickStep ==
  ASSUME TypeInv, TickInv, OrderInv, up, NEW l \in Loops, Busy(l),
         loop' = [loop EXCEPT ![l] = Rest(Run(l))], NEW t \in Wider
  PROVE  /\ AggregateTick(t)' = AggregateTick(t) + (IF Computes(t, l) THEN Width[t] ELSE 0)
         /\ AggregateTick(t)' \in Int /\ AggregateTick(t)' <= now
         /\ Computes(t, l) => /\ l = Aggregator(t)
                              /\ Head(Run(l).todo).src = Source(t)
                              /\ Run(l).at = now \/ Run(l).at \in upset
                              /\ now \notin upset => Run(l).at = now /\ AggregateTick(t)' = now
PROOF
<1> DEFINE a == Aggregator(t)
           s == Head(Run(l).todo)
<1>1. /\ a \in Loops \ {"daily"} /\ Period[a] = Width[t] /\ Width[t] \in Nat \ {0}
      /\ t = "agentHour" => Width[t] = Hour /\ a = "hourly"
  BY WiderConstants
<1>2. /\ RunInv /\ now \in Nat /\ loop[l].fire \in Nat /\ "hourly" \in Loops
      /\ LastTick(a) = loop[a].fire - Width[t] /\ LastTick(a) <= now /\ LastTick(a) \in Int
      /\ loop[a].fire \in Nat
  BY <1>1, WiderFacts DEF TypeInv, RunInv, ClockType, Loops
<1>3. /\ loop'[l].todo = Tail(Run(l).todo) /\ loop'[l].fire = Run(l).fire
      /\ \A k \in Loops : k # l => loop'[k] = loop[k]
  BY <1>2, LoopStep
<1>4. /\ loop[l].todo = <<>> => s = First(l)
      /\ loop[l].todo # <<>> => s \in Later(l)
  BY <1>2, RunLegal
<1>5. LastTick(a)' = loop'[a].fire - Width[t]
  BY <1>1 DEF LastTick
<1>6. Computes(t, l) => l = a /\ s.src = Source(t)
  BY <1>4, WiderAggregate DEF Computes
<1>7. CASE t # "agentHour"
  <2>1. AggregateTick(t) = LastTick(a) /\ AggregateTick(t)' = LastTick(a)'
    BY <1>1, <1>2, <1>5, <1>7 DEF AggregateTick
  <2>2. Computes(t, l) <=> l = a /\ loop[l].todo = <<>>
    BY <1>4, <1>7, WiderAggregate, WiderFirst DEF Computes
  <2>3. CASE Computes(t, l)
    <3>1. Run(l).fire = loop[l].fire + Width[t] /\ Run(l).at = now /\ loop[l].fire <= now
      BY <1>1, <1>2, <2>2, <2>3, RunFire
    <3>2. now \notin upset => loop[l].fire = now
      BY <2>2, <2>3, RunTick
    <3> HIDE DEF a, s
    <3> QED BY <1>1, <1>2, <1>3, <1>5, <1>6, <2>1, <2>2, <2>3, <3>1, <3>2 DEF a, s
  <2>4. CASE ~Computes(t, l)
    <3>1. loop'[a].fire = loop[a].fire
      <4>1. CASE l # a
        BY <1>1, <1>3, <4>1
      <4>2. CASE l = a
        BY <1>2, <1>3, <2>2, <2>4, <4>2, RunFire
      <4> QED BY <4>1, <4>2
    <3> HIDE DEF a, s
    <3> QED BY <1>1, <1>2, <1>5, <2>1, <2>4, <3>1
  <2> QED BY <2>3, <2>4
<1>8. CASE t = "agentHour"
  <2> DEFINE todo == loop["hourly"].todo
  <2>1. /\ a = "hourly" /\ Width[t] = Hour
        /\ AggregateTick(t) = IF Pending THEN LastTick(a) - Hour ELSE LastTick(a)
        /\ AggregateTick(t)' = IF Pending' THEN LastTick(a)' - Hour ELSE LastTick(a)'
    BY <1>1, <1>8 DEF AggregateTick
  <2>2. todo \in HourlyLeft
    BY DEF OrderInv
  <2>3. CASE l # "hourly"
    <3>1. loop'[a] = loop[a] /\ ~Computes(t, l)
      BY <1>1, <1>3, <1>6, <2>1, <2>3
    <3>2. Pending' = Pending
      BY <1>3, <1>2, <2>3 DEF Pending
    <3> HIDE DEF a, s
    <3> QED BY <1>1, <1>2, <1>5, <2>1, <3>1, <3>2
  <2>4. CASE l = "hourly" /\ todo = <<>>
    <3>1. ~Computes(t, l)
      BY <1>4, <1>8, <2>4, WiderAggregate DEF Computes
    <3>2. Run(l).fire = loop[l].fire + Hour /\ Run(l).todo = Work[l] /\ loop[l].fire <= now
      BY <1>1, <1>2, <2>1, <2>4, RunFire
    <3>3. Len(Tail(Work["hourly"])) = 4
      <4> DEFINE s4 == <<Delete("checks"), Aggregate("agent5", "agentHour"), Delete("agent5"),
                         Delete("agent15")>>
      <4>1. Tail(Work["hourly"]) = s4
        BY DEF Work
      <4>2. Len(s4) = 4
        OBVIOUS
      <4> HIDE DEF s4
      <4> QED BY <4>1, <4>2
    <3>4. ~Pending /\ Pending'
      <4>1. loop'["hourly"].todo = Tail(Work["hourly"])
        BY <1>3, <2>4, <3>2
      <4>2. Len(todo) = 0
        BY <2>4
      <4> DEFINE rest == Tail(Work["hourly"])
      <4>3. Len(rest) = 4 /\ loop'["hourly"].todo = rest
        BY <3>3, <4>1
      <4> HIDE DEF rest
      <4>4. ~(Len(todo) >= 3) /\ Len(loop'["hourly"].todo) >= 3
        BY <4>2, <4>3
      <4> QED BY <4>4 DEF Pending
    <3> HIDE DEF a, s
    <3> QED BY <1>1, <1>2, <1>3, <1>5, <2>1, <2>4, <3>1, <3>2, <3>4
  <2>5. CASE l = "hourly" /\ todo # <<>>
    <3>1. Run(l) = loop[l] /\ loop'[a].fire = loop[a].fire /\ loop'[l].todo = Tail(todo)
      BY <1>2, <1>3, <2>1, <2>5, RunFire
    <3>2. /\ Len(Tail(todo)) = Len(todo) - 1 /\ Len(todo) \in 1..4
          /\ s = Aggregate("agent5", "agentHour") <=> Len(todo) = 3
      BY <2>2, <2>5, <3>1, HourlyTail
    <3>3. Computes(t, l) <=> s = Aggregate("agent5", "agentHour")
      <4>1. Computes(t, l) => s = Aggregate("agent5", "agentHour")
        BY <1>4, <1>8, <2>5, WiderAggregate DEF Computes
      <4>2. s = Aggregate("agent5", "agentHour") => Computes(t, l)
        BY <1>8 DEF Computes, Aggregate
      <4> QED BY <4>1, <4>2
    <3>4. /\ Computes(t, l) => Pending /\ ~Pending'
          /\ ~Computes(t, l) => (Pending' <=> Pending)
      <4> HIDE DEF s
      <4>1. Pending <=> Len(todo) >= 3
        BY DEF Pending
      <4>2. Pending' <=> Len(Tail(todo)) >= 3
        BY <2>5, <3>1 DEF Pending
      <4> HIDE DEF todo
      <4> DEFINE rest == Tail(todo)
      <4>3. Len(rest) = Len(todo) - 1 /\ Len(todo) \in 1..4
        BY <3>2
      <4> HIDE DEF rest
      <4>4. /\ Len(todo) = 3 => Len(todo) >= 3 /\ ~(Len(rest) >= 3)
            /\ Len(todo) # 3 => (Len(rest) >= 3 <=> Len(todo) >= 3)
        BY <4>3
      <4> QED BY <3>2, <3>3, <4>1, <4>2, <4>4 DEF rest
    <3>5. Run(l).at = now \/ Run(l).at \in upset
      BY <2>5, <3>1 DEF OrderInv
    <3>6. now \notin upset => Run(l).at = now /\ LastTick(a) = now
      BY <2>1, <2>5, <3>1 DEF TickInv, LoopInv
    <3> HIDE DEF a, s
    <3> QED BY <1>1, <1>2, <1>5, <1>6, <2>1, <2>5, <3>1, <3>4, <3>5, <3>6 DEF a, s
  <2> QED BY <1>2, <2>3, <2>4, <2>5
<1> QED BY <1>7, <1>8

\* What a step does to the rows of one table.
Aggregation(t) ==
  \E at \in Nat :
    /\ up /\ UNCHANGED <<now, started, upset>>
    /\ at <= now /\ (at = now \/ at \in upset)
    /\ AggregateTick(t)' = AggregateTick(t) + Width[t] /\ AggregateTick(t)' <= now
    /\ now \notin upset => at = now /\ AggregateTick(t)' = now
    /\ db' = AggregateRows(Source(t), t, at)

Deletion(t) ==
  \E at \in Nat :
    /\ UNCHANGED <<now, started, upset>>
    /\ at <= now
    /\ AggregateTick(t)' = AggregateTick(t)
    /\ db' = DeleteOld(t, at)

Mishap(t) ==
  /\ UNCHANGED <<now, db>>
  /\ upset' = upset \cup {now}
  /\ AggregateTick(t) <= AggregateTick(t)' /\ AggregateTick(t)' <= now
  /\ AggregateTick(t)' \in Int
  /\ started' \in {started, now}

Elsewhere(t) ==
  /\ AggregateTick(t)' = AggregateTick(t)
  /\ UNCHANGED started /\ upset \subseteq upset'
  /\ now' = now \/ (now' = now + 1 /\ (now \notin upset' => Quiet))
  /\ db'[t] = db[t]

\* No row of a wider window comes with the passing of time.
LEMMA PassAdds ==
  ASSUME TypeInv, Pass \/ PassUnpushed \/ PassDown
  PROVE  /\ \A t \in Tables : t \notin {"checks", "agent"} => db'[t] = db[t]
         /\ \A t \in {"checks", "agent"} :
              /\ \A k \in DOMAIN db[t] :
                   k # now + 1 => k \in DOMAIN db'[t] /\ db'[t][k] = db[t][k]
              /\ now + 1 \notin upset' =>
                   now + 1 \in DOMAIN db'[t] /\ db'[t][now + 1] = <<{now + 1}>>
PROOF
<1> DEFINE row == <<{now + 1}>>
           mid == InsertCheckResult(db, now + 1)
           last == InsertAgentMetrics(mid, now + 1)
<1>1. /\ db = [t \in Tables |-> db[t]] /\ "checks" \in Tables /\ "agent" \in Tables
      /\ "checks" # "agent"
  BY DEF TypeInv, DbType, Tables
<1>2. mid = [db EXCEPT !["checks"] = With(db["checks"], now + 1, row)]
  BY DEF InsertCheckResult
<1>3. last = [mid EXCEPT !["agent"] = With(mid["agent"], now + 1, row)]
  BY DEF InsertAgentMetrics
<1> HIDE DEF row
<1>4. mid = [t \in Tables |-> mid[t]]
  BY <1>1, <1>2
<1>5. /\ Adds(db, mid, "checks", now + 1) /\ now + 1 \in DOMAIN mid["checks"]
      /\ mid["checks"][now + 1] = row
  BY <1>1, <1>2, WithAdds
<1> HIDE DEF mid
<1>6. /\ Adds(mid, last, "agent", now + 1) /\ now + 1 \in DOMAIN last["agent"]
      /\ last["agent"][now + 1] = row
  BY <1>1, <1>3, <1>4, WithAdds
<1> HIDE DEF last
<1>7. db' \in {db, mid, last} /\ (now + 1 \notin upset' => db' = last)
  <2>1. CASE Pass
    <3>1. db' = last
      BY <2>1 DEF Pass, last, mid
    <3> QED BY <3>1
  <2>2. CASE PassUnpushed
    <3>1. db' = mid /\ now + 1 \in upset'
      BY <2>2 DEF PassUnpushed, mid
    <3> QED BY <3>1
  <2>3. CASE PassDown
    <3>1. db' = db /\ now + 1 \in upset'
      BY <2>3 DEF PassDown
    <3> QED BY <3>1
  <2> QED BY <2>1, <2>2, <2>3
<1>8. \A t \in Tables : t \notin {"checks", "agent"} => db'[t] = db[t]
  BY <1>5, <1>6, <1>7 DEF Adds
<1>9. ASSUME NEW t \in {"checks", "agent"}, NEW k \in DOMAIN db[t], k # now + 1
      PROVE  k \in DOMAIN db'[t] /\ db'[t][k] = db[t][k]
  <2>1. k \in DOMAIN mid[t] /\ mid[t][k] = db[t][k]
    BY <1>1, <1>5, <1>9 DEF Adds
  <2>2. k \in DOMAIN last[t] /\ last[t][k] = mid[t][k]
    BY <1>1, <1>6, <1>9, <2>1 DEF Adds
  <2> QED BY <1>7, <2>1, <2>2
<1>10. ASSUME NEW t \in {"checks", "agent"}, now + 1 \notin upset'
       PROVE  now + 1 \in DOMAIN db'[t] /\ db'[t][now + 1] = row
  BY <1>1, <1>5, <1>6, <1>7, <1>10 DEF Adds
<1> QED BY <1>8, <1>9, <1>10 DEF row

LEMMA WiderStep ==
  ASSUME TypeInv, TickInv, OrderInv, [Next]_vars, NEW t \in Wider
  PROVE  Aggregation(t) \/ Deletion(t) \/ Mishap(t) \/ Elsewhere(t)
PROOF
<1>a. /\ now \in Nat /\ AggregateTick(t) \in Int /\ Width[t] \in Nat \ {0}
      /\ LastTick(Aggregator(t)) \in Int /\ LastTick(Aggregator(t)) <= now
      /\ AggregateTick(t) <= LastTick(Aggregator(t))
      /\ t \in Tables \ Daily /\ t \notin {"checks", "agent"} /\ RunInv
      /\ Aggregator(t) \in Loops \ {"daily"} /\ Period[Aggregator(t)] = Width[t]
      /\ t = "agentHour" => Aggregator(t) = "hourly"
  BY WiderFacts, WiderConstants DEF TypeInv, Wider
<1>c. "hourly" \in Loops
  BY DEF Loops
<1>b. UNCHANGED loop => AggregateTick(t)' = AggregateTick(t)
  BY DEF AggregateTick, LastTick, Pending
<1>1. ASSUME NEW l \in Loops, Statement(l) PROVE Aggregation(t) \/ Deletion(t) \/ Elsewhere(t)
  <2> DEFINE s == Head(Run(l).todo)
             at == Run(l).at
  <2>1. /\ Busy(l) /\ up /\ UNCHANGED <<now, started, upset>>
        /\ loop' = [loop EXCEPT ![l] = Rest(Run(l))]
        /\ db' = Execute(s, at) /\ s \in Legal /\ at \in Nat /\ at <= now
    BY <1>1, <1>a, RunLegal DEF Statement
  <2>2. /\ AggregateTick(t)' = AggregateTick(t) + (IF Computes(t, l) THEN Width[t] ELSE 0)
        /\ AggregateTick(t)' \in Int /\ AggregateTick(t)' <= now
        /\ Computes(t, l) => /\ s.src = Source(t)
                             /\ at = now \/ at \in upset
                             /\ now \notin upset => at = now /\ AggregateTick(t)' = now
    BY <2>1, AggregateTickStep
  <2>3. Computes(t, l) <=> s.do = "aggregate" /\ s.dst = t
    BY DEF Computes
  <2> HIDE DEF s, at
  <2>4. CASE Computes(t, l)
    <3>1. db' = AggregateRows(Source(t), t, at)
      BY <2>1, <2>2, <2>3, <2>4 DEF Execute
    <3> QED BY <2>1, <2>2, <2>4, <3>1 DEF Aggregation
  <2>5. CASE ~Computes(t, l)
    <3>1. AggregateTick(t)' = AggregateTick(t)
      BY <1>a, <2>2, <2>5
    <3>2. CASE s.do = "aggregate"
      <4>1. db' = AggregateRows(s.src, s.dst, at) /\ <<s.src, s.dst>> \in Tiers
        BY <2>1, <3>2 DEF Execute, Legal
      <4>2. Adds(db, db', s.dst, Truncate(at, Width[s.dst]) - Width[s.dst])
        BY <2>1, <4>1, AggregateAdds
      <4>3. db'[t] = db[t]
        BY <1>a, <2>3, <2>5, <3>2, <4>2 DEF Adds
      <4> QED BY <2>1, <3>1, <4>3 DEF Elsewhere
    <3>3. CASE s.do # "aggregate"
      <4>1. db' = DeleteOld(s.src, at) /\ s.src \in Tables
        BY <2>1, <3>3 DEF Execute, Legal, Statements
      <4>2. CASE s.src = t
        BY <2>1, <3>1, <4>1, <4>2 DEF Deletion
      <4>3. CASE s.src # t
        <5>1. db'[t] = db[t]
          BY <1>a, <4>1, <4>3, DeleteKey
        <5> QED BY <2>1, <3>1, <5>1 DEF Elsewhere
      <4> QED BY <4>2, <4>3
    <3> QED BY <3>2, <3>3
  <2> QED BY <2>4, <2>5
<1>2. ASSUME NEW l \in Loops, StatementFails(l) PROVE Mishap(t)
  <2>1. /\ Busy(l) /\ up /\ UNCHANGED <<now, started, db>> /\ upset' = upset \cup {now}
        /\ loop' = [loop EXCEPT ![l] = Rest(Run(l))]
    BY <1>2 DEF StatementFails
  <2>2. /\ AggregateTick(t)' = AggregateTick(t) + (IF Computes(t, l) THEN Width[t] ELSE 0)
        /\ AggregateTick(t)' \in Int /\ AggregateTick(t)' <= now
    BY <2>1, AggregateTickStep
  <2>3. AggregateTick(t) <= AggregateTick(t)'
    BY <1>a, <2>2
  <2> QED BY <2>1, <2>2, <2>3 DEF Mishap
<1>3. CASE Crash
  <2>1. UNCHANGED <<now, db, started>> /\ upset' = upset \cup {now}
    BY <1>3 DEF Crash
  <2>2. loop'[Aggregator(t)].fire = loop[Aggregator(t)].fire /\ loop'["hourly"].todo = <<>>
    BY <1>3, <1>a DEF Crash, Loops
  <2>3. LastTick(Aggregator(t))' = LastTick(Aggregator(t))
    BY <2>2 DEF LastTick
  <2>4. ~Pending'
    BY <2>2 DEF Pending
  <2>5. AggregateTick(t)' = LastTick(Aggregator(t))
    BY <2>3, <2>4 DEF AggregateTick
  <2> QED BY <1>a, <2>1, <2>5 DEF Mishap
<1>4. CASE Start
  <2>1. UNCHANGED <<now, db>> /\ upset' = upset \cup {now} /\ started' = now /\ loop' = FreshLoops(now)
    BY <1>4 DEF Start
  <2>2. /\ loop'[Aggregator(t)].fire = now + Width[t]
        /\ loop'["hourly"].todo = <<>>
    BY <1>a, <1>c, <2>1, FreshFire
  <2>3. LastTick(Aggregator(t))' = now
    BY <1>a, <2>2 DEF LastTick
  <2>4. ~Pending'
    BY <2>2 DEF Pending
  <2>5. AggregateTick(t)' = now
    BY <2>3, <2>4 DEF AggregateTick
  <2> QED BY <1>a, <2>1, <2>5 DEF Mishap
<1>5. CASE Deliver
  <2>1. PICK x \in owed : db' = InsertAgentMetrics(db, x)
    BY <1>5 DEF Deliver
  <2>2. Adds(db, db', "agent", x)
    BY <2>1, InsertAdds DEF TypeInv, DbType
  <2>3. db'[t] = db[t]
    BY <1>a, <2>2 DEF Adds
  <2> QED BY <1>5, <1>b, <2>3 DEF Deliver, Elsewhere
<1>6. CASE Pass \/ PassUnpushed \/ PassDown
  <2>1. now' = now + 1 /\ UNCHANGED <<loop, started>> /\ upset \subseteq upset'
    BY <1>6 DEF Pass, PassUnpushed, PassDown
  <2>2. db'[t] = db[t] /\ (now \notin upset' => Quiet)
    BY <1>6, <1>a, PassAdds, PassQuiet
  <2> QED BY <1>b, <2>1, <2>2 DEF Elsewhere
<1>7. CASE UNCHANGED vars
  BY <1>7, <1>b DEF vars, Elsewhere
<1> QED BY <1>1, <1>2, <1>3, <1>4, <1>5, <1>6, <1>7 DEF Next

\* The window that ended last.
LEMMA LastWindow ==
  ASSUME NEW at \in Nat, NEW k \in Int, NEW w \in Nat \ {0}, k % w = 0
  PROVE  Truncate(at, w) - w = k <=> k + w <= at /\ at < k + 2 * w
PROOF
<1> DEFINE m == Truncate(at, w)
<1>1. m \in Nat /\ m <= at /\ at < m + w
  BY TruncateType
<1>2. k + w <= at /\ at < k + 2 * w => m = k + w
  <2> SUFFICES ASSUME k + w <= at, at < k + 2 * w PROVE m = k + w
    OBVIOUS
  <2> DEFINE j == k + w
  <2>1. k \in Int /\ w \in Int /\ w \in Nat \ {0} /\ k % w = 0 /\ w % w = 0
    BY SelfMultiple
  <2>2. j % w = 0
    BY <2>1, MultipleSum
  <2>3. j \in Int /\ j <= at /\ at < j + w
    OBVIOUS
  <2> HIDE DEF j, m
  <2>4. Truncate(at, w) = j
    BY <2>2, <2>3, TruncateIs
  <2> QED BY <2>4 DEF j, m
<1> HIDE DEF m
<1>3. m - w = k <=> k + w <= at /\ at < k + 2 * w
  BY <1>1, <1>2
<1> QED BY <1>3 DEF m

\* A row that is good stays good as long as it stays: no later run computes it again.
LEMMA GoodKept ==
  ASSUME TypeInv, TickInv, OrderInv, NEW t \in Wider, NEW k \in Nat, k % Width[t] = 0,
         Calm(k, k + 2 * Width[t] - 1), Aggregated(t, k), Good(t, k),
         Aggregation(t) \/ Deletion(t) \/ Mishap(t) \/ Elsewhere(t),
         k >= now - Keep[t] \/ k \in DOMAIN db'[t],
         t \in FromRaw \/ started' = started
  PROVE  Good(t, k)'
PROOF
<1>1. /\ now \in Nat /\ Width[t] \in Nat \ {0} /\ AggregateTick(t) \in Int /\ Keep[t] \in Nat
      /\ <<Source(t), t>> \in Tiers /\ t \in Tables
  BY WiderConstants, WiderFacts
<1>2. k \in DOMAIN db[t]
  BY DEF Good
<1>3. k \in DOMAIN db'[t] /\ db'[t][k] = db[t][k]
  <2>1. CASE Aggregation(t)
    <3>1. PICK at \in Nat :
            /\ at <= now /\ (at = now \/ at \in upset)
            /\ AggregateTick(t)' = AggregateTick(t) + Width[t]
            /\ now \notin upset => at = now /\ AggregateTick(t)' = now
            /\ db' = AggregateRows(Source(t), t, at)
      BY <2>1 DEF Aggregation
    <3> DEFINE start == Truncate(at, Width[t]) - Width[t]
    <3>2. Adds(db, db', t, start)
      BY <1>1, <3>1, AggregateAdds
    <3>3. start = k => k + Width[t] <= at /\ at < k + 2 * Width[t]
      BY <1>1, LastWindow
    <3> HIDE DEF start
    <3>4. ASSUME start = k PROVE FALSE
      <4>1. k + Width[t] <= at /\ at < k + 2 * Width[t]
        BY <3>3, <3>4
      <4>2. at \notin upset
        BY <1>1, <4>1 DEF Calm
      <4>3. AggregateTick(t) + Width[t] = now /\ at = now
        BY <3>1, <4>2
      <4> QED BY <1>1, <4>1, <4>3 DEF Aggregated
    <3> QED BY <1>2, <3>2, <3>4 DEF Adds
  <2>2. CASE Deletion(t)
    <3>1. PICK at \in Nat : at <= now /\ db' = DeleteOld(t, at)
      BY <2>2 DEF Deletion
    <3>2. /\ DOMAIN db'[t] = {x \in DOMAIN db[t] : x >= at - Keep[t]}
          /\ \A x \in DOMAIN db[t] : x >= at - Keep[t] => db'[t][x] = db[t][x]
      BY <1>1, <3>1, DeleteKey
    <3>3. k >= at - Keep[t]
      BY <1>1, <3>1, <3>2
    <3> QED BY <1>2, <3>2, <3>3
  <2>3. CASE Mishap(t)
    BY <1>2, <2>3 DEF Mishap
  <2>4. CASE Elsewhere(t)
    BY <1>2, <2>4 DEF Elsewhere
  <2> QED BY <2>1, <2>2, <2>3, <2>4
<1>4. CASE t \in FromRaw
  <2>1. t # "agent15" /\ t # "agentHour"
    BY <1>4 DEF FromRaw
  <2> QED BY <1>3, <2>1 DEF Good
<1>5. CASE started' = started
  <2>1. Raced(Fifteen)' = Raced(Fifteen) /\ Raced(Width[t])' = Raced(Width[t])
    BY <1>5 DEF Raced
  <2>2. InTime(t, k)' = InTime(t, k)
    BY <2>1 DEF InTime
  <2>3. LastFive(k, db[t][k][1])' <=> LastFive(k, db[t][k][1])
    BY <1>3, <2>1 DEF LastFive
  <2> QED BY <1>3, <2>2, <2>3 DEF Good
<1> QED BY <1>4, <1>5

\* A window that is not disturbed goes from waiting to having its row, at its tick.
LEMMA WindowStep ==
  ASSUME TypeInv, TickInv, OrderInv, [Next]_vars,
         NEW t \in Wider, NEW k \in Nat, k % Width[t] = 0, WindowOk(t, k), now' \in Nat,
         \* It goes on waiting.
         /\ Undisturbed(t, k) /\ Undisturbed(t, k)'
         /\ Waiting(t, k) /\ ~Aggregated(t, k) /\ ~Aggregated(t, k)'
         /\ now < k + 2 * Width[t]
         => Waiting(t, k)',
         \* Its tick comes.
         /\ Undisturbed(t, k) /\ Waiting(t, k)
         /\ up /\ now \notin upset /\ started' = started
         /\ k + Width[t] <= now /\ now < k + 2 * Width[t]
         /\ AggregateTick(t) = now - Width[t]
         /\ db' = AggregateRows(Source(t), t, now)
         => Good(t, k)'
  PROVE  WindowOk(t, k)'
PROOF
<1> DEFINE w == Width[t]
<1>1. /\ now \in Nat /\ w \in Nat \ {0} /\ AggregateTick(t) \in Int /\ Keep[t] \in Nat
      /\ AggregateTick(t) <= now /\ started \in Nat /\ started <= now
      /\ LastTick(Aggregator(t)) = loop[Aggregator(t)].fire - w
      /\ Aggregator(t) \in Loops /\ loop[Aggregator(t)].fire \in Nat
      /\ t = "agentHour" => Aggregator(t) = "hourly"
  <2>1. /\ Aggregator(t) \in Loops /\ (t = "agentHour" => Aggregator(t) = "hourly")
        /\ w \in Nat \ {0} /\ Keep[t] \in Nat
    BY WiderConstants
  <2>2. /\ now \in Nat /\ started \in Nat /\ AggregateTick(t) \in Int
        /\ LastTick(Aggregator(t)) = loop[Aggregator(t)].fire - w
        /\ AggregateTick(t) <= LastTick(Aggregator(t)) /\ LastTick(Aggregator(t)) <= now
        /\ LastTick(Aggregator(t)) \in Int
    BY WiderFacts
  <2>3. started <= now
    BY DEF TickInv
  <2>4. loop[Aggregator(t)].fire \in Nat
    BY <2>1 DEF TypeInv, ClockType
  <2> HIDE DEF w
  <2> QED BY <2>1, <2>2, <2>3, <2>4
<1> SUFFICES ASSUME Undisturbed(t, k)'
             PROVE  /\ ~Aggregated(t, k)' => now' < k + 2 * w /\ Waiting(t, k)'
                    /\ Aggregated(t, k)' /\ k >= now' - Keep[t] => Good(t, k)'
  BY DEF WindowOk
<1>2. Calm(k, k + 2 * w - 1)' /\ (t \notin FromRaw => started' < k)
  BY DEF Undisturbed
<1>3. upset \subseteq upset' => Calm(k, k + 2 * w - 1)
  BY <1>2 DEF Calm
<1> HIDE DEF w
<1>4. CASE Aggregation(t)
  <2>1. /\ up /\ now' = now /\ upset' = upset /\ started' = started
        /\ AggregateTick(t)' = AggregateTick(t) + w /\ AggregateTick(t)' <= now
    BY <1>4 DEF Aggregation, w
  <2>2. Undisturbed(t, k)
    BY <1>2, <1>3, <2>1 DEF Undisturbed, w
  <2>3. CASE Aggregated(t, k)
    <3>1. Aggregated(t, k)'
      BY <1>1, <2>1, <2>3 DEF Aggregated, w
    <3>2. k >= now' - Keep[t] => Good(t, k)
      BY <2>1, <2>2, <2>3 DEF WindowOk
    <3>3. k >= now' - Keep[t] => Good(t, k)'
      BY <1>3, <1>4, <2>1, <2>3, <3>2, GoodKept DEF w
    <3> QED BY <3>1, <3>3
  <2>4. CASE ~Aggregated(t, k)
    <3>1. now < k + 2 * w /\ Waiting(t, k)
      BY <2>2, <2>4 DEF WindowOk, w
    <3>2. CASE ~Aggregated(t, k)'
      BY <2>1, <2>2, <2>4, <3>1, <3>2 DEF w
    <3>3. CASE Aggregated(t, k)'
      <4>1. k + w <= now
        BY <1>1, <2>1, <3>3 DEF Aggregated, w
      <4>2. now \notin upset
        BY <1>1, <1>3, <2>1, <3>1, <4>1 DEF Calm
      <4>3. AggregateTick(t)' = now /\ db' = AggregateRows(Source(t), t, now)
        BY <1>4, <4>2 DEF Aggregation
      <4>4. AggregateTick(t) = now - w
        BY <1>1, <2>1, <4>3
      <4>5. Good(t, k)'
        BY <2>1, <2>2, <3>1, <4>1, <4>2, <4>3, <4>4 DEF w
      <4> QED BY <3>3, <4>5
    <3> QED BY <3>2, <3>3
  <2> QED BY <2>3, <2>4
<1>5. CASE Deletion(t)
  <2>1. /\ now' = now /\ upset' = upset /\ started' = started
        /\ AggregateTick(t)' = AggregateTick(t)
    BY <1>5 DEF Deletion
  <2>2. Undisturbed(t, k) /\ (Aggregated(t, k)' <=> Aggregated(t, k))
    BY <1>2, <1>3, <2>1 DEF Undisturbed, Aggregated, w
  <2>3. CASE Aggregated(t, k)
    <3>1. k >= now' - Keep[t] => Good(t, k)
      BY <2>1, <2>2, <2>3 DEF WindowOk
    <3>2. k >= now' - Keep[t] => Good(t, k)'
      BY <1>3, <1>5, <2>1, <2>3, <3>1, GoodKept DEF w
    <3> QED BY <2>2, <2>3, <3>2
  <2>4. CASE ~Aggregated(t, k)
    <3>1. now < k + 2 * w /\ Waiting(t, k)
      BY <2>2, <2>4 DEF WindowOk, w
    <3> QED BY <2>1, <2>2, <2>4, <3>1 DEF w
  <2> QED BY <2>3, <2>4
<1>6. CASE Mishap(t)
  <2>1. /\ now' = now /\ upset' = upset \cup {now} /\ started' \in {started, now}
        /\ AggregateTick(t) <= AggregateTick(t)' /\ AggregateTick(t)' <= now
        /\ AggregateTick(t)' \in Int
    BY <1>6 DEF Mishap
  <2>2. Calm(k, k + 2 * w - 1)
    BY <1>3, <2>1
  <2>3. now < k \/ k + 2 * w <= now
    BY <1>1, <1>2, <2>1 DEF Calm
  <2>4. CASE now < k
    <3>1. ~Aggregated(t, k) /\ ~Aggregated(t, k)'
      BY <1>1, <2>1, <2>4 DEF Aggregated, w
    <3>2. Undisturbed(t, k)
      BY <1>1, <2>2, <2>4 DEF Undisturbed, w
    <3>3. now < k + 2 * w /\ Waiting(t, k)
      BY <3>1, <3>2 DEF WindowOk, w
    <3> QED BY <2>1, <3>1, <3>2, <3>3 DEF w
  <2>5. CASE k + 2 * w <= now
    <3>1. t \in FromRaw \/ started' = started
      BY <1>1, <1>2, <2>1, <2>5
    <3>2. Undisturbed(t, k)
      BY <1>2, <2>2, <3>1 DEF Undisturbed, w
    <3>3. Aggregated(t, k)
      BY <1>1, <2>5, <3>2 DEF WindowOk, w
    <3>4. Aggregated(t, k)'
      BY <1>1, <2>1, <3>3 DEF Aggregated, w
    <3>5. k >= now' - Keep[t] => Good(t, k)
      BY <2>1, <3>2, <3>3 DEF WindowOk
    <3>6. k >= now' - Keep[t] => Good(t, k)'
      BY <1>6, <2>1, <2>2, <3>1, <3>3, <3>5, GoodKept DEF w
    <3> QED BY <3>4, <3>6
  <2> QED BY <2>3, <2>4, <2>5
<1>7. CASE Elsewhere(t)
  <2>1. /\ AggregateTick(t)' = AggregateTick(t) /\ started' = started /\ upset \subseteq upset'
        /\ now' = now \/ (now' = now + 1 /\ (now \notin upset' => Quiet))
    BY <1>7 DEF Elsewhere
  <2>2. Undisturbed(t, k) /\ (Aggregated(t, k)' <=> Aggregated(t, k))
    BY <1>2, <1>3, <2>1 DEF Undisturbed, Aggregated, w
  <2>3. CASE Aggregated(t, k)
    <3>1. k >= now' - Keep[t] => k >= now - Keep[t] /\ Good(t, k)
      <4>1. k >= now' - Keep[t] => k >= now - Keep[t]
        BY <1>1, <2>1
      <4> QED BY <2>2, <2>3, <4>1 DEF WindowOk
    <3>2. k >= now' - Keep[t] => Good(t, k)'
      BY <1>3, <1>7, <2>1, <2>3, <3>1, GoodKept DEF w
    <3> QED BY <2>2, <2>3, <3>2
  <2>4. CASE ~Aggregated(t, k)
    <3>1. now < k + 2 * w /\ Waiting(t, k)
      BY <2>2, <2>4 DEF WindowOk, w
    <3>2. ASSUME now' = now + 1, now + 1 = k + 2 * w PROVE FALSE
      <4>1. now \notin upset'
        BY <1>1, <1>2, <3>2 DEF Calm
      <4>2. loop[Aggregator(t)].todo = <<>> /\ now < loop[Aggregator(t)].fire
        BY <1>1, <2>1, <3>2, <4>1 DEF Quiet, Busy
      <4>3. AggregateTick(t) = LastTick(Aggregator(t))
        <5>1. t = "agentHour" => ~Pending
          BY <1>1, <4>2 DEF Pending
        <5> QED BY <5>1 DEF AggregateTick
      <4>4. k + w <= AggregateTick(t)
        BY <1>1, <3>2, <4>2, <4>3
      <4> QED BY <2>4, <4>4 DEF Aggregated, w
    <3>3. now' < k + 2 * w
      BY <1>1, <2>1, <3>1, <3>2
    <3> QED BY <2>2, <2>4, <3>1, <3>3 DEF w
  <2> QED BY <2>3, <2>4
<1> QED BY <1>4, <1>5, <1>6, <1>7, WiderStep

\* The row that a tick computes.
LEMMA ComputedRow ==
  ASSUME TypeInv, NEW t \in Wider, NEW k \in Nat, k % Width[t] = 0,
         k + Width[t] <= now, now < k + 2 * Width[t],
         db' = AggregateRows(Source(t), t, now), t \in Unique \/ k \notin DOMAIN db[t],
         Counted(Source(t), t, k, k + Width[t] - 1) # {}
  PROVE  /\ k \in DOMAIN db'[t]
         /\ db'[t][k] = <<Counted(Source(t), t, k, k + Width[t] - 1)>>
PROOF
<1> DEFINE w == Width[t]
           end == Truncate(now, w)
           start == end - w
           raw == Counted(Source(t), t, k, k + w - 1)
           old == IF start \in DOMAIN db[t] /\ t \notin Unique THEN db[t][start] ELSE <<>>
           got == Counted(Source(t), t, start, end - 1)
           rows == Append(old, got)
<1>1. now \in Nat /\ w \in Nat \ {0} /\ t \in Tables
  BY WiderConstants DEF TypeInv, RunInv
<1>2. db' = IF got = {} THEN db ELSE [db EXCEPT ![t] = With(db[t], start, rows)]
  BY DEF AggregateRows
<1>3. start = k
  BY <1>1, LastWindow
<1>4. end \in Nat
  BY <1>1, TruncateType
<1>5. end - 1 = k + w - 1
  <2> HIDE DEF end, w
  <2> QED BY <1>1, <1>3, <1>4
<1>6. got = raw
  <2> HIDE DEF start, end, w
  <2> QED BY <1>3, <1>5
<1>7. old = <<>>
  <2> HIDE DEF start
  <2> QED BY <1>3
<1>8. db = [x \in Tables |-> db[x]]
  BY DEF TypeInv, DbType
<1> HIDE DEF old, got, start
<1>9. rows = <<raw>>
  BY <1>6, <1>7
<1>10. db'[t] = With(db[t], k, <<raw>>)
  <2> HIDE DEF raw, rows
  <2>1. got # {}
    BY <1>6 DEF raw
  <2> QED BY <1>1, <1>2, <1>3, <1>8, <1>9, <2>1
<1> HIDE DEF raw
<1>11. k \in DOMAIN db'[t] /\ db'[t][k] = <<raw>>
  BY <1>10 DEF With
<1> QED BY <1>11 DEF raw

LEMMA RawConstants ==
  ASSUME NEW t \in FromRaw
  PROVE  /\ t \in Wider /\ t # "agent15" /\ t # "agentHour"
         /\ Source(t) \in {"checks", "agent"} /\ Source(t) \in Tables \ Daily
         /\ Keep[Source(t)] \in Nat /\ Keep[Source(t)] >= Width[t]
PROOF
<1>1. t \in Wider /\ t # "agent15" /\ t # "agentHour" /\ Source(t) \in {"checks", "agent"}
  BY DEF FromRaw, Wider, Source
<1>2. Keep["checks"] >= Hour /\ Keep["agent"] >= MaxLate + FiveMin /\ MaxLate \in Nat
  BY DownsamplingAssumption DEF DownsamplingAssumption, RetentionFits
<1>3. \A x \in {"checks", "agent"} : x \in Tables \ Daily /\ Keep[x] \in Nat
  BY Constants DEF Tables, Daily
<1>4. /\ t = "checkHour" => Source(t) = "checks" /\ Width[t] = Hour
      /\ t = "agent5" => Source(t) = "agent" /\ Width[t] = FiveMin
  BY DEF Source, Width
<1>5. FiveMin \in Nat /\ Hour \in Nat /\ t \in {"checkHour", "agent5"}
  BY Constants DEF FromRaw
<1> QED BY <1>1, <1>2, <1>3, <1>4, <1>5

\* A window with a raw row for each unit of time is counted in full.
LEMMA RawComputed ==
  ASSUME TypeInv, NEW t \in FromRaw, NEW k \in Nat, k % Width[t] = 0, Waiting(t, k),
         k + Width[t] <= now, now < k + 2 * Width[t],
         db' = AggregateRows(Source(t), t, now)
  PROVE  Good(t, k)'
PROOF
<1> DEFINE w == Width[t]
           keys == Between(Source(t), k, k + w - 1)
<1>1. /\ now \in Nat /\ w \in Nat \ {0} /\ t \in Wider /\ t # "agent15" /\ t # "agentHour"
      /\ Source(t) \in Tables \ Daily
  BY RawConstants, WiderConstants DEF TypeInv, RunInv
<1>2. k \notin DOMAIN db[t] /\ Recorded(t, k)
  BY DEF Waiting
<1>3. \A c \in k..(k + w - 1) : c \in DOMAIN db[Source(t)] /\ db[Source(t)][c] = <<{c}>>
  BY <1>1, <1>2 DEF Recorded
<1> HIDE DEF w
<1>4. keys = k..(k + w - 1)
  <2>1. \A x \in DOMAIN db[Source(t)] : x \in Nat
    BY <1>1, KeyType
  <2> QED BY <1>1, <1>3, <2>1 DEF Between
<1>5. \A c \in keys : ToSet(db[Source(t)][c]) = {{c}}
  <2> SUFFICES ASSUME NEW c \in keys PROVE ToSet(db[Source(t)][c]) = {{c}}
    OBVIOUS
  <2>1. db[Source(t)][c] = <<{c}>>
    BY <1>3, <1>4
  <2>2. \A x : ToSet(<<x>>) = {x}
    BY DEF ToSet
  <2> HIDE DEF keys
  <2> QED BY <2>1, <2>2
<1> HIDE DEF keys
<1>6. RowsOf(Source(t), keys) = keys
  <2>1. {ToSet(db[Source(t)][c]) : c \in keys} = {{{c}} : c \in keys}
    BY <1>5
  <2>2. UNION {{{c}} : c \in keys} = {{c} : c \in keys}
    OBVIOUS
  <2>3. UNION {{c} : c \in keys} = keys
    OBVIOUS
  <2> QED BY <2>1, <2>2, <2>3 DEF RowsOf
<1>7. Counted(Source(t), t, k, k + w - 1) = keys
  <2>1. Counted(Source(t), t, k, k + w - 1) = RowsOf(Source(t), keys)
    BY <1>1 DEF Counted, keys
  <2> QED BY <1>6, <2>1
<1>8. k \in keys
  BY <1>1, <1>4
<1>9. k \in DOMAIN db'[t] /\ db'[t][k] = <<keys>>
  BY <1>1, <1>2, <1>7, <1>8, ComputedRow DEF w
<1>10. db'[t][k] = <<k..(k + w - 1)>> /\ Len(db'[t][k]) = 1
  BY <1>4, <1>9
<1> QED BY <1>1, <1>9, <1>10 DEF Good, w

\* Only the goroutine that counts raw rows deletes them.
LEMMA RawDeletion ==
  ASSUME NEW l \in Loops, NEW s, s \in Later(l) \/ s = First(l), NEW t \in FromRaw
  PROVE  /\ s.do = "aggregate" => s.dst # Source(t)
         /\ s.do # "aggregate" /\ s.src = Source(t) => l = Aggregator(t) /\ s # First(l)
PROOF
<1>1. CASE l = "five"
  BY <1>1 DEF Later, First, Aggregate, Delete, FromRaw, Aggregator, Source
<1>2. CASE l = "fifteen"
  BY <1>2 DEF Later, First, Aggregate, Delete, FromRaw, Aggregator, Source
<1>3. CASE l = "hourly"
  BY <1>3 DEF Later, First, Aggregate, Delete, FromRaw, Aggregator, Source
<1>4. CASE l = "daily"
  BY <1>4 DEF Later, First, Aggregate, Delete, FromRaw, Aggregator, Source
<1> QED BY <1>1, <1>2, <1>3, <1>4 DEF Loops

\* A raw row of a window that waits for its tick is not deleted: the runs delete
\* at a tick, when this window does not wait any more or has not ended, and retention is
\* longer than a window.
LEMMA RawKept ==
  ASSUME TypeInv, TickInv, OrderInv, [Next]_vars, NEW t \in FromRaw, NEW k \in Nat,
         Calm(k, k + 2 * Width[t] - 1), now < k + 2 * Width[t], ~Aggregated(t, k),
         NEW c \in k..(k + Width[t] - 1), c <= now,
         c \in DOMAIN db[Source(t)], db[Source(t)][c] = <<{c}>>
  PROVE  c \in DOMAIN db'[Source(t)] /\ db'[Source(t)][c] = <<{c}>>
PROOF
<1>1. /\ now \in Nat /\ Width[t] \in Nat \ {0} /\ t \in Wider /\ t # "agentHour" /\ RunInv
      /\ Source(t) \in {"checks", "agent"} /\ Source(t) \in Tables \ Daily
      /\ Keep[Source(t)] \in Nat /\ Keep[Source(t)] >= Width[t]
      /\ c \in Int /\ k <= c
  <2>1. RunInv
    BY DEF TypeInv
  <2>2. now \in Nat
    BY <2>1 DEF RunInv
  <2>3. t \in Wider
    BY RawConstants
  <2>4. Width[t] \in Nat \ {0}
    BY <2>3, WiderConstants
  <2> QED BY <2>1, <2>2, <2>3, <2>4, RawConstants
<1>2. AggregateTick(t) = LastTick(Aggregator(t))
  BY <1>1 DEF AggregateTick
<1>3. ASSUME db'[Source(t)] = db[Source(t)] PROVE c \in DOMAIN db'[Source(t)] /\ db'[Source(t)][c] = <<{c}>>
  BY <1>3
<1>4. ASSUME NEW l \in Loops, Statement(l)
      PROVE  c \in DOMAIN db'[Source(t)] /\ db'[Source(t)][c] = <<{c}>>
  <2> DEFINE s == Head(Run(l).todo)
             at == Run(l).at
  <2>1. /\ Busy(l) /\ up /\ loop[l].fire \in Nat
        /\ db' = Execute(s, at) /\ s \in Legal /\ at \in Nat /\ at <= now
        /\ s \in Later(l) \/ s = First(l)
        /\ loop[l].todo = <<>> => s = First(l)
    BY <1>1, <1>4, RunLegal DEF Statement, TypeInv, ClockType
  <2>2. /\ s.do = "aggregate" => s.dst # Source(t)
        /\ s.do # "aggregate" /\ s.src = Source(t) => l = Aggregator(t) /\ s # First(l)
    BY <2>1, RawDeletion
  <2>3. loop[l].todo # <<>> =>
          /\ at = now \/ at \in upset
          /\ now \notin upset => at = now /\ LastTick(l) = now
    <3>1. loop[l].todo # <<>> => Run(l) = loop[l]
      BY <1>1, <2>1, RunFire
    <3> QED BY <3>1 DEF OrderInv, TickInv, LoopInv
  <2> HIDE DEF s, at
  <2>4. CASE s.do = "aggregate"
    <3>1. db' = AggregateRows(s.src, s.dst, at) /\ <<s.src, s.dst>> \in Tiers
      BY <2>1, <2>4 DEF Execute, Legal
    <3>2. Adds(db, db', s.dst, Truncate(at, Width[s.dst]) - Width[s.dst])
      BY <2>1, <3>1, AggregateAdds
    <3>3. db'[Source(t)] = db[Source(t)]
      BY <1>1, <2>2, <2>4, <3>2 DEF Adds
    <3> QED BY <1>3, <3>3
  <2>5. CASE s.do # "aggregate" /\ s.src # Source(t)
    <3>1. db' = DeleteOld(s.src, at) /\ s.src \in Tables
      BY <2>1, <2>5 DEF Execute, Legal, Statements
    <3>2. db'[Source(t)] = db[Source(t)]
      BY <1>1, <2>5, <3>1, DeleteKey
    <3> QED BY <1>3, <3>2
  <2>6. CASE s.do # "aggregate" /\ s.src = Source(t)
    <3>1. db' = DeleteOld(Source(t), at)
      BY <2>1, <2>6 DEF Execute
    <3>2. l = Aggregator(t) /\ loop[l].todo # <<>>
      BY <2>1, <2>2, <2>6
    <3>3. ASSUME c < at - Keep[Source(t)] PROVE FALSE
      <4>1. k + Width[t] <= at
        BY <1>1, <2>1, <3>3
      <4>2. at \in k..(k + 2 * Width[t] - 1)
        BY <1>1, <2>1, <4>1
      <4>3. LastTick(l) = at
        <5>1. at \notin upset
          BY <4>2 DEF Calm
        <5> QED BY <2>3, <3>2, <5>1
      <4> QED BY <1>2, <3>2, <4>1, <4>3 DEF Aggregated
    <3>4. c >= at - Keep[Source(t)]
      BY <1>1, <2>1, <3>3
    <3> QED BY <1>1, <3>1, <3>4, DeleteKey
  <2> QED BY <2>4, <2>5, <2>6
<1>5. ASSUME NEW l \in Loops, StatementFails(l)
      PROVE  c \in DOMAIN db'[Source(t)] /\ db'[Source(t)][c] = <<{c}>>
  BY <1>3, <1>5 DEF StatementFails
<1>6. CASE Crash \/ Start \/ UNCHANGED vars
  BY <1>3, <1>6 DEF Crash, Start, vars
<1>7. CASE Deliver
  <2>1. PICK x \in owed : db' = InsertAgentMetrics(db, x)
    BY <1>7 DEF Deliver
  <2> DEFINE row == <<{x}>>
  <2>2. db' = [db EXCEPT !["agent"] = With(db["agent"], x, row)]
    BY <2>1 DEF InsertAgentMetrics
  <2>3. db = [y \in Tables |-> db[y]] /\ "agent" \in Tables
    BY DEF TypeInv, DbType, Tables
  <2>4. row = <<{x}>>
    OBVIOUS
  <2> HIDE DEF row
  <2> DEFINE d == [db EXCEPT !["agent"] = With(db["agent"], x, row)]
  <2>5. Adds(db, d, "agent", x) /\ x \in DOMAIN d["agent"] /\ d["agent"][x] = row
    BY <2>3, WithAdds
  <2>9. d = db'
    BY <2>2
  <2> HIDE DEF d
  <2>6. CASE Source(t) # "agent"
    BY <1>1, <1>3, <2>5, <2>6, <2>9 DEF Adds
  <2>7. CASE Source(t) = "agent" /\ c = x
    BY <2>4, <2>5, <2>7, <2>9
  <2>8. CASE Source(t) = "agent" /\ c # x
    BY <2>5, <2>8, <2>9 DEF Adds
  <2> QED BY <2>6, <2>7, <2>8
<1>8. CASE Pass \/ PassUnpushed \/ PassDown
  <2>1. c # now + 1
    BY <1>1
  <2> QED BY <1>1, <1>8, <2>1, PassAdds
<1> QED BY <1>4, <1>5, <1>6, <1>7, <1>8 DEF Next

LEMMA RawWaits ==
  ASSUME TypeInv, TickInv, OrderInv, [Next]_vars, NEW t \in FromRaw, NEW k \in Nat,
         k % Width[t] = 0, Undisturbed(t, k), Undisturbed(t, k)', Waiting(t, k),
         ~Aggregated(t, k), ~Aggregated(t, k)', now < k + 2 * Width[t]
  PROVE  Waiting(t, k)'
PROOF
<1>1. /\ now \in Nat /\ Width[t] \in Nat \ {0} /\ t \in Wider /\ t # "agentHour"
      /\ t \in Tables /\ <<Source(t), t>> \in Tiers /\ Source(t) \in {"checks", "agent"}
  BY RawConstants, WiderConstants DEF TypeInv, RunInv
<1>2. k \notin DOMAIN db[t] /\ Recorded(t, k)
  BY DEF Waiting
<1>3. Calm(k, k + 2 * Width[t] - 1) /\ Calm(k, k + 2 * Width[t] - 1)'
  BY DEF Undisturbed
<1>4. k \notin DOMAIN db'[t]
  <2>1. CASE Aggregation(t)
    <3>1. PICK at \in Nat :
            /\ at <= now /\ (at = now \/ at \in upset)
            /\ now \notin upset => at = now /\ AggregateTick(t)' = now
            /\ db' = AggregateRows(Source(t), t, at)
      BY <2>1 DEF Aggregation
    <3> DEFINE start == Truncate(at, Width[t]) - Width[t]
    <3>2. Adds(db, db', t, start)
      BY <1>1, <3>1, AggregateAdds
    <3>3. start = k => k + Width[t] <= at /\ at < k + 2 * Width[t]
      BY <1>1, LastWindow
    <3> HIDE DEF start
    <3>4. ASSUME start = k PROVE FALSE
      <4>1. k + Width[t] <= at /\ at < k + 2 * Width[t]
        BY <3>3, <3>4
      <4>2. at \notin upset
        BY <1>1, <1>3, <4>1 DEF Calm
      <4> QED BY <3>1, <4>1, <4>2 DEF Aggregated
    <3> QED BY <1>2, <3>2, <3>4 DEF Adds
  <2>2. CASE Deletion(t)
    <3>1. PICK at \in Nat : db' = DeleteOld(t, at)
      BY <2>2 DEF Deletion
    <3> QED BY <1>1, <1>2, <3>1, DeleteKey
  <2>3. CASE Mishap(t) \/ Elsewhere(t)
    BY <1>2, <2>3 DEF Mishap, Elsewhere
  <2> QED BY <1>1, <2>1, <2>2, <2>3, WiderStep
<1>5. ASSUME NEW c \in k..(k + Width[t] - 1), c <= now'
      PROVE  c \in DOMAIN db'[Source(t)] /\ db'[Source(t)][c] = <<{c}>>
  <2>1. CASE c <= now
    <3>1. c \in DOMAIN db[Source(t)] /\ db[Source(t)][c] = <<{c}>>
      BY <1>2, <2>1 DEF Recorded
    <3> QED BY <1>3, <2>1, <3>1, RawKept
  <2>2. CASE ~(c <= now)
    <3>1. Pass \/ PassUnpushed \/ PassDown
      <4>1. now' # now
        BY <1>5, <2>2
      <4> QED BY <4>1 DEF Next, Statement, StatementFails, Crash, Start, Deliver, vars
    <3>2. now' = now + 1
      BY <3>1 DEF Pass, PassUnpushed, PassDown
    <3>3. c = now + 1
      BY <1>1, <1>5, <2>2, <3>2
    <3>4. now + 1 \notin upset'
      BY <1>1, <1>3, <3>3 DEF Calm
    <3> QED BY <1>1, <3>1, <3>3, <3>4, PassAdds
  <2> QED BY <2>1, <2>2
<1>6. Recorded(t, k)'
  BY <1>5 DEF Recorded
<1> QED BY <1>1, <1>4, <1>6 DEF Waiting

\* The windows that are computed from those of five minutes.
FromFives == {"agent15", "agentHour"}

LEMMA FivesConstants ==
  /\ FiveMin \in Nat \ {0} /\ Width["agent5"] = FiveMin
  /\ Keep["agent5"] \in Nat /\ Keep["agent5"] >= Hour /\ Keep["agent5"] >= 2 * FiveMin
  /\ Hour \in Nat \ {0} /\ Hour >= 2 * Fifteen
  /\ "agent5" \in Wider /\ "agent5" \in FromRaw /\ "agent5" \in Tables \ Daily
  /\ Aggregator("agent5") = "five" /\ "five" \in Loops
  /\ AggregateTick("agent5") = LastTick("five")
PROOF
<1>1. /\ "agent5" \in Wider /\ "agent5" \in FromRaw /\ "agent5" \in Tables \ Daily
      /\ "five" \in Loops
  BY DEF Wider, FromRaw, Tables, Daily, Loops
<1>2. Aggregator("agent5") = "five" /\ Width["agent5"] = FiveMin
  BY DEF Aggregator, Width
<1>3. AggregateTick("agent5") = LastTick("five")
  BY <1>2 DEF AggregateTick
<1>4. /\ Keep["agent5"] >= Hour /\ Keep["agent5"] >= 2 * FiveMin
      /\ Hour % Fifteen = 0 /\ Fifteen < Hour
  BY DownsamplingAssumption DEF DownsamplingAssumption, RetentionFits
<1>5. Fifteen \in Nat \ {0} /\ Hour \in Nat \ {0} /\ FiveMin \in Nat \ {0}
  BY Constants
<1>6. Fifteen + Fifteen <= Hour
  BY <1>4, <1>5, SelfMultiple, MultipleGap
<1> QED BY <1>1, <1>2, <1>3, <1>4, <1>5, <1>6, Constants

LEMMA FromFivesConstants ==
  ASSUME NEW t \in FromFives
  PROVE  /\ t \in Wider /\ t \notin FromRaw /\ t \in Unique /\ Source(t) = "agent5"
         /\ Width[t] \in Nat \ {0} /\ Width[t] % FiveMin = 0 /\ Width[t] >= 2 * FiveMin
         /\ t = "agent15" => Width[t] = Fifteen
         /\ t = "agentHour" => Width[t] = Hour
PROOF
<1>1. /\ t \in Wider /\ t \notin FromRaw /\ t \in Unique /\ Source(t) = "agent5"
      /\ t = "agent15" => Width[t] = Fifteen
      /\ t = "agentHour" => Width[t] = Hour
  BY DEF FromFives, Wider, FromRaw, Unique, Source, Width
<1>2. FiveMin \in Nat \ {0} /\ Fifteen \in Nat \ {0} /\ Hour \in Nat \ {0}
  BY Constants
<1>3. Fifteen % FiveMin = 0 /\ Hour % Fifteen = 0 /\ FiveMin < Fifteen /\ Fifteen < Hour
  BY DownsamplingAssumption DEF DownsamplingAssumption
<1>4. Hour % FiveMin = 0
  <2>1. Hour \in Int /\ Hour % Fifteen = 0 /\ Fifteen % FiveMin = 0
    BY <1>2, <1>3
  <2> QED BY <1>2, <2>1, MultipleOfMultiple
<1>5. FiveMin + FiveMin <= Fifteen
  BY <1>2, <1>3, SelfMultiple, MultipleGap
<1> QED BY <1>1, <1>2, <1>3, <1>4, <1>5 DEF FromFives

LEMMA RacedType ==
  ASSUME NEW w \in Nat \ {0}, w % FiveMin = 0, started \in Nat
  PROVE  /\ Raced(w) \in {0, FiveMin} /\ Raced(w) \in Nat /\ Raced(w) <= FiveMin
         /\ Raced(w) % FiveMin = 0
         /\ (started % w) + Raced(w) >= FiveMin
PROOF
<1>1. FiveMin \in Nat \ {0}
  BY Constants
<1>2. 0 % FiveMin = 0 /\ FiveMin % FiveMin = 0
  BY <1>1, SelfMultiple
<1>3. started % w \in Nat
  BY Division
<1> QED BY <1>1, <1>2, <1>3 DEF Raced

\* At a tick of fifteen minutes or of an hour, the five minutes that ended with the
\* window have had their own, but for the last five when the tickers race.
LEMMA FivesInTime ==
  ASSUME TypeInv, TickInv, OrderInv, NEW t \in FromFives, NEW k \in Nat, k % Width[t] = 0,
         up, now \notin upset, k + Width[t] <= now, AggregateTick(t) = now - Width[t]
  PROVE  k + Width[t] - Raced(Width[t]) <= AggregateTick("agent5")
PROOF
<1> DEFINE w == Width[t]
           phase == started % w
           m == Truncate(started, w)
           since == now - started
           next == now - phase
<1>1. /\ t \in Wider /\ w \in Nat \ {0} /\ w % FiveMin = 0
      /\ FiveMin \in Nat \ {0} /\ "agent5" \in Wider /\ "five" \in Loops
      /\ AggregateTick("agent5") = LastTick("five") /\ Aggregator("agent5") = "five"
      /\ Width["agent5"] = FiveMin
  BY FromFivesConstants, FivesConstants
<1>2. now \in Nat /\ started \in Nat /\ (AggregateTick(t) - started) % w = 0
  BY <1>1, WiderFacts
<1>3. m \in Nat /\ m % w = 0 /\ phase = started - m /\ phase \in Nat /\ phase < w
  <2>1. m \in Nat /\ m % w = 0
    BY <1>1, <1>2, TruncateType
  <2>2. phase \in Nat /\ phase < w
    <3> HIDE DEF w
    <3>1. started \in Int /\ w \in Nat \ {0}
      BY <1>1, <1>2
    <3>2. phase \in 0..(w - 1)
      BY <3>1, Division
    <3> QED BY <3>1, <3>2
  <2>3. phase = started - m
    BY <1>2, <2>2 DEF Truncate
  <2> HIDE DEF phase, m, w
  <2> QED BY <2>1, <2>2, <2>3
<1>4. phase + Raced(w) >= FiveMin /\ Raced(w) \in Nat
  BY <1>1, <1>2, RacedType
<1>5. LastTick("five") = loop["five"].fire - FiveMin /\ loop["five"].fire >= now
      /\ loop["five"].fire \in Nat
  <2>1. LastTick("five") = loop["five"].fire - FiveMin
    BY <1>1, WiderFacts
  <2>2. loop["five"].fire \in Nat
    BY <1>1 DEF TypeInv, ClockType
  <2>3. ~(loop["five"].fire < now)
    BY <1>1 DEF TickInv, LoopInv
  <2> QED BY <1>2, <2>1, <2>2, <2>3
<1> HIDE DEF w, phase, m
<1>6. (since - w) % w = 0
  <2>1. since - w = AggregateTick(t) - started
    BY <1>1, <1>2 DEF w
  <2> QED BY <1>2, <2>1
<1>7. since \in Int /\ since - w \in Int /\ w % w = 0 /\ w \in Int
  BY <1>1, <1>2, SelfMultiple
<1>8. since % w = 0
  <2> DEFINE y == since - w
  <2>1. y \in Int /\ y % w = 0 /\ since = y + w
    BY <1>6, <1>7
  <2> HIDE DEF y, since
  <2> QED BY <1>1, <1>7, <2>1, MultipleSum
<1>9. next % w = 0 /\ next \in Int
  <2>1. next = since + m
    BY <1>2, <1>3
  <2> HIDE DEF since, next
  <2>2. m \in Int /\ m % w = 0 /\ since \in Int /\ since % w = 0
    BY <1>3, <1>7, <1>8
  <2>3. (since + m) % w = 0
    BY <1>1, <2>2, MultipleSum
  <2> QED BY <2>1, <2>2, <2>3
<1>10. k \in Int /\ k < next
  BY <1>1, <1>2, <1>3 DEF w
<1>11. k + w <= next
  <2> HIDE DEF next
  <2>1. k % w = 0
    BY DEF w
  <2> QED BY <1>1, <1>9, <1>10, <2>1, MultipleGap
<1>12. k + w - Raced(w) <= LastTick("five")
  BY <1>1, <1>2, <1>3, <1>4, <1>5, <1>11
<1> QED BY <1>1, <1>12 DEF w

\* The last two windows of five minutes of a wider one.
LEMMA LastFives ==
  ASSUME NEW k \in Nat, NEW w \in Nat \ {0}, k % FiveMin = 0, w % FiveMin = 0, w >= 2 * FiveMin
  PROVE  LET w1 == k + w - FiveMin
             w0 == k + w - FiveMin - FiveMin
         IN /\ w1 \in Nat /\ w0 \in Nat /\ w1 % FiveMin = 0 /\ w0 % FiveMin = 0 /\ k <= w0
            /\ \A j \in Nat : j % FiveMin = 0 /\ j < k + w => j <= w1 /\ (j # w1 => j <= w0)
PROOF
<1> DEFINE f == FiveMin
           end == k + w
           w1 == end - f
           w0 == w1 - f
<1>1. f \in Nat \ {0} /\ f \in Int /\ f % f = 0 /\ k \in Int /\ w \in Int /\ k % f = 0
      /\ w % f = 0 /\ w >= 2 * f
  BY Constants, SelfMultiple
<1> HIDE DEF f
<1>2. (k + w) % f = 0
  BY <1>1, MultipleSum
<1>3. end \in Int /\ end % f = 0 /\ end = k + w
  BY <1>1, <1>2
<1> HIDE DEF end
<1>4. (end - f) % f = 0
  BY <1>1, <1>3, MultipleDifference
<1>5. w1 \in Int /\ w1 % f = 0 /\ w1 = end - f
  BY <1>1, <1>3, <1>4
<1> HIDE DEF w1
<1>6. (w1 - f) % f = 0
  BY <1>1, <1>5, MultipleDifference
<1>7. w0 \in Int /\ w0 % f = 0 /\ w0 = w1 - f
  BY <1>1, <1>5, <1>6
<1> HIDE DEF w0
<1>8. k <= w0 /\ w0 \in Nat /\ w1 \in Nat
  BY <1>1, <1>3, <1>5, <1>7
<1>9. ASSUME NEW j \in Nat, j % f = 0, j < end PROVE j <= w1 /\ (j # w1 => j <= w0)
  <2>1. j \in Int
    OBVIOUS
  <2>2. j + f <= end
    BY <1>1, <1>3, <1>9, <2>1, MultipleGap
  <2>3. j <= w1
    BY <1>1, <1>3, <1>5, <2>2
  <2>4. ASSUME j # w1 PROVE j + f <= w1
    <3>1. j < w1
      BY <1>5, <2>3, <2>4
    <3> QED BY <1>1, <1>5, <1>9, <2>1, <3>1, MultipleGap
  <2> QED BY <1>1, <1>5, <1>7, <2>3, <2>4
<1>10. k + w - FiveMin = w1 /\ k + w - FiveMin - FiveMin = w0 /\ k + w = end
  BY <1>1, <1>3, <1>5, <1>7 DEF f
<1> QED BY <1>5, <1>7, <1>8, <1>9, <1>10 DEF f

\* The windows of five minutes in a wider one are as calm as this one is.
LEMMA FivesCalm ==
  ASSUME NEW t \in FromFives, NEW k \in Nat, k % Width[t] = 0, NEW v \in Nat, v % FiveMin = 0,
         k <= v, v < k + Width[t]
  PROVE  /\ k % FiveMin = 0 /\ v + FiveMin <= k + Width[t]
         /\ (v..(v + 2 * FiveMin - 1)) \subseteq (k..(k + 2 * Width[t] - 1))
         /\ Calm(k, k + 2 * Width[t] - 1) => Undisturbed("agent5", v)
PROOF
<1> DEFINE w == Width[t]
           end == k + w
<1>1. /\ w \in Nat \ {0} /\ w % FiveMin = 0 /\ w >= 2 * FiveMin /\ FiveMin \in Nat \ {0}
      /\ Width["agent5"] = FiveMin /\ "agent5" \in FromRaw
  BY FromFivesConstants, FivesConstants
<1>2. k % FiveMin = 0
  <2>1. k \in Int /\ k % w = 0
    OBVIOUS
  <2> HIDE DEF w
  <2> QED BY <1>1, <2>1, MultipleOfMultiple
<1>3. v + FiveMin <= k + w
  <2> HIDE DEF w
  <2>1. k \in Int /\ w \in Int /\ end \in Int /\ v \in Int /\ v < end
    BY <1>1 DEF w
  <2>2. end % FiveMin = 0
    BY <1>1, <1>2, <2>1, MultipleSum
  <2> HIDE DEF end
  <2>3. v + FiveMin <= end
    BY <1>1, <2>1, <2>2, MultipleGap
  <2> QED BY <2>3 DEF end
<1> HIDE DEF w
<1>4. (v..(v + 2 * FiveMin - 1)) \subseteq (k..(k + 2 * w - 1))
  BY <1>1, <1>3
<1>5. Calm(k, k + 2 * w - 1) => Calm(v, v + 2 * FiveMin - 1)
  BY <1>4 DEF Calm
<1> QED BY <1>1, <1>2, <1>3, <1>4, <1>5 DEF Undisturbed, w

\* The rows of a window of five minutes that is good.
LEMMA FiveRow ==
  ASSUME NEW v, Good("agent5", v)
  PROVE  v \in DOMAIN db["agent5"] /\ ToSet(db["agent5"][v]) = {v..(v + FiveMin - 1)}
PROOF
<1>1. v \in DOMAIN db["agent5"] /\ db["agent5"][v] = <<v..(v + FiveMin - 1)>>
  BY FivesConstants DEF Good
<1>2. \A x : ToSet(<<x>>) = {x}
  BY DEF ToSet
<1> QED BY <1>1, <1>2

\* The row of fifteen minutes is that of the last five that are there.
LEMMA LastFiveCounted ==
  ASSUME NEW k, NEW v \in Between("agent5", k, k + Fifteen - 1), Good("agent5", v), v \in Int,
         \A j \in Between("agent5", k, k + Fifteen - 1) : j \in Int /\ j <= v
  PROVE  Counted("agent5", "agent15", k, k + Fifteen - 1) = v..(v + FiveMin - 1)
PROOF
<1> DEFINE keys == Between("agent5", k, k + Fifteen - 1)
           last == {x \in keys : \A j \in keys : j <= x}
           five == v..(v + FiveMin - 1)
<1>1. v \in keys /\ \A j \in keys : j \in Int /\ j <= v
  OBVIOUS
<1>2. ToSet(db["agent5"][v]) = {five}
  BY FiveRow
<1>3. Counted("agent5", "agent15", k, k + Fifteen - 1) = RowsOf("agent5", last)
  BY DEF Counted
<1> HIDE DEF keys, five
<1>4. last = {v}
  <2>1. v \in last
    BY <1>1
  <2>2. ASSUME NEW x \in last PROVE x = v
    <3>1. x \in Int /\ x <= v /\ v <= x /\ v \in Int
      BY <1>1
    <3> QED BY <3>1
  <2> HIDE DEF last
  <2> QED BY <2>1, <2>2
<1> HIDE DEF last
<1>5. RowsOf("agent5", {v}) = five
  <2>1. {ToSet(db["agent5"][x]) : x \in {v}} = {{five}}
    BY <1>2
  <2> QED BY <2>1 DEF RowsOf
<1> QED BY <1>3, <1>4, <1>5 DEF five

LEMMA FifteenTick ==
  ASSUME TypeInv, TickInv, OrderInv, NEW k \in Nat, k % Fifteen = 0,
         \A v \in Nat : v % FiveMin = 0 /\ k <= v /\ v < k + Fifteen => WindowOk("agent5", v),
         Undisturbed("agent15", k), up, now \notin upset, started' = started,
         k + Fifteen <= now, now < k + 2 * Fifteen, AggregateTick("agent15") = now - Fifteen,
         db' = AggregateRows("agent5", "agent15", now)
  PROVE  Good("agent15", k)'
PROOF
<1> DEFINE w1 == k + Fifteen - FiveMin
           w0 == k + Fifteen - FiveMin - FiveMin
           keys == Between("agent5", k, k + Fifteen - 1)
<1>1. /\ "agent15" \in FromFives /\ "agent15" \in Wider /\ Width["agent15"] = Fifteen
      /\ "agent15" \in Unique /\ Source("agent15") = "agent5" /\ "agent15" \notin FromRaw
      /\ Fifteen \in Nat \ {0} /\ Fifteen % FiveMin = 0 /\ Fifteen >= 2 * FiveMin
  <2>1. "agent15" \in FromFives
    BY DEF FromFives
  <2> QED BY <2>1, FromFivesConstants
<1>2. /\ now \in Nat /\ started \in Nat /\ FiveMin \in Nat \ {0} /\ Keep["agent5"] \in Nat
      /\ Keep["agent5"] >= 2 * Fifteen /\ Width["agent5"] = FiveMin
      /\ AggregateTick("agent5") \in Int /\ "agent5" \in Wider /\ "agent5" \in FromRaw
      /\ "agent5" \in Tables \ Daily
  <2>1. /\ "agent5" \in Wider /\ "agent5" \in FromRaw /\ FiveMin \in Nat \ {0}
        /\ Keep["agent5"] \in Nat /\ Keep["agent5"] >= Hour /\ Hour \in Nat /\ Hour >= 2 * Fifteen
        /\ Width["agent5"] = FiveMin /\ "agent5" \in Tables \ Daily
    BY FivesConstants
  <2>2. now \in Nat /\ started \in Nat /\ AggregateTick("agent5") \in Int
    BY <2>1, WiderFacts
  <2> QED BY <1>1, <2>1, <2>2
<1>3. Calm(k, k + 2 * Fifteen - 1)
  BY <1>1 DEF Undisturbed
<1>4. k + Fifteen - Raced(Fifteen) <= AggregateTick("agent5")
  BY <1>1, FivesInTime
<1>5. Raced(Fifteen) \in {0, FiveMin}
  BY <1>1, <1>2, RacedType
<1>6. k % FiveMin = 0
  <2>1. k \in Int /\ k % Fifteen = 0 /\ Fifteen % FiveMin = 0
    BY <1>1
  <2> QED BY <1>1, <1>2, <2>1, MultipleOfMultiple
<1>7. \A v \in Nat : v % FiveMin = 0 /\ k <= v /\ v < k + Fifteen => Undisturbed("agent5", v)
  BY <1>1, <1>3, FivesCalm
<1>8. /\ w1 \in Nat /\ w0 \in Nat /\ w1 % FiveMin = 0 /\ w0 % FiveMin = 0 /\ k <= w0
      /\ \A j \in Nat : j % FiveMin = 0 /\ j < k + Fifteen => j <= w1 /\ (j # w1 => j <= w0)
  BY <1>1, <1>6, LastFives
<1>9. w1 = k + Fifteen - FiveMin /\ w0 = w1 - FiveMin
  BY <1>1, <1>2
<1> HIDE DEF w0, w1
<1>10. \A j \in keys : j \in Nat /\ j <= w1 /\ (j # w1 => j <= w0)
  <2> SUFFICES ASSUME NEW j \in keys PROVE j \in Nat /\ j <= w1 /\ (j # w1 => j <= w0)
    OBVIOUS
  <2>1. j \in DOMAIN db["agent5"] /\ k <= j /\ j <= k + Fifteen - 1
    BY DEF Between
  <2>2. RowType("agent5", j, db["agent5"][j])
    BY <1>2, <2>1 DEF TypeInv, DbType, TableType
  <2>3. j \in Nat /\ j % FiveMin = 0
    BY <1>2, <2>2, Constants DEF RowType, Times
  <2>4. j < k + Fifteen
    BY <1>1, <2>1, <2>3
  <2> QED BY <1>8, <2>3, <2>4
<1>11. \A v \in {w0, w1} : Aggregated("agent5", v) => Good("agent5", v) /\ v \in keys
  <2> SUFFICES ASSUME NEW v \in {w0, w1}, Aggregated("agent5", v)
               PROVE  Good("agent5", v) /\ v \in keys
    OBVIOUS
  <2>1. v \in Nat /\ v % FiveMin = 0 /\ k <= v /\ v < k + Fifteen /\ v <= k + Fifteen - 1
    BY <1>1, <1>2, <1>8, <1>9
  <2>2. WindowOk("agent5", v) /\ Undisturbed("agent5", v)
    BY <1>7, <2>1
  <2>3. v >= now - Keep["agent5"]
    BY <1>1, <1>2, <2>1
  <2>4. Good("agent5", v)
    BY <2>2, <2>3 DEF WindowOk
  <2> QED BY <2>1, <2>4 DEF Between, Good
<1>12. \E v \in Int : /\ v = w1 \/ v = w1 - Raced(Fifteen)
                      /\ v \in keys /\ Good("agent5", v) /\ \A j \in keys : j <= v
  <2>1. CASE Aggregated("agent5", w1)
    <3>1. w1 \in keys /\ Good("agent5", w1) /\ \A j \in keys : j <= w1
      BY <1>10, <1>11, <2>1
    <3> HIDE DEF keys
    <3> QED BY <1>8, <3>1
  <2>2. CASE ~Aggregated("agent5", w1)
    <3>1. AggregateTick("agent5") < k + Fifteen
      BY <1>1, <1>2, <1>9, <2>2 DEF Aggregated
    <3>2. Raced(Fifteen) = FiveMin
      BY <1>1, <1>2, <1>4, <1>5, <3>1
    <3>3. Aggregated("agent5", w0)
      BY <1>1, <1>2, <1>4, <1>9, <3>2 DEF Aggregated
    <3>4. w1 \notin keys
      <4>1. WindowOk("agent5", w1) /\ Undisturbed("agent5", w1)
        BY <1>1, <1>2, <1>7, <1>8, <1>9
      <4>2. w1 \notin DOMAIN db["agent5"]
        BY <1>2, <2>2, <4>1 DEF WindowOk, Waiting
      <4> QED BY <4>2 DEF Between
    <3>5. w0 \in keys /\ Good("agent5", w0)
      BY <1>11, <3>3
    <3> HIDE DEF keys
    <3>6. \A j \in keys : j <= w0
      BY <1>10, <3>4
    <3>7. w0 = w1 - Raced(Fifteen)
      BY <1>9, <3>2
    <3> QED BY <1>8, <3>5, <3>6, <3>7
  <2> QED BY <2>1, <2>2
<1>13. PICK v \in Int : /\ v = w1 \/ v = w1 - Raced(Fifteen)
                       /\ v \in keys /\ Good("agent5", v) /\ \A j \in keys : j <= v
  BY <1>12
<1> DEFINE five == v..(v + FiveMin - 1)
<1>14. Counted("agent5", "agent15", k, k + Fifteen - 1) = five
  <2>1. \A j \in keys : j \in Int /\ j <= v
    BY <1>10, <1>13
  <2> QED BY <1>13, <2>1, LastFiveCounted
<1>15. five # {}
  <2>1. v \in five
    BY <1>2
  <2> QED BY <2>1
<1>16. LastFive(k, five)'
  <2>1. Raced(Fifteen)' = Raced(Fifteen)
    BY DEF Raced
  <2>2. v \in {k + Fifteen - FiveMin, k + Fifteen - FiveMin - Raced(Fifteen)'}
    <3> HIDE DEF keys
    <3> QED BY <1>1, <1>2, <1>5, <1>9, <1>13, <2>1
  <2> QED BY <2>2 DEF LastFive
<1> HIDE DEF five, keys
<1>17. k \in DOMAIN db'["agent15"] /\ db'["agent15"][k] = <<five>>
  BY <1>1, <1>14, <1>15, ComputedRow
<1>18. Len(db'["agent15"][k]) = 1 /\ db'["agent15"][k][1] = five
  <2>1. \A x : Len(<<x>>) = 1 /\ <<x>>[1] = x
    OBVIOUS
  <2> QED BY <1>17, <2>1
<1>19. LastFive(k, db["agent15"][k][1])'
  <2>1. five' = five
    BY DEF five
  <2> QED BY <1>16, <1>18, <2>1 DEF LastFive
<1> QED BY <1>1, <1>17, <1>18, <1>19 DEF Good

LEMMA AgentHourTick ==
  ASSUME TypeInv, TickInv, OrderInv, NEW k \in Nat, k % Hour = 0, Waiting("agentHour", k),
         up, now \notin upset, started' = started,
         k + Hour <= now, now < k + 2 * Hour, AggregateTick("agentHour") = now - Hour,
         db' = AggregateRows("agent5", "agentHour", now)
  PROVE  Good("agentHour", k)'
PROOF
<1> DEFINE keys == Between("agent5", k, k + Hour - 1)
           raw == RowsOf("agent5", keys)
           fives == k..(k + Hour - 1 - Raced(Hour))
<1>1. /\ "agentHour" \in FromFives /\ "agentHour" \in Wider /\ Width["agentHour"] = Hour
      /\ "agentHour" \in Unique /\ Source("agentHour") = "agent5" /\ "agentHour" \notin FromRaw
      /\ Hour \in Nat \ {0} /\ Hour % FiveMin = 0 /\ Hour >= 2 * FiveMin
  <2>1. "agentHour" \in FromFives
    BY DEF FromFives
  <2> QED BY <2>1, FromFivesConstants
<1>2. /\ now \in Nat /\ started \in Nat /\ FiveMin \in Nat \ {0}
      /\ AggregateTick("agent5") \in Int /\ Width["agent5"] = FiveMin
  <2>1. "agent5" \in Wider /\ FiveMin \in Nat \ {0} /\ Width["agent5"] = FiveMin
    BY FivesConstants
  <2> QED BY <2>1, WiderFacts
<1>3. k + Hour - Raced(Hour) <= AggregateTick("agent5")
  BY <1>1, FivesInTime
<1>4. /\ Raced(Hour) \in {0, FiveMin} /\ Raced(Hour) \in Nat /\ Raced(Hour) <= FiveMin
      /\ Raced(Hour) % FiveMin = 0
  BY <1>1, <1>2, RacedType
<1> DEFINE sum == k + Hour
           end == sum - Raced(Hour)
<1>5. k \in Int /\ k % FiveMin = 0 /\ Hour \in Int
  <2>1. k \in Int /\ k % Hour = 0 /\ Hour % FiveMin = 0 /\ Hour \in Int
    BY <1>1
  <2>2. k % FiveMin = 0
    BY <1>1, <1>2, <2>1, MultipleOfMultiple
  <2> QED BY <2>1, <2>2
<1>6. sum % FiveMin = 0
  BY <1>1, <1>2, <1>5, MultipleSum
<1>7. sum \in Int /\ sum = k + Hour
  BY <1>1
<1> HIDE DEF sum
<1>8. (sum - Raced(Hour)) % FiveMin = 0
  <2>1. Raced(Hour) \in Int
    BY <1>4
  <2> QED BY <1>2, <1>4, <1>6, <1>7, <2>1, MultipleDifference
<1>9. end \in Int /\ end % FiveMin = 0 /\ end = sum - Raced(Hour)
  BY <1>4, <1>7, <1>8
<1> HIDE DEF end
<1>10. ASSUME NEW c \in fives
       PROVE  \E v \in keys : ToSet(db["agent5"][v]) = {v..(v + FiveMin - 1)}
                              /\ c \in v..(v + FiveMin - 1)
  <2> DEFINE v == Truncate(c, FiveMin)
  <2>1. c \in Nat /\ k <= c /\ c < end
    BY <1>1, <1>4, <1>7, <1>9
  <2>2. v \in Nat /\ v % FiveMin = 0 /\ v <= c /\ c < v + FiveMin
    BY <1>2, <2>1, TruncateType
  <2> HIDE DEF v
  <2>3. k <= v
    <3>1. ASSUME v < k PROVE FALSE
      <4>1. v \in Int /\ k \in Int /\ v < k
        BY <2>2, <3>1
      <4>2. v + FiveMin <= k
        BY <1>2, <1>5, <2>2, <4>1, MultipleGap
      <4> QED BY <1>2, <2>1, <2>2, <4>2
    <3> QED BY <2>2, <3>1
  <2>4. v + FiveMin <= end
    <3>1. v \in Int /\ v < end
      BY <1>9, <2>1, <2>2
    <3> QED BY <1>2, <1>9, <2>2, <3>1, MultipleGap
  <2>5. v \in k..(k + Hour - 1) /\ v <= k + Hour - 1
    BY <1>1, <1>2, <1>4, <1>7, <1>9, <2>2, <2>3, <2>4
  <2>6. Aggregated("agent5", v)
    BY <1>1, <1>2, <1>3, <1>4, <1>7, <1>9, <2>2, <2>4 DEF Aggregated
  <2>7. Good("agent5", v)
    BY <2>2, <2>5, <2>6 DEF Waiting
  <2>8. v \in keys /\ ToSet(db["agent5"][v]) = {v..(v + FiveMin - 1)}
    BY <2>3, <2>5, <2>7, FiveRow DEF Between
  <2>9. c \in v..(v + FiveMin - 1)
    BY <1>2, <2>1, <2>2
  <2> QED BY <2>8, <2>9
<1> HIDE DEF keys
<1>11. fives \subseteq raw
  <2> SUFFICES ASSUME NEW c \in fives PROVE c \in raw
    OBVIOUS
  <2>1. PICK v \in keys : ToSet(db["agent5"][v]) = {v..(v + FiveMin - 1)}
                          /\ c \in v..(v + FiveMin - 1)
    BY <1>10
  <2> HIDE DEF fives
  <2>2. v..(v + FiveMin - 1) \in UNION {ToSet(db["agent5"][x]) : x \in keys}
    BY <2>1
  <2> QED BY <2>1, <2>2 DEF RowsOf
<1>12. k \in fives
  BY <1>1, <1>2, <1>4
<1>13. Counted("agent5", "agentHour", k, k + Hour - 1) = raw
  BY DEF Counted, keys
<1> HIDE DEF raw
<1>14. raw # {}
  BY <1>11, <1>12
<1>15. k \in DOMAIN db'["agentHour"] /\ db'["agentHour"][k] = <<raw>>
  BY <1>1, <1>13, <1>14, ComputedRow
<1>16. Len(db'["agentHour"][k]) = 1 /\ db'["agentHour"][k][1] = raw
  <2>1. \A x : Len(<<x>>) = 1 /\ <<x>>[1] = x
    OBVIOUS
  <2> QED BY <1>15, <2>1
<1>17. InTime("agentHour", k)' = fives
  <2>1. Raced(Hour)' = Raced(Hour)
    BY DEF Raced
  <2> QED BY <1>1, <2>1 DEF InTime
<1> HIDE DEF fives
<1>18. (InTime("agentHour", k) \subseteq db["agentHour"][k][1])'
  BY <1>11, <1>16, <1>17
<1> QED BY <1>1, <1>15, <1>16, <1>18 DEF Good

\* Who deletes the rows of five minutes.
LEMMA FiveDeletion ==
  ASSUME NEW l \in Loops, NEW s, s \in Later(l) \/ s = First(l),
         s.do # "aggregate", s.src = "agent5"
  PROVE  l = "hourly" /\ s = Delete("agent5") /\ s # First(l)
PROOF
<1>1. CASE l = "five"
  BY <1>1 DEF Later, First, Aggregate, Delete
<1>2. CASE l = "fifteen"
  BY <1>2 DEF Later, First, Aggregate, Delete
<1>3. CASE l = "hourly"
  BY <1>3 DEF Later, First, Aggregate, Delete
<1>4. CASE l = "daily"
  BY <1>4 DEF Later, First, Aggregate, Delete
<1> QED BY <1>1, <1>2, <1>3, <1>4 DEF Loops

\* A row of five minutes is not deleted while its hour waits: the run deletes them
\* after it has counted the hour, and retention is longer than an hour.
LEMMA FiveKept ==
  ASSUME TypeInv, TickInv, OrderInv, [Next]_vars, NEW k \in Nat,
         Calm(k, k + 2 * Hour - 1), now < k + 2 * Hour, ~Aggregated("agentHour", k),
         NEW v \in k..(k + Hour - 1), v \in DOMAIN db["agent5"]
  PROVE  v \in DOMAIN db'["agent5"]
PROOF
<1>1. /\ RunInv /\ now \in Nat /\ Hour \in Nat \ {0} /\ Keep["agent5"] \in Nat
      /\ Keep["agent5"] >= Hour /\ "agent5" \in Tables \ Daily /\ v \in Int /\ k <= v
      /\ Width["agentHour"] = Hour /\ "hourly" \in Loops
  <2>1. RunInv
    BY DEF TypeInv
  <2>2. now \in Nat
    BY <2>1 DEF RunInv
  <2> QED BY <2>1, <2>2, FivesConstants DEF Width, Loops
<1>2. RowsInv
  <2>1. ASSUME NEW t \in Tables, NEW x \in DOMAIN db[t] PROVE x \in Int
    <3>1. RowType(t, x, db[t][x])
      BY <2>1 DEF TypeInv, DbType, TableType
    <3> QED BY <3>1, Constants DEF RowType, Times
  <2>2. db = [t \in Tables |-> db[t]]
    BY DEF TypeInv, DbType
  <2> QED BY <2>1, <2>2 DEF RowsInv
<1>3. CASE v >= now - Keep["agent5"]
  BY <1>1, <1>2, <1>3, RowsInvStep DEF RowsStep
<1>4. CASE ~(v >= now - Keep["agent5"])
  <2>1. k + Hour <= now
    BY <1>1, <1>4
  <2>2. now \notin upset
    BY <1>1, <2>1 DEF Calm
  <2>3. ASSUME NEW l \in Loops, Statement(l) PROVE v \in DOMAIN db'["agent5"]
    <3> DEFINE s == Head(Run(l).todo)
               at == Run(l).at
    <3>1. /\ db' = Execute(s, at) /\ s \in Legal /\ at \in Nat /\ at <= now /\ Busy(l) /\ up
          /\ loop[l].fire \in Nat
          /\ loop[l].todo = <<>> => s = First(l)
          /\ loop[l].todo # <<>> => s \in Later(l) /\ s = Head(loop[l].todo)
      <4>1. loop[l].todo # <<>> => Run(l) = loop[l]
        BY DEF Run
      <4>2. loop[l].fire \in Nat
        BY DEF TypeInv, ClockType
      <4> QED BY <1>1, <2>3, <4>1, <4>2, RunLegal DEF Statement
    <3> HIDE DEF s, at
    <3>2. CASE s.do = "aggregate"
      <4>1. db' = AggregateRows(s.src, s.dst, at) /\ s.src \in Tables /\ s.dst \in Tables
        BY <3>1, <3>2 DEF Execute, Legal, Statements
      <4> QED BY <1>1, <1>2, <3>1, <4>1, AggregateKeeps
    <3>3. CASE s.do # "aggregate"
      <4>1. db' = DeleteOld(s.src, at) /\ s.src \in Tables \ Daily
        BY <3>1, <3>3 DEF Execute, Legal, Statements
      <4>2. ASSUME s.src = "agent5" PROVE FALSE
        <5>1. l = "hourly" /\ loop[l].todo # <<>> /\ s = Delete("agent5")
          BY <3>1, <3>3, <4>2, FiveDeletion
        <5>2. Len(loop["hourly"].todo) = 2
          BY <3>1, <5>1, HourlyTail DEF OrderInv
        <5>3. AggregateTick("agentHour") = LastTick("hourly")
          BY <5>2 DEF AggregateTick, Pending, Aggregator
        <5>4. LastTick("hourly") = now
          BY <1>1, <2>2, <5>1 DEF TickInv, LoopInv
        <5> QED BY <1>1, <2>1, <5>3, <5>4 DEF Aggregated
      <4>3. db'["agent5"] = db["agent5"]
        BY <1>1, <4>1, <4>2, DeleteKey
      <4> QED BY <4>3
    <3> QED BY <3>2, <3>3
  <2>4. ASSUME db' = db PROVE v \in DOMAIN db'["agent5"]
    BY <2>4
  <2>5. CASE \/ \E l \in Loops : StatementFails(l)
             \/ Crash \/ Start \/ PassDown \/ UNCHANGED vars
    BY <2>4, <2>5 DEF StatementFails, Crash, Start, PassDown, vars
  <2>6. CASE Deliver
    <3>1. PICK x \in owed : db' = InsertAgentMetrics(db, x)
      BY <2>6 DEF Deliver
    <3>2. Adds(db, db', "agent", x)
      BY <3>1, InsertAdds DEF TypeInv, DbType
    <3> QED BY <1>1, <3>2 DEF Adds
  <2>7. CASE Pass \/ PassUnpushed
    <3>1. db'["agent5"] = db["agent5"]
      BY <1>1, <2>7, PassAdds
    <3> QED BY <3>1
  <2> QED BY <2>3, <2>5, <2>6, <2>7 DEF Next
<1> QED BY <1>3, <1>4

LEMMA AgentHourWaits ==
  ASSUME TypeInv, TickInv, OrderInv, [Next]_vars, now' \in Times, NEW k \in Nat, k % Hour = 0,
         \A v \in Windows(FiveMin) : WindowOk("agent5", v) /\ WindowOk("agent5", v)',
         Undisturbed("agentHour", k), Undisturbed("agentHour", k)', Waiting("agentHour", k),
         ~Aggregated("agentHour", k), now < k + 2 * Hour
  PROVE  Waiting("agentHour", k)'
PROOF
<1>1. /\ "agentHour" \in FromFives /\ "agentHour" \in Wider /\ Width["agentHour"] = Hour
      /\ "agentHour" \notin FromRaw
  <2>1. "agentHour" \in FromFives
    BY DEF FromFives
  <2> QED BY <2>1, FromFivesConstants
<1>2. /\ FiveMin \in Nat \ {0} /\ Width["agent5"] = FiveMin /\ "agent5" \in Wider
      /\ "agent5" \in FromRaw /\ Keep["agent5"] \in Nat /\ Keep["agent5"] >= 2 * FiveMin
      /\ Hour \in Nat \ {0}
  BY FivesConstants
<1>3. now \in Nat /\ AggregateTick("agent5") \in Int /\ AggregateTick("agent5") <= now
  BY <1>2, WiderFacts
<1>4. Aggregation("agent5") \/ Deletion("agent5") \/ Mishap("agent5") \/ Elsewhere("agent5")
  BY <1>2, WiderStep
<1>5. /\ now' \in {now, now + 1}
      /\ AggregateTick("agent5")' \in Int /\ AggregateTick("agent5")' <= now
  BY <1>2, <1>3, <1>4 DEF Aggregation, Deletion, Mishap, Elsewhere
<1>6. Calm(k, k + 2 * Hour - 1) /\ Calm(k, k + 2 * Hour - 1)'
  BY <1>1 DEF Undisturbed
<1>7. ASSUME NEW v \in k..(k + Hour - 1), v % FiveMin = 0, Aggregated("agent5", v)'
      PROVE  Good("agent5", v)'
  <2>1. v \in Nat /\ k <= v /\ v < k + Hour
    BY <1>2
  <2>2. v + FiveMin <= AggregateTick("agent5")'
    BY <1>2, <1>7 DEF Aggregated
  <2>3. v \in Windows(FiveMin)
    <3>1. v <= now'
      BY <1>2, <1>3, <1>5, <2>1, <2>2
    <3> QED BY <1>7, <2>1, <3>1, Constants DEF Windows, Times
  <2>4. (v..(v + 2 * FiveMin - 1)) \subseteq (k..(k + 2 * Hour - 1))
    BY <1>1, <1>7, <2>1, FivesCalm
  <2>5. Calm(v, v + 2 * FiveMin - 1) /\ Calm(v, v + 2 * FiveMin - 1)'
    BY <1>6, <2>4 DEF Calm
  <2>6. Undisturbed("agent5", v) /\ Undisturbed("agent5", v)'
    BY <1>2, <2>5 DEF Undisturbed
  <2>7. CASE Aggregated("agent5", v)
    <3>1. Good("agent5", v)
      BY <1>7, <2>7 DEF Waiting
    <3>2. v \in DOMAIN db'["agent5"]
      <4>1. v \in DOMAIN db["agent5"]
        BY <3>1 DEF Good
      <4> QED BY <1>6, <4>1, FiveKept
    <3> QED BY <1>2, <1>4, <1>7, <2>1, <2>5, <2>7, <3>1, <3>2, GoodKept
  <2>8. CASE ~Aggregated("agent5", v)
    <3>1. now < v + 2 * FiveMin
      BY <1>2, <2>3, <2>6, <2>8 DEF WindowOk
    <3>2. v >= now' - Keep["agent5"]
      BY <1>2, <1>3, <1>5, <2>1, <3>1
    <3> QED BY <1>7, <2>3, <2>6, <3>2 DEF WindowOk
  <2> QED BY <2>7, <2>8
<1> QED BY <1>1, <1>7 DEF Waiting

WiderInv == \A t \in Wider : \A k \in Windows(Width[t]) : WindowOk(t, k)

LEMMA WiderInit == Init => WiderInv
PROOF
<1> SUFFICES ASSUME Init, NEW t \in Wider, NEW k \in Windows(Width[t]), Undisturbed(t, k)
             PROVE  ~Aggregated(t, k) /\ now < k + 2 * Width[t] /\ Waiting(t, k)
  BY DEF WiderInv, WindowOk
<1>1. TypeInv /\ TickInv /\ OrderInv
  BY TypeInvInit, TickInvInit, OrderInit
<1>2. /\ k \in Nat /\ now \in Nat /\ Width[t] \in Nat \ {0} /\ t \in Tables
      /\ AggregateTick(t) \in Int /\ AggregateTick(t) <= now
  <2>1. k \in Nat
    BY Constants DEF Windows, Times
  <2>2. Width[t] \in Nat \ {0} /\ t \in Tables
    BY WiderConstants
  <2>3. /\ now \in Nat /\ AggregateTick(t) \in Int /\ LastTick(Aggregator(t)) \in Int
        /\ AggregateTick(t) <= LastTick(Aggregator(t)) /\ LastTick(Aggregator(t)) <= now
    BY <1>1, WiderFacts
  <2> QED BY <2>1, <2>2, <2>3
<1>3. AggregateTick("agent5") \in Int /\ AggregateTick("agent5") <= now
      /\ FiveMin \in Nat \ {0} /\ Width["agent5"] = FiveMin /\ Hour \in Nat \ {0}
  BY <1>1, WiderFacts, FivesConstants
<1>4. now < k
  <2>1. Calm(k, k + 2 * Width[t] - 1) /\ upset = 0..now
    BY DEF Undisturbed, Init
  <2>2. ASSUME k <= now PROVE FALSE
    <3>1. k \in 0..now /\ k \in k..(k + 2 * Width[t] - 1)
      BY <1>2, <2>2
    <3> QED BY <2>1, <3>1 DEF Calm
  <2> QED BY <1>2, <2>2
<1>5. ~Aggregated(t, k)
  BY <1>2, <1>4 DEF Aggregated
<1>6. k \notin DOMAIN db[t]
  BY <1>2 DEF Init, Empty
<1>7. Recorded(t, k)
  BY <1>2, <1>4 DEF Recorded
<1>8. \A w \in k..(k + Hour - 1) : ~Aggregated("agent5", w)
  BY <1>2, <1>3, <1>4 DEF Aggregated
<1> QED BY <1>2, <1>4, <1>5, <1>6, <1>7, <1>8 DEF Waiting

LEMMA RawStep ==
  ASSUME TypeInv, TickInv, OrderInv, [Next]_vars, now' \in Nat, NEW t \in FromRaw, NEW k \in Nat,
         k % Width[t] = 0, WindowOk(t, k)
  PROVE  WindowOk(t, k)'
PROOF
<1>1. t \in Wider
  BY RawConstants
<1>2. ASSUME Undisturbed(t, k), Undisturbed(t, k)', Waiting(t, k), ~Aggregated(t, k),
             ~Aggregated(t, k)', now < k + 2 * Width[t]
      PROVE  Waiting(t, k)'
  BY <1>2, RawWaits
<1>3. ASSUME Waiting(t, k), k + Width[t] <= now, now < k + 2 * Width[t],
             db' = AggregateRows(Source(t), t, now)
      PROVE  Good(t, k)'
  BY <1>3, RawComputed
<1> QED BY <1>1, <1>2, <1>3, WindowStep

LEMMA WiderInvStep ==
  ASSUME TypeInv, TickInv, OrderInv, WiderInv, [Next]_vars, now' \in Times
  PROVE  WiderInv'
PROOF
<1>1. now' \in Nat /\ now \in Times
  BY Constants DEF Times, TypeInv, ClockType
<1>2. \A t \in Wider : \A k \in Windows(Width[t]) :
        k \in Nat /\ k % Width[t] = 0 /\ WindowOk(t, k)
  BY Constants DEF WiderInv, Windows, Times
<1>3. ASSUME NEW t \in FromRaw, NEW k \in Windows(Width[t]) PROVE WindowOk(t, k)'
  <2>1. t \in Wider
    BY RawConstants
  <2> QED BY <1>1, <1>2, <2>1, RawStep
<1>4. /\ "agent5" \in Wider /\ "agent5" \in FromRaw /\ Width["agent5"] = FiveMin
      /\ FiveMin \in Nat \ {0}
  BY FivesConstants
<1>5. \A v \in Windows(FiveMin) : WindowOk("agent5", v) /\ WindowOk("agent5", v)'
  BY <1>2, <1>3, <1>4
<1>6. ASSUME NEW k \in Windows(Fifteen) PROVE WindowOk("agent15", k)'
  <2>1. /\ "agent15" \in Wider /\ Width["agent15"] = Fifteen /\ Source("agent15") = "agent5"
        /\ "agent15" \notin FromRaw /\ "agent15" # "agentHour" /\ Fifteen \in Nat \ {0}
    <3>1. "agent15" \in FromFives
      BY DEF FromFives
    <3> QED BY <3>1, FromFivesConstants
  <2>2. k \in Nat /\ k % Fifteen = 0 /\ WindowOk("agent15", k)
    BY <1>2, <2>1
  <2>3. Waiting("agent15", k)'
    BY <2>1 DEF Waiting
  <2>4. ASSUME Undisturbed("agent15", k), up, now \notin upset, started' = started,
               k + Fifteen <= now, now < k + 2 * Fifteen,
               AggregateTick("agent15") = now - Fifteen,
               db' = AggregateRows("agent5", "agent15", now)
        PROVE  Good("agent15", k)'
    <3>1. \A v \in Nat : v % FiveMin = 0 /\ k <= v /\ v < k + Fifteen => WindowOk("agent5", v)
      <4> SUFFICES ASSUME NEW v \in Nat, v % FiveMin = 0, v < k + Fifteen
                   PROVE  WindowOk("agent5", v)
        OBVIOUS
      <4>1. v <= now
        BY <1>1, <2>1, <2>2, <2>4 DEF Times
      <4>2. v \in Windows(FiveMin)
        BY <1>1, <4>1, Constants DEF Windows, Times
      <4> QED BY <1>5, <4>2
    <3> QED BY <2>2, <2>4, <3>1, FifteenTick
  <2> QED BY <1>1, <2>1, <2>2, <2>3, <2>4, WindowStep
<1>7. ASSUME NEW k \in Windows(Hour) PROVE WindowOk("agentHour", k)'
  <2>1. /\ "agentHour" \in Wider /\ Width["agentHour"] = Hour /\ Source("agentHour") = "agent5"
        /\ "agentHour" \notin FromRaw /\ Hour \in Nat \ {0}
    <3>1. "agentHour" \in FromFives
      BY DEF FromFives
    <3> QED BY <3>1, FromFivesConstants
  <2>2. k \in Nat /\ k % Hour = 0 /\ WindowOk("agentHour", k)
    BY <1>2, <2>1
  <2>3. ASSUME Undisturbed("agentHour", k), Undisturbed("agentHour", k)',
               Waiting("agentHour", k), ~Aggregated("agentHour", k), now < k + 2 * Hour
        PROVE  Waiting("agentHour", k)'
    BY <1>5, <2>2, <2>3, AgentHourWaits
  <2>4. ASSUME Waiting("agentHour", k), up, now \notin upset, started' = started,
               k + Hour <= now, now < k + 2 * Hour, AggregateTick("agentHour") = now - Hour,
               db' = AggregateRows("agent5", "agentHour", now)
        PROVE  Good("agentHour", k)'
    BY <2>2, <2>4, AgentHourTick
  <2> QED BY <1>1, <2>1, <2>2, <2>3, <2>4, WindowStep
<1>8. ASSUME NEW t \in Wider, NEW k \in Windows(Width[t]) PROVE WindowOk(t, k)'
  <2>1. CASE t \in FromRaw
    BY <1>3, <2>1
  <2>2. CASE t = "agent15"
    <3>1. Width[t] = Fifteen
      BY <2>2 DEF Width
    <3> QED BY <1>6, <2>2, <3>1
  <2>3. CASE t = "agentHour"
    <3>1. Width[t] = Hour
      BY <2>3 DEF Width
    <3> QED BY <1>7, <2>3, <3>1
  <2> QED BY <2>1, <2>2, <2>3 DEF Wider, FromRaw
<1> QED BY <1>8 DEF WiderInv, Windows, Times

LEMMA WiderInvariant == Spec => [](TypeInv /\ TickInv /\ OrderInv /\ WiderInv)
PROOF
<1> DEFINE Inv == TypeInv /\ TickInv /\ OrderInv /\ WiderInv
<1>1. Init => Inv
  BY TypeInvInit, TickInvInit, OrderInit, WiderInit
<1>2. Inv /\ [Next]_vars => Inv'
  <2>1. TypeInv /\ TickInv /\ [Next]_vars => TypeInv' /\ TickInv'
    BY RunInvStep, DbTypeStep, ClockTypeStep, TickInvStep DEF TypeInv
  <2>2. TypeInv' => now' \in Times
    BY DEF TypeInv, ClockType
  <2> QED BY <2>1, <2>2, OrderStep, WiderInvStep
<1> QED BY <1>1, <1>2, PTL DEF Spec

\* A window that was not disturbed has its row two windows after its start.
LEMMA GoodRows ==
  ASSUME TypeInv, TickInv, OrderInv, WiderInv, NEW t \in Wider, NEW k \in Windows(Width[t]),
         k + 2 * Width[t] <= now, Undisturbed(t, k), k >= now - Keep[t]
  PROVE  Good(t, k)
PROOF
<1>1. k \in Nat /\ now \in Nat /\ Width[t] \in Nat \ {0}
  <2>1. k \in Nat
    BY Constants DEF Windows, Times
  <2> QED BY <2>1, WiderConstants, WiderFacts
<1>2. WindowOk(t, k)
  BY DEF WiderInv
<1> QED BY <1>1, <1>2 DEF WindowOk

\* For every width and retention that fit, and for a hub that was started at any
\* time: an hour in which nothing went wrong, and neither in the hour after it, has
\* one row, which counts each of its checks once.  Neither the phase of the ticker nor
\* the deletion of old checks nor the other goroutines can make a row partial, late
\* or double.
THEOREM HourlyCompleteAlways == Spec => []HourlyComplete
PROOF
<1>1. TypeInv /\ TickInv /\ OrderInv /\ WiderInv => HourlyComplete
  <2> SUFFICES ASSUME TypeInv, TickInv, OrderInv, WiderInv, NEW h \in Windows(Hour),
                      h + 2 * Hour <= now, Calm(h, h + 2 * Hour - 1),
                      h >= now - Keep["checkHour"]
               PROVE  h \in DOMAIN db["checkHour"] /\ db["checkHour"][h] = <<h..(h + Hour - 1)>>
    BY DEF HourlyComplete
  <2>1. "checkHour" \in Wider /\ "checkHour" \in FromRaw /\ Width["checkHour"] = Hour
    BY DEF Wider, FromRaw, Width
  <2>2. Undisturbed("checkHour", h)
    BY <2>1 DEF Undisturbed
  <2>3. Good("checkHour", h)
    BY <2>1, <2>2, GoodRows
  <2> QED BY <2>1, <2>3 DEF Good
<1> QED BY <1>1, WiderInvariant, PTL

\* For every width and retention that fit, and for a hub that was started at any
\* time: a window of agent metrics that begins after the start, in which nothing
\* went wrong and neither in the window after it, has one row.  The row of five
\* minutes counts every push in them, however late in the window the push came;
\* that of an hour counts all its rows of five minutes, but for the last when the two
\* tickers fire together; that of fifteen minutes is the last five of them that are
\* there.  No deletion comes between a row and the wider rows that count it.
THEOREM AgentTiersCompleteAlways == Spec => []AgentTiersComplete
PROOF
<1>1. TypeInv /\ TickInv /\ OrderInv /\ WiderInv => AgentTiersComplete
  <2> SUFFICES ASSUME TypeInv, TickInv, OrderInv, WiderInv PROVE AgentTiersComplete
    OBVIOUS
  <2>1. ASSUME NEW t \in {"agent5", "agent15", "agentHour"}, NEW k \in Windows(Width[t]),
               k + 2 * Width[t] <= now, started < k, Calm(k, k + 2 * Width[t] - 1),
               k >= now - Keep[t]
        PROVE  Good(t, k)
    <3>1. t \in Wider /\ Undisturbed(t, k)
      BY <2>1 DEF Wider, Undisturbed
    <3> QED BY <2>1, <3>1, GoodRows
  <2>2. ASSUME NEW k, Good("agent5", k) PROVE InTime("agent5", k) \subseteq db["agent5"][k][1]
    <3> DEFINE all == k..(k + Width["agent5"] - 1)
    <3>1. db["agent5"][k] = <<all>>
      BY <2>2 DEF Good, FromRaw
    <3>2. InTime("agent5", k) = k..(k + Width["agent5"] - 1 - 0)
      BY DEF InTime
    <3>3. \A x : <<x>>[1] = x
      OBVIOUS
    <3>4. k..(k + Width["agent5"] - 1 - 0) \subseteq all
      BY FivesConstants
    <3> HIDE DEF all
    <3> QED BY <3>1, <3>2, <3>3, <3>4
  <2>3. ASSUME NEW t \in {"agent5", "agentHour"}, NEW k, Good(t, k)
        PROVE  k \in DOMAIN db[t] /\ Len(db[t][k]) = 1 /\ InTime(t, k) \subseteq db[t][k][1]
    BY <2>2, <2>3 DEF Good
  <2>4. ASSUME NEW k, Good("agent15", k)
        PROVE  /\ k \in DOMAIN db["agent15"] /\ Len(db["agent15"][k]) = 1
               /\ LastFive(k, db["agent15"][k][1])
    BY <2>4 DEF Good
  <2> QED BY <2>1, <2>3, <2>4 DEF AgentTiersComplete, AgentWindows
<1> QED BY <1>1, WiderInvariant, PTL

-----------------------------------------------------------------------------
\* The daily rows.

LEMMA HourConstants ==
  /\ Hour \in Nat \ {0}
  /\ Keep["checks"] \in Nat /\ Keep["checks"] >= Hour
  /\ Keep["checkHour"] \in Nat
  /\ "checks" \in Tables \ Daily /\ "checkHour" \in Tables \ Daily
  /\ "agent" \in Tables
  /\ Width["checkHour"] = Hour /\ Period["hourly"] = Hour
  /\ "hourly" \in Loops
PROOF
<1>1. "checks" \in Tables \ Daily /\ "checkHour" \in Tables \ Daily /\ "agent" \in Tables
  BY DEF Tables, Daily
<1>2. Width["checkHour"] = Hour /\ Period["hourly"] = Hour /\ "hourly" \in Loops
  BY DEF Width, Period, Loops
<1>3. Keep["checks"] >= Hour
  BY DownsamplingAssumption DEF DownsamplingAssumption, RetentionFits
<1> QED BY <1>1, <1>2, <1>3, Constants

\* A row of an hour comes with a tick, which falls on the end of the hour only if the
\* start does.
PhaseInv ==
  \A k \in DOMAIN db["checkHour"] :
    k + Hour <= now /\ (k + Hour = now /\ now \notin upset => started % Hour = 0)

AllDay(d) == RowsOf("checkHour", Between("checkHour", d, d + Day - 1))

ButLast(d) == RowsOf("checkHour", Between("checkHour", d, d + Day - Hour - 1))

DayRows(d) == IF d \in DOMAIN db["checkDay"] THEN db["checkDay"][d] ELSE <<>>

DayRow(d) ==
  /\ Len(DayRows(d)) <= 1
  /\ ButLast(d) # {} => Len(DayRows(d)) = 1
  /\ \A day \in ToSet(DayRows(d)) :
       /\ ButLast(d) \subseteq day /\ day \subseteq AllDay(d)
       /\ started % Hour # 0 /\ started < d => day = ButLast(d)

\* The midnight that ends the day has been.
DayDone(d) == d + Day <= LastTick("daily")

DayOk(d) ==
  Calm(d + Day, d + Day) /\ d >= now - Keep["checkHour"] =>
    /\ DayDone(d) => DayRow(d)
    /\ ~DayDone(d) => now <= d + Day /\ d \notin DOMAIN db["checkDay"]

LEMMA DayConstants ==
  /\ Day \in Nat \ {0} /\ Hour \in Nat \ {0} /\ Day % Hour = 0
  /\ Keep["checkHour"] \in Nat
  /\ "checkHour" \in Tables \ Daily /\ "checkDay" \in Tables /\ "checkDay" \in Daily
  /\ Width["checkDay"] = Day /\ Period["daily"] = Day
  /\ "daily" \in Loops /\ "hourly" \in Loops
PROOF
<1>1. "checkHour" \in Tables \ Daily /\ "checkDay" \in Tables /\ "checkDay" \in Daily
  BY DEF Tables, Daily
<1>2. Width["checkDay"] = Day /\ Period["daily"] = Day /\ "daily" \in Loops /\ "hourly" \in Loops
  BY DEF Width, Period, Loops
<1>3. Day % Hour = 0
  BY DownsamplingAssumption DEF DownsamplingAssumption
<1> QED BY <1>1, <1>2, <1>3, Constants

LEMMA DayFacts ==
  ASSUME TypeInv, TickInv
  PROVE  /\ now \in Nat /\ started \in Nat /\ loop["daily"].fire \in Nat
         /\ loop["hourly"].fire \in Nat /\ loop["daily"].fire % Day = 0
         /\ LastTick("daily") = loop["daily"].fire - Day
         /\ LastTick("daily") \in Int /\ LastTick("daily") <= now
PROOF
<1>1. started \in Nat
  BY Constants DEF TypeInv, ClockType, Times
<1> QED BY <1>1, DayConstants DEF TypeInv, RunInv, ClockType, TickInv, LoopInv, LastTick

LEMMA TruncateAbove ==
  ASSUME NEW t \in Nat, NEW b \in Int, NEW w \in Nat \ {0}, b % w = 0, b <= t
  PROVE  b <= Truncate(t, w)
PROOF
<1> DEFINE m == Truncate(t, w)
<1>1. m \in Int /\ t < m + w /\ m % w = 0
  BY TruncateType
<1> HIDE DEF m
<1>2. ASSUME m < b PROVE FALSE
  <2>1. m + w <= b
    BY <1>1, <1>2, MultipleGap
  <2> QED BY <1>1, <2>1
<1>3. b <= m
  BY <1>1, <1>2
<1> QED BY <1>3 DEF m

\* The rows of hours and days change at a tick of the hour, at midnight and where
\* old hours are deleted.
Unticked(l) == loop'[l].fire = loop[l].fire

HourlyTick ==
  /\ loop["hourly"].fire <= now
  /\ now \notin upset => loop["hourly"].fire = now
  /\ loop'["hourly"].fire = loop["hourly"].fire + Hour
  /\ Unticked("daily")
  /\ db' = AggregateRows("checks", "checkHour", now)

Midnight ==
  /\ loop["daily"].fire <= now
  /\ now \notin upset => loop["daily"].fire = now
  /\ loop'["daily"].fire = Truncate(now, Day) + Day
  /\ Unticked("hourly")
  /\ db' = AggregateRows("checkHour", "checkDay", now)

OtherStatement ==
  /\ Unticked("hourly") /\ Unticked("daily")
  /\ db'["checkDay"] = db["checkDay"]
  /\ \/ db'["checkHour"] = db["checkHour"]
     \/ \E at \in Nat : at <= now /\ db' = DeleteOld("checkHour", at)

LEMMA LaterDays ==
  ASSUME NEW l \in Loops, NEW s,
         s \in Later(l) \/ (l \notin {"hourly", "daily"} /\ s = First(l))
  PROVE  s.do = "aggregate" => s.dst \notin {"checkHour", "checkDay"}
PROOF
<1>1. CASE l = "five"
  BY <1>1 DEF Later, First, Aggregate, Delete
<1>2. CASE l = "fifteen"
  BY <1>2 DEF Later, First, Aggregate, Delete
<1>3. CASE l = "hourly"
  BY <1>3 DEF Later, Aggregate, Delete
<1>4. CASE l = "daily"
  BY <1>4 DEF Later, Aggregate, Delete
<1> QED BY <1>1, <1>2, <1>3, <1>4 DEF Loops

LEMMA DayStatements ==
  ASSUME TypeInv, TickInv, NEW l \in Loops, Statement(l)
  PROVE  HourlyTick \/ Midnight \/ OtherStatement
PROOF
<1> DEFINE s == Head(Run(l).todo)
           at == Run(l).at
<1>1. /\ Busy(l) /\ up /\ RunInv /\ now \in Nat /\ loop[l].fire \in Nat
      /\ loop' = [loop EXCEPT ![l] = Rest(Run(l))]
      /\ db' = Execute(s, at) /\ s \in Legal /\ at \in Nat /\ at <= now
  BY RunLegal DEF Statement, TypeInv, RunInv, ClockType
<1>2. loop'[l].fire = Run(l).fire /\ \A k \in Loops : k # l => loop'[k] = loop[k]
  BY <1>1, LoopStep
<1>3. CASE loop[l].todo = <<>> /\ l \in {"hourly", "daily"}
  <2>1. s = First(l) /\ at = now /\ loop[l].fire <= now
    BY <1>1, <1>3, RunLegal, RunFire
  <2>2. now \notin upset => loop[l].fire = now
    BY <1>1, <1>3, RunTick
  <2>3. CASE l = "hourly"
    <3>1. Run(l).fire = loop[l].fire + Hour
      BY <1>1, <1>3, <2>3, RunFire, HourConstants
    <3>2. db' = AggregateRows("checks", "checkHour", now)
      BY <1>1, <2>1, <2>3 DEF Execute, First, Aggregate
    <3> QED BY <1>2, <2>1, <2>2, <2>3, <3>1, <3>2, DayConstants DEF HourlyTick, Unticked
  <2>4. CASE l = "daily"
    <3>1. Run(l).fire = Truncate(now, Day) + Day
      BY <1>1, <1>3, <2>4, RunFire
    <3>2. db' = AggregateRows("checkHour", "checkDay", now)
      BY <1>1, <2>1, <2>4 DEF Execute, First, Aggregate
    <3> QED BY <1>2, <2>1, <2>2, <2>4, <3>1, <3>2, DayConstants DEF Midnight, Unticked
  <2> QED BY <1>3, <2>3, <2>4
<1>4. CASE ~(loop[l].todo = <<>> /\ l \in {"hourly", "daily"})
  <2>1. Unticked("hourly") /\ Unticked("daily")
    BY <1>1, <1>2, <1>4, RunFire, DayConstants DEF Unticked
  <2>2. s \in Later(l) \/ (l \notin {"hourly", "daily"} /\ s = First(l))
    BY <1>1, <1>4, RunLegal
  <2>3. s.do = "aggregate" => s.dst \notin {"checkHour", "checkDay"}
    BY <2>2, LaterDays
  <2> HIDE DEF s, at
  <2>4. CASE s.do = "aggregate"
    <3>1. db' = AggregateRows(s.src, s.dst, at) /\ <<s.src, s.dst>> \in Tiers
      BY <1>1, <2>4 DEF Execute, Legal
    <3>2. Adds(db, db', s.dst, Truncate(at, Width[s.dst]) - Width[s.dst])
      BY <1>1, <3>1, AggregateAdds
    <3>3. db'["checkDay"] = db["checkDay"] /\ db'["checkHour"] = db["checkHour"]
      BY <2>3, <2>4, <3>2, DayConstants DEF Adds
    <3> QED BY <2>1, <3>3 DEF OtherStatement
  <2>5. CASE s.do # "aggregate"
    <3>1. db' = DeleteOld(s.src, at) /\ s.src \in Tables /\ s.src \notin Daily
      BY <1>1, <2>5 DEF Execute, Legal, Statements
    <3>2. db'["checkDay"] = db["checkDay"]
      BY <3>1, DeleteKey, DayConstants
    <3>3. s.src # "checkHour" => db'["checkHour"] = db["checkHour"]
      BY <3>1, DeleteKey, DayConstants
    <3> QED BY <1>1, <2>1, <3>1, <3>2, <3>3 DEF OtherStatement
  <2> QED BY <2>4, <2>5
<1> QED BY <1>3, <1>4

LEMMA AppendGrows ==
  ASSUME NEW S, NEW s \in Seq(S), NEW x
  PROVE  ToSet(s) \subseteq ToSet(Append(s, x))
PROOF
<1> DEFINE T == S \cup {x}
<1>1. s \in Seq(T) /\ x \in T
  OBVIOUS
<1> HIDE DEF T
<1>2. /\ Len(Append(s, x)) = Len(s) + 1 /\ Len(s) \in Nat
      /\ \A i \in 1..Len(s) : Append(s, x)[i] = s[i]
      /\ Append(s, x) \in Seq(T)
  BY <1>1
<1>3. DOMAIN s = 1..Len(s) /\ DOMAIN Append(s, x) = 1..(Len(s) + 1)
  BY <1>1, <1>2
<1> QED BY <1>2, <1>3 DEF ToSet

\* A tick of the hour adds to the rows of one hour and leaves those of the others.
LEMMA HourlyTickAdds ==
  ASSUME TypeInv, HourlyTick
  PROVE  LET start == Truncate(now, Hour) - Hour
         IN /\ start \in Int
            /\ Adds(db, db', "checkHour", start)
            /\ \A k \in DOMAIN db["checkHour"] :
                 /\ k \in DOMAIN db'["checkHour"]
                 /\ ToSet(db["checkHour"][k]) \subseteq ToSet(db'["checkHour"][k])
PROOF
<1> DEFINE start == Truncate(now, Hour) - Hour
           raw == Counted("checks", "checkHour", start, Truncate(now, Hour) - 1)
           old == IF start \in DOMAIN db["checkHour"] THEN db["checkHour"][start] ELSE <<>>
           rows == Append(old, raw)
<1>1. now \in Nat /\ Width["checkHour"] = Hour /\ "checkHour" \in Tables
  BY HourConstants DEF TypeInv, RunInv
<1>2. db' = AggregateRows("checks", "checkHour", now) /\ <<"checks", "checkHour">> \in Tiers
  BY DEF HourlyTick, Tiers
<1>3. start \in Int /\ Adds(db, db', "checkHour", start)
  BY <1>1, <1>2, AggregateAdds
<1>4. db' = IF raw = {} THEN db
            ELSE [db EXCEPT !["checkHour"] = With(db["checkHour"], start, rows)]
  BY <1>1, <1>2 DEF AggregateRows, Unique
<1>5. db = [t \in Tables |-> db[t]]
  BY DEF TypeInv, DbType
<1>6. start \in DOMAIN db["checkHour"] =>
        ToSet(db["checkHour"][start]) \subseteq ToSet(rows)
  <2> SUFFICES ASSUME start \in DOMAIN db["checkHour"]
               PROVE  ToSet(db["checkHour"][start]) \subseteq ToSet(rows)
    OBVIOUS
  <2>1. TableType("checkHour", db["checkHour"])
    BY <1>1 DEF TypeInv, DbType
  <2>2. RowType("checkHour", start, db["checkHour"][start])
    BY <2>1 DEF TableType
  <2>3. db["checkHour"][start] \in Seq(SUBSET (start..(start + Width["checkHour"] - 1)))
    BY <2>2 DEF RowType
  <2>4. rows = Append(db["checkHour"][start], raw)
    OBVIOUS
  <2> HIDE DEF rows, raw, start
  <2> QED BY <2>3, <2>4, AppendGrows
<1> HIDE DEF rows, raw, start
<1>7. start \in DOMAIN db["checkHour"] =>
        /\ start \in DOMAIN db'["checkHour"]
        /\ ToSet(db["checkHour"][start]) \subseteq ToSet(db'["checkHour"][start])
  <2>1. CASE raw = {}
    BY <1>4, <2>1
  <2>2. CASE raw # {}
    <3>1. db'["checkHour"] = With(db["checkHour"], start, rows)
      BY <1>1, <1>4, <1>5, <2>2
    <3> QED BY <1>6, <3>1 DEF With
  <2> QED BY <2>1, <2>2
<1>8. ASSUME NEW k \in DOMAIN db["checkHour"]
      PROVE  /\ k \in DOMAIN db'["checkHour"]
             /\ ToSet(db["checkHour"][k]) \subseteq ToSet(db'["checkHour"][k])
  <2>1. CASE k = start
    BY <1>7, <2>1
  <2>2. CASE k # start
    BY <1>3, <2>2 DEF Adds
  <2> QED BY <2>1, <2>2
<1> QED BY <1>3, <1>8 DEF start

LEMMA DeletionLeaves ==
  ASSUME TypeInv, NEW at \in Nat, db' = DeleteOld("checkHour", at)
  PROVE  /\ \A k \in DOMAIN db'["checkHour"] :
              k \in DOMAIN db["checkHour"] /\ db'["checkHour"][k] = db["checkHour"][k]
         /\ \A k \in DOMAIN db["checkHour"] :
              k >= at - Keep["checkHour"] => k \in DOMAIN db'["checkHour"]
BY DeleteKey, DayConstants

\* No row of an hour or a day comes with the passing of time.
LEMMA PassRows ==
  ASSUME TypeInv, Pass \/ PassUnpushed \/ PassDown
  PROVE  db'["checkHour"] = db["checkHour"] /\ db'["checkDay"] = db["checkDay"]
PROOF
<1> DEFINE mid == InsertCheckResult(db, now + 1)
<1>1. /\ db = [t \in Tables |-> db[t]]
      /\ mid = [t \in Tables |-> mid[t]]
      /\ Adds(db, mid, "checks", now + 1)
  <2>1. db = [t \in Tables |-> db[t]]
    BY DEF TypeInv, DbType
  <2>2. mid = [db EXCEPT !["checks"] = With(db["checks"], now + 1, <<{now + 1}>>)]
    BY DEF InsertCheckResult
  <2>3. mid = [t \in Tables |-> mid[t]]
    BY <2>1, <2>2
  <2> QED BY <2>1, <2>3, InsertAdds
<1>2. db' \in {db, mid, InsertAgentMetrics(mid, now + 1)}
  <2>1. CASE Pass
    BY <2>1 DEF Pass
  <2>2. CASE PassUnpushed
    BY <2>2 DEF PassUnpushed
  <2>3. CASE PassDown
    BY <2>3 DEF PassDown
  <2> QED BY <2>1, <2>2, <2>3
<1> HIDE DEF mid
<1>3. Adds(mid, InsertAgentMetrics(mid, now + 1), "agent", now + 1)
  BY <1>1, InsertAdds
<1> QED BY <1>1, <1>2, <1>3, DayConstants DEF Adds

LEMMA PhaseInit == Init => PhaseInv
PROOF
<1>1. Init => DOMAIN db["checkHour"] = {}
  BY HourConstants DEF Init, Empty
<1> QED BY <1>1 DEF PhaseInv

LEMMA PhaseStep == TypeInv /\ TickInv /\ OrderInv /\ PhaseInv /\ [Next]_vars => PhaseInv'
PROOF
<1> SUFFICES ASSUME TypeInv, TickInv, OrderInv, PhaseInv, [Next]_vars PROVE PhaseInv'
  OBVIOUS
<1>a. /\ now \in Nat /\ started \in Nat /\ Hour \in Nat \ {0} /\ loop["hourly"].fire \in Nat
      /\ (loop["hourly"].fire - started) % Hour = 0
  BY DayFacts, DayConstants, HourConstants DEF OrderInv
<1>b. \A k \in DOMAIN db["checkHour"] :
        k \in Nat /\ k + Hour <= now /\ (k + Hour = now /\ now \notin upset => started % Hour = 0)
  BY KeyType, DayConstants DEF PhaseInv
<1>c. ASSUME UNCHANGED <<now, started>>,
             upset \subseteq upset', DOMAIN db'["checkHour"] \subseteq DOMAIN db["checkHour"]
      PROVE  PhaseInv'
  BY <1>a, <1>b, <1>c DEF PhaseInv
<1>1. ASSUME NEW l \in Loops, Statement(l) PROVE PhaseInv'
  <2>1. UNCHANGED <<now, started, upset>>
    BY <1>1 DEF Statement
  <2>2. CASE HourlyTick
    <3> DEFINE m == Truncate(now, Hour)
               fire == loop["hourly"].fire
    <3>1. now \notin upset => fire = now
      BY <2>2 DEF HourlyTick
    <3>2. m \in Nat /\ m <= now /\ m % Hour = 0
      BY <1>a, TruncateType
    <3>3. DOMAIN db'["checkHour"] \subseteq DOMAIN db["checkHour"] \cup {m - Hour}
      BY <2>2, HourlyTickAdds DEF Adds
    <3>4. fire \in Nat /\ (fire - started) % Hour = 0
      BY <1>a
    <3> HIDE DEF m, fire
    <3>5. (m - Hour) + Hour = now /\ now \notin upset => started % Hour = 0
      <4> SUFFICES ASSUME m = now, fire = now PROVE started % Hour = 0
        BY <1>a, <3>1, <3>2
      <4> DEFINE x == fire - started
      <4>1. x \in Int /\ fire \in Int /\ x % Hour = 0 /\ fire % Hour = 0 /\ Hour \in Nat \ {0}
        BY <1>a, <3>2, <3>4
      <4> HIDE DEF x
      <4>2. (fire - x) % Hour = 0
        BY <4>1, MultipleDifference
      <4>3. fire - x = started
        BY <1>a, <3>4 DEF x
      <4> QED BY <4>2, <4>3
    <3>6. ASSUME NEW k \in DOMAIN db'["checkHour"]
          PROVE  k + Hour <= now /\ (k + Hour = now /\ now \notin upset => started % Hour = 0)
      BY <1>a, <1>b, <3>2, <3>3, <3>5
    <3> QED BY <2>1, <3>6 DEF PhaseInv
  <2>3. CASE Midnight
    <3>1. db'["checkHour"] = db["checkHour"]
      <4>1. db' = AggregateRows("checkHour", "checkDay", now) /\ <<"checkHour", "checkDay">> \in Tiers
        BY <2>3 DEF Midnight, Tiers
      <4> QED BY <1>a, <4>1, AggregateAdds, DayConstants DEF Adds
    <3> QED BY <1>c, <2>1, <2>3, <3>1 DEF Midnight, Unticked
  <2>4. CASE OtherStatement
    <3>1. DOMAIN db'["checkHour"] \subseteq DOMAIN db["checkHour"]
      BY <2>4, DeletionLeaves DEF OtherStatement
    <3> QED BY <1>c, <2>1, <2>4, <3>1 DEF OtherStatement, Unticked
  <2> QED BY <1>1, <2>2, <2>3, <2>4, DayStatements
<1>2. ASSUME NEW l \in Loops, StatementFails(l) PROVE PhaseInv'
  BY <1>c, <1>2 DEF StatementFails
<1>3. CASE Crash
  BY <1>3, <1>c DEF Crash
<1>4. CASE Start
  <2>1. UNCHANGED <<now, db>> /\ upset' = upset \cup {now}
    BY <1>4 DEF Start
  <2> QED BY <1>b, <2>1 DEF PhaseInv
<1>5. CASE Deliver
  <2>1. PICK x \in owed : db' = InsertAgentMetrics(db, x)
    BY <1>5 DEF Deliver
  <2>2. Adds(db, db', "agent", x)
    BY <2>1, InsertAdds DEF TypeInv, DbType
  <2>3. db'["checkHour"] = db["checkHour"]
    BY <2>2, HourConstants DEF Adds
  <2> QED BY <1>5, <1>c, <2>3 DEF Deliver
<1>6. CASE Pass \/ PassUnpushed \/ PassDown
  <2>1. now' = now + 1 /\ UNCHANGED <<loop, started>>
    BY <1>6 DEF Pass, PassUnpushed, PassDown
  <2>2. db'["checkHour"] = db["checkHour"]
    BY <1>6, PassRows
  <2> QED BY <1>a, <1>b, <2>1, <2>2 DEF PhaseInv
<1>7. CASE UNCHANGED vars
  BY <1>7, <1>c DEF vars
<1> QED BY <1>1, <1>2, <1>3, <1>4, <1>5, <1>6, <1>7 DEF Next

\* The rows of the day's hours stay, and those of all but the last stay as they are.
KeepsHours(d) ==
  /\ \A k \in DOMAIN db["checkHour"] :
       d <= k => /\ k \in DOMAIN db'["checkHour"]
                 /\ ToSet(db["checkHour"][k]) \subseteq ToSet(db'["checkHour"][k])
  /\ \A k \in DOMAIN db'["checkHour"] :
       d <= k /\ k <= d + Day - Hour - 1 =>
         k \in DOMAIN db["checkHour"] /\ db'["checkHour"][k] = db["checkHour"][k]

LEMMA DayRowKept ==
  ASSUME TypeInv, NEW d \in Nat, DayRow(d), KeepsHours(d), DayRows(d)' = DayRows(d),
         started' = started \/ started' >= d, started' \in Nat
  PROVE  DayRow(d)'
PROOF
<1> DEFINE keys == Between("checkHour", d, d + Day - 1)
           first == Between("checkHour", d, d + Day - Hour - 1)
<1>1. \A k \in DOMAIN db["checkHour"] : k \in Nat
  BY KeyType, DayConstants
<1>2. Day \in Nat \ {0} /\ Hour \in Nat \ {0} /\ Day % Hour = 0
  BY DayConstants
<1>3. AllDay(d) \subseteq AllDay(d)'
  <2>1. keys \subseteq keys'
    BY DEF KeepsHours, Between
  <2>2. \A k \in keys : ToSet(db["checkHour"][k]) \subseteq ToSet(db'["checkHour"][k])
    BY DEF KeepsHours, Between
  <2>3. AllDay(d) = UNION UNION {ToSet(db["checkHour"][k]) : k \in keys}
    BY DEF AllDay, RowsOf
  <2>4. AllDay(d)' = UNION UNION {ToSet(db'["checkHour"][k]) : k \in keys'}
    BY DEF AllDay, RowsOf
  <2> HIDE DEF keys
  <2>5. ASSUME NEW x \in AllDay(d) PROVE x \in AllDay(d)'
    <3>1. PICK k \in keys : \E S \in ToSet(db["checkHour"][k]) : x \in S
      BY <2>3
    <3> QED BY <2>1, <2>2, <2>4, <3>1
  <2> QED BY <2>5
<1>4. ButLast(d)' = ButLast(d)
  <2>1. first' = first
    <3>1. \A k \in first : k \in first' /\ d <= k
      BY DEF KeepsHours, Between
    <3>2. \A k \in first' : k \in first
      BY DEF KeepsHours, Between
    <3> QED BY <3>1, <3>2
  <2>2. \A k \in first' : db'["checkHour"][k] = db["checkHour"][k]
    BY DEF KeepsHours, Between
  <2>3. ButLast(d) = UNION UNION {ToSet(db["checkHour"][k]) : k \in first}
    BY DEF ButLast, RowsOf
  <2>4. ButLast(d)' = UNION UNION {ToSet(db'["checkHour"][k]) : k \in first'}
    BY DEF ButLast, RowsOf
  <2> HIDE DEF first
  <2>5. {ToSet(db'["checkHour"][k]) : k \in first'} = {ToSet(db["checkHour"][k]) : k \in first}
    BY <2>1, <2>2
  <2> QED BY <2>3, <2>4, <2>5
<1>5. started' % Hour # 0 /\ started' < d => started % Hour # 0 /\ started < d
  OBVIOUS
<1> QED BY <1>3, <1>4, <1>5 DEF DayRow

\* Only at midnight the rows of days change.
LEMMA DayFrame ==
  ASSUME TypeInv, TickInv, NEW d \in Nat, DayOk(d), now' \in Nat, now <= now',
         upset \subseteq upset', started' = started \/ started' = now,
         db'["checkDay"] = db["checkDay"],
         DayDone(d) /\ d >= now' - Keep["checkHour"] => KeepsHours(d),
         DayDone(d) => DayDone(d)',
         ~DayDone(d) /\ Calm(d + Day, d + Day)' /\ d >= now' - Keep["checkHour"] =>
           ~DayDone(d)' /\ now' <= d + Day
  PROVE  DayOk(d)'
PROOF
<1>1. /\ now \in Nat /\ started \in Nat /\ Keep["checkHour"] \in Nat /\ Day \in Nat \ {0}
      /\ LastTick("daily") \in Int /\ LastTick("daily") <= now
  BY DayFacts, DayConstants
<1>2. Calm(d + Day, d + Day)' => Calm(d + Day, d + Day)
  BY DEF Calm
<1>3. d >= now' - Keep["checkHour"] => d >= now - Keep["checkHour"]
  BY <1>1
<1>4. DayRows(d)' = DayRows(d)
  BY DEF DayRows
<1>5. CASE DayDone(d)
  <2>1. DayDone(d)'
    BY <1>5
  <2> SUFFICES ASSUME Calm(d + Day, d + Day), d >= now' - Keep["checkHour"]
               PROVE  DayRow(d)'
    BY <1>2, <2>1 DEF DayOk
  <2>2. DayRow(d)
    BY <1>3, <1>5 DEF DayOk
  <2>3. d <= now
    BY <1>1, <1>5 DEF DayDone
  <2>4. KeepsHours(d)
    BY <1>5
  <2>5. started' \in Nat /\ (started' = started \/ started' >= d)
    BY <1>1, <2>3
  <2> QED BY <1>4, <2>2, <2>4, <2>5, DayRowKept
<1>6. CASE ~DayDone(d)
  <2>1. Calm(d + Day, d + Day) /\ d >= now - Keep["checkHour"] => d \notin DOMAIN db["checkDay"]
    BY <1>6 DEF DayOk
  <2>2. Calm(d + Day, d + Day)' /\ d >= now' - Keep["checkHour"] =>
          ~DayDone(d)' /\ now' <= d + Day
    BY <1>6
  <2>3. DOMAIN db'["checkDay"] = DOMAIN db["checkDay"]
    OBVIOUS
  <2> QED BY <1>2, <1>3, <2>1, <2>2, <2>3 DEF DayOk
<1> QED BY <1>5, <1>6

LEMMA HourKept ==
  ASSUME NEW d, db'["checkHour"] = db["checkHour"]
  PROVE  KeepsHours(d)
BY DEF KeepsHours

\* Midnight of a day in which nothing is wrong at midnight.
LEMMA DayMidnight ==
  ASSUME TypeInv, TickInv, PhaseInv, NEW d \in Nat, d % Day = 0, DayOk(d), Midnight,
         UNCHANGED <<now, started, upset>>
  PROVE  DayOk(d)'
PROOF
<1> DEFINE m == Truncate(now, Day)
           start == m - Day
           raw == Counted("checkHour", "checkDay", start, m - 1)
           old == IF start \in DOMAIN db["checkDay"] THEN db["checkDay"][start] ELSE <<>>
           rows == Append(old, raw)
           fire == loop["daily"].fire
<1>1. /\ now \in Nat /\ Day \in Nat \ {0} /\ fire \in Nat /\ fire % Day = 0
      /\ LastTick("daily") = fire - Day /\ Day % Hour = 0 /\ Hour \in Nat \ {0}
      /\ "checkDay" \in Tables /\ "checkHour" \in Tables /\ "checkDay" # "checkHour"
      /\ Width["checkDay"] = Day
  BY DayFacts, DayConstants
<1>2. /\ fire <= now /\ (now \notin upset => fire = now)
      /\ db' = AggregateRows("checkHour", "checkDay", now)
      /\ <<"checkHour", "checkDay">> \in Tiers
  BY DEF Midnight, Tiers
<1>3. m \in Nat /\ m <= now /\ now < m + Day /\ m % Day = 0
  BY <1>1, TruncateType
<1>4. LastTick("daily")' = m
  <2>1. loop'["daily"].fire = m + Day
    BY DEF Midnight
  <2> QED BY <1>1, <1>3, <2>1, DayConstants DEF LastTick
<1>5. Adds(db, db', "checkDay", start)
  BY <1>1, <1>2, AggregateAdds
<1>6. db'["checkHour"] = db["checkHour"]
  BY <1>1, <1>5 DEF Adds
<1>7. db = [t \in Tables |-> db[t]]
  BY DEF TypeInv, DbType
<1>8. db' = IF raw = {} THEN db ELSE [db EXCEPT !["checkDay"] = With(db["checkDay"], start, rows)]
  <2>1. "checkDay" \notin Unique
    BY DEF Unique
  <2> QED BY <1>1, <1>2, <2>1 DEF AggregateRows
<1>9. fire <= m
  BY <1>1, <1>2, TruncateAbove
<1> HIDE DEF m, start, fire, rows
<1> SUFFICES ASSUME Calm(d + Day, d + Day), d >= now - Keep["checkHour"]
             PROVE  /\ DayDone(d)' => DayRow(d)'
                    /\ ~DayDone(d)' => now <= d + Day /\ d \notin DOMAIN db'["checkDay"]
  BY DEF DayOk, Calm
<1>10. CASE DayDone(d)
  <2>1. d + Day <= fire - Day
    BY <1>1, <1>10 DEF DayDone
  <2>2. DayDone(d)'
    BY <1>1, <1>3, <1>4, <1>9, <2>1 DEF DayDone
  <2>3. start # d
    BY <1>1, <1>3, <1>9, <2>1 DEF start
  <2>4. DayRows(d)' = DayRows(d)
    BY <1>5, <2>3 DEF DayRows, Adds
  <2>5. DayRow(d)
    BY <1>10 DEF DayOk
  <2>6. started' \in Nat /\ started' = started
    BY DayFacts
  <2>7. KeepsHours(d)
    BY <1>6, HourKept
  <2> QED BY <2>2, <2>4, <2>5, <2>6, <2>7, DayRowKept
<1>11. CASE ~DayDone(d)
  <2>1. now <= d + Day /\ d \notin DOMAIN db["checkDay"]
    BY <1>11 DEF DayOk
  <2>2. CASE now < d + Day
    <3>1. m < d + Day /\ start # d
      BY <1>1, <1>3, <2>2 DEF start
    <3>2. ~DayDone(d)'
      BY <1>1, <1>3, <1>4, <3>1 DEF DayDone
    <3>3. d \notin DOMAIN db'["checkDay"]
      BY <1>5, <2>1, <3>1 DEF Adds
    <3> QED BY <2>1, <3>2, <3>3
  <2>3. CASE now = d + Day
    <3>1. now \notin upset
      BY <1>1, <2>3 DEF Calm
    <3>2. fire = now
      BY <1>2, <3>1
    <3>3. m = now /\ start = d
      BY <1>1, <1>3, <1>9, <2>3, <3>2 DEF start
    <3>4. DayDone(d)'
      BY <1>1, <1>4, <2>3, <3>3 DEF DayDone
    <3>5. raw = AllDay(d)
      <4>1. raw = RowsOf("checkHour", Between("checkHour", start, m - 1))
        BY DEF Counted
      <4>2. m - 1 = d + Day - 1 /\ start = d
        BY <1>1, <1>3, <2>3, <3>3
      <4> HIDE DEF raw
      <4> QED BY <4>1, <4>2 DEF AllDay
    <3>6. AllDay(d)' = AllDay(d) /\ ButLast(d)' = ButLast(d)
      BY <1>6 DEF AllDay, ButLast, RowsOf, Between
    <3>7. \A k \in DOMAIN db["checkHour"] :
            k \in Nat /\ k + Hour <= now /\ (k + Hour = now => started % Hour = 0)
      BY <3>1, KeyType, DayConstants DEF PhaseInv
    <3>8. ButLast(d) \subseteq AllDay(d)
      <4>1. Between("checkHour", d, d + Day - Hour - 1) \subseteq Between("checkHour", d, d + Day - 1)
        BY <1>1, <3>7 DEF Between
      <4> QED BY <4>1 DEF AllDay, ButLast, RowsOf
    <3>9. started % Hour # 0 => AllDay(d) = ButLast(d)
      <4> SUFFICES ASSUME started % Hour # 0 PROVE AllDay(d) = ButLast(d)
        OBVIOUS
      <4>1. \A k \in DOMAIN db["checkHour"] :
              k <= d + Day - 1 <=> k <= d + Day - Hour - 1
        BY <1>1, <2>3, <3>7
      <4>2. Between("checkHour", d, d + Day - Hour - 1) = Between("checkHour", d, d + Day - 1)
        BY <4>1 DEF Between
      <4> QED BY <4>2 DEF AllDay, ButLast
    <3>10. DayRows(d)' = IF raw = {} THEN <<>> ELSE <<raw>>
      <4>1. rows = <<raw>>
        BY <2>1, <3>3 DEF rows
      <4> HIDE DEF raw
      <4>2. CASE raw = {}
        BY <1>8, <2>1, <4>2 DEF DayRows
      <4>3. CASE raw # {}
        <5>1. db'["checkDay"] = With(db["checkDay"], start, rows)
          BY <1>1, <1>7, <1>8, <4>3
        <5>2. d \in DOMAIN db'["checkDay"] /\ db'["checkDay"][d] = rows
          BY <3>3, <5>1 DEF With
        <5> QED BY <4>1, <4>3, <5>2 DEF DayRows
      <4> QED BY <4>2, <4>3
    <3> HIDE DEF raw
    <3>11. DayRow(d)'
      <4>1. CASE raw = {}
        <5>1. DayRows(d)' = <<>> /\ Len(<<>>) = 0 /\ ToSet(<<>>) = {} /\ ButLast(d)' = {}
          BY <3>5, <3>6, <3>8, <3>10, <4>1 DEF ToSet
        <5> QED BY <5>1 DEF DayRow
      <4>2. CASE raw # {}
        <5>1. DayRows(d)' = <<raw>>
          BY <3>10, <4>2
        <5>2. Len(<<raw>>) = 1 /\ ToSet(<<raw>>) = {raw}
          BY DEF ToSet
        <5>3. ButLast(d)' \subseteq raw /\ raw \subseteq AllDay(d)'
          BY <3>5, <3>6, <3>8
        <5>4. started' % Hour # 0 => raw = ButLast(d)'
          BY <3>5, <3>6, <3>9
        <5> QED BY <5>1, <5>2, <5>3, <5>4 DEF DayRow
      <4> QED BY <4>1, <4>2
    <3> QED BY <3>4, <3>11
  <2> QED BY <1>1, <2>1, <2>2, <2>3
<1> QED BY <1>10, <1>11

DayInv == \A d \in Windows(Day) : DayOk(d)

LEMMA DayInvInit == Init => DayInv
PROOF
<1> SUFFICES ASSUME Init, NEW d \in Windows(Day), Calm(d + Day, d + Day)
             PROVE  ~DayDone(d) /\ now <= d + Day /\ d \notin DOMAIN db["checkDay"]
  BY DEF DayInv, DayOk
<1>1. d \in Nat /\ now \in Nat /\ Day \in Nat \ {0} /\ "daily" \in Loops
  BY InvInit, DayConstants, Constants DEF Windows, Times, RunInv
<1>2. upset = 0..now /\ loop = FreshLoops(now)
  BY DEF Init
<1>3. now < d + Day
  BY <1>1, <1>2 DEF Calm
<1>4. LastTick("daily") <= now
  BY <1>1, <1>2, FreshFire DEF LastTick
<1>5. LastTick("daily") \in Int
  BY <1>1, <1>2, FreshFire, DayConstants DEF LastTick
<1>6. ~DayDone(d)
  BY <1>1, <1>3, <1>4, <1>5 DEF DayDone
<1>7. d \notin DOMAIN db["checkDay"]
  BY DayConstants DEF Init, Empty
<1> QED BY <1>1, <1>3, <1>6, <1>7

LEMMA DayInvStep == TypeInv /\ TickInv /\ PhaseInv /\ DayInv /\ [Next]_vars => DayInv'
PROOF
<1> SUFFICES ASSUME TypeInv, TickInv, PhaseInv, [Next]_vars, NEW d \in Windows(Day), DayOk(d)
             PROVE  DayOk(d)'
  BY DEF DayInv
<1>a. /\ d \in Nat /\ d % Day = 0 /\ now \in Nat /\ Day \in Nat \ {0} /\ Hour \in Nat \ {0}
      /\ LastTick("daily") \in Int /\ LastTick("daily") <= now /\ Day % Hour = 0
      /\ LastTick("daily") = loop["daily"].fire - Day /\ loop["daily"].fire \in Nat
      /\ loop["daily"].fire % Day = 0 /\ "daily" \in Loops /\ Keep["checkHour"] \in Nat
  BY DayFacts, DayConstants, Constants DEF Windows, Times
\* Something is wrong at this time, and midnight is not.
<1>b. ASSUME UNCHANGED <<now, db>>, upset' = upset \cup {now}, LastTick("daily")' \in Int,
             LastTick("daily") <= LastTick("daily")', LastTick("daily")' <= now,
             started' = started \/ started' = now
      PROVE  DayOk(d)'
  <2>1. DayDone(d) => DayDone(d)'
    BY <1>a, <1>b DEF DayDone
  <2>2. ASSUME ~DayDone(d), Calm(d + Day, d + Day)', d >= now - Keep["checkHour"]
        PROVE  ~DayDone(d)' /\ now' <= d + Day
    <3>1. now # d + Day /\ Calm(d + Day, d + Day)
      BY <1>a, <1>b, <2>2 DEF Calm
    <3>2. now <= d + Day
      BY <2>2, <3>1 DEF DayOk
    <3>3. now < d + Day
      BY <1>a, <3>1, <3>2
    <3> QED BY <1>a, <1>b, <3>3 DEF DayDone
  <2>3. KeepsHours(d)
    BY <1>b, HourKept
  <2> QED BY <1>a, <1>b, <2>1, <2>2, <2>3, DayFrame
\* Neither midnight nor the clock.
<1>c. ASSUME UNCHANGED <<now, started>>, upset \subseteq upset',
             loop'["daily"].fire = loop["daily"].fire, db'["checkDay"] = db["checkDay"],
             DayDone(d) /\ d >= now - Keep["checkHour"] => KeepsHours(d)
      PROVE  DayOk(d)'
  <2>1. DayDone(d)' = DayDone(d)
    BY <1>c DEF DayDone, LastTick
  <2>2. ~DayDone(d) /\ Calm(d + Day, d + Day)' /\ d >= now' - Keep["checkHour"] =>
          ~DayDone(d)' /\ now' <= d + Day
    <3>1. Calm(d + Day, d + Day)' => Calm(d + Day, d + Day)
      BY <1>c DEF Calm
    <3> QED BY <1>c, <2>1, <3>1 DEF DayOk
  <2> QED BY <1>a, <1>c, <2>1, <2>2, DayFrame
<1>1. ASSUME NEW l \in Loops, Statement(l) PROVE DayOk(d)'
  <2>1. UNCHANGED <<now, started, upset>>
    BY <1>1 DEF Statement
  <2>2. CASE HourlyTick
    <3> DEFINE start == Truncate(now, Hour) - Hour
    <3>1. /\ start \in Int /\ Adds(db, db', "checkHour", start)
          /\ \A k \in DOMAIN db["checkHour"] :
               /\ k \in DOMAIN db'["checkHour"]
               /\ ToSet(db["checkHour"][k]) \subseteq ToSet(db'["checkHour"][k])
      BY <2>2, HourlyTickAdds
    <3>2. db'["checkDay"] = db["checkDay"]
      BY <3>1, DayConstants DEF Adds
    <3>3. DayDone(d) => start > d + Day - Hour - 1
      <4> SUFFICES ASSUME d + Day <= now PROVE start > d + Day - Hour - 1
        BY <1>a DEF DayDone
      <4>1. d % Hour = 0
        BY <1>a, MultipleOfMultiple
      <4>2. (d + Day) % Hour = 0
        <5>1. d \in Int /\ Day \in Int /\ Hour \in Nat \ {0} /\ d % Hour = 0 /\ Day % Hour = 0
          BY <1>a, <4>1
        <5> QED BY <5>1, MultipleSum
      <4>3. d + Day <= Truncate(now, Hour)
        BY <1>a, <4>2, TruncateAbove
      <4>4. Truncate(now, Hour) \in Int
        BY <1>a, TruncateType
      <4> QED BY <1>a, <4>3, <4>4
    <3> HIDE DEF start
    <3>4. DayDone(d) => KeepsHours(d)
      <4> SUFFICES ASSUME start > d + Day - Hour - 1 PROVE KeepsHours(d)
        BY <3>3
      <4>1. \A k \in DOMAIN db'["checkHour"] :
              k <= d + Day - Hour - 1 =>
                k \in DOMAIN db["checkHour"] /\ db'["checkHour"][k] = db["checkHour"][k]
        BY <1>a, <3>1 DEF Adds
      <4> QED BY <3>1, <4>1 DEF KeepsHours
    <3> QED BY <1>c, <2>1, <2>2, <3>2, <3>4 DEF HourlyTick, Unticked
  <2>3. CASE Midnight
    BY <1>a, <2>1, <2>3, DayMidnight
  <2>4. CASE OtherStatement
    <3>1. d >= now - Keep["checkHour"] => KeepsHours(d)
      <4>1. CASE db'["checkHour"] = db["checkHour"]
        BY <4>1, HourKept
      <4>2. CASE \E at \in Nat : at <= now /\ db' = DeleteOld("checkHour", at)
        <5>1. PICK at \in Nat : at <= now /\ db' = DeleteOld("checkHour", at)
          BY <4>2
        <5>2. /\ \A k \in DOMAIN db'["checkHour"] :
                   k \in DOMAIN db["checkHour"] /\ db'["checkHour"][k] = db["checkHour"][k]
              /\ \A k \in DOMAIN db["checkHour"] :
                   k >= at - Keep["checkHour"] => k \in DOMAIN db'["checkHour"]
          BY <5>1, DeletionLeaves
        <5>3. \A k \in DOMAIN db["checkHour"] : k \in Nat
          BY KeyType, DayConstants
        <5>4. d >= now - Keep["checkHour"] =>
                \A k \in DOMAIN db["checkHour"] : d <= k => k >= at - Keep["checkHour"]
          BY <1>a, <5>1, <5>3
        <5> QED BY <5>2, <5>4 DEF KeepsHours
      <4> QED BY <2>4, <4>1, <4>2 DEF OtherStatement
    <3> QED BY <1>c, <2>1, <2>4, <3>1 DEF OtherStatement, Unticked
  <2> QED BY <1>1, <2>2, <2>3, <2>4, DayStatements
<1>2. ASSUME NEW l \in Loops, StatementFails(l) PROVE DayOk(d)'
  <2>1. /\ Busy(l) /\ up /\ UNCHANGED <<now, started, db>> /\ upset' = upset \cup {now}
        /\ loop' = [loop EXCEPT ![l] = Rest(Run(l))] /\ RunInv
    BY <1>2 DEF StatementFails, TypeInv
  <2>2. loop'[l].fire = Run(l).fire /\ \A k \in Loops : k # l => loop'[k] = loop[k]
    BY <2>1, LoopStep
  <2>3. CASE l = "daily"
    <3>1. Run(l).fire \in Nat
      BY <1>a, <2>1, <2>3, RunFire
    <3>2. LastTick(l) <= Run(l).fire - Period[l] /\ Run(l).fire - Period[l] <= now
      BY <2>1, RunTick
    <3>3. LastTick(l)' = Run(l).fire - Period[l] /\ LastTick(l)' \in Int
      BY <2>2, <3>1, PeriodPositive DEF LastTick
    <3> QED BY <1>b, <2>1, <2>3, <3>2, <3>3
  <2>4. CASE l # "daily"
    <3>1. loop'["daily"].fire = loop["daily"].fire /\ upset \subseteq upset'
      BY <1>a, <2>1, <2>2, <2>4
    <3> QED BY <1>c, <2>1, <3>1, HourKept
  <2> QED BY <2>3, <2>4
<1>3. CASE Crash
  <2>1. UNCHANGED <<now, started, db>> /\ upset \subseteq upset'
    BY <1>3 DEF Crash
  <2>2. loop'["daily"].fire = loop["daily"].fire
    BY <1>3, <1>a DEF Crash
  <2> QED BY <1>c, <2>1, <2>2, HourKept
<1>4. CASE Start
  <2>1. UNCHANGED <<now, db>> /\ started' = now /\ upset' = upset \cup {now} /\ loop' = FreshLoops(now)
    BY <1>4 DEF Start
  <2> DEFINE fire == loop'["daily"].fire
  <2>2. fire \in Nat /\ fire - Day <= now /\ now < fire /\ fire % Day = 0
    BY <1>a, <2>1, FreshFire, DayConstants
  <2>3. LastTick("daily")' = fire - Day
    BY DayConstants DEF LastTick
  <2> HIDE DEF fire
  <2>4. LastTick("daily") <= fire - Day
    <3> DEFINE old == loop["daily"].fire
    <3>1. old \in Int /\ old % Day = 0 /\ old - Day <= now /\ LastTick("daily") = old - Day
      BY <1>a
    <3> HIDE DEF old
    <3>2. ASSUME fire < old PROVE FALSE
      <4>1. fire + Day <= old
        <5>1. /\ fire \in Int /\ old \in Int /\ Day \in Nat \ {0}
              /\ fire % Day = 0 /\ old % Day = 0 /\ fire < old
          BY <1>a, <2>2, <3>1, <3>2
        <5> QED BY <5>1, MultipleGap
      <4> QED BY <1>a, <2>2, <3>1, <4>1
    <3> QED BY <1>a, <2>2, <3>1, <3>2
  <2> QED BY <1>a, <1>b, <2>1, <2>2, <2>3, <2>4
<1>5. CASE Deliver
  <2>1. PICK x \in owed : db' = InsertAgentMetrics(db, x)
    BY <1>5 DEF Deliver
  <2>2. UNCHANGED <<now, started, loop, upset>>
    BY <1>5 DEF Deliver
  <2>3. Adds(db, db', "agent", x)
    BY <2>1, InsertAdds DEF TypeInv, DbType
  <2>4. db'["checkHour"] = db["checkHour"] /\ db'["checkDay"] = db["checkDay"]
    BY <2>3, DayConstants DEF Adds
  <2> QED BY <1>c, <2>2, <2>4, HourKept
<1>6. CASE Pass \/ PassUnpushed \/ PassDown
  <2>1. now' = now + 1 /\ UNCHANGED <<loop, started>> /\ upset \subseteq upset'
    BY <1>6 DEF Pass, PassUnpushed, PassDown
  <2>2. db'["checkHour"] = db["checkHour"] /\ db'["checkDay"] = db["checkDay"]
    BY <1>6, PassRows
  <2>3. DayDone(d)' = DayDone(d)
    BY <2>1 DEF DayDone, LastTick
  <2>4. ASSUME ~DayDone(d), Calm(d + Day, d + Day)', d >= now' - Keep["checkHour"]
        PROVE  now' <= d + Day
    <3>1. now <= d + Day
      BY <1>a, <2>1, <2>4 DEF DayOk, Calm
    <3>2. ASSUME now = d + Day PROVE FALSE
      <4> DEFINE fire == loop["daily"].fire
      <4>1. now \notin upset'
        BY <1>a, <2>4, <3>2 DEF Calm
      <4>2. now < fire
        BY <1>6, <1>a, <4>1, PassQuiet DEF Quiet, Busy
      <4>3. now \in Int /\ now % Day = 0
        <5>1. d \in Int /\ Day \in Int /\ Day \in Nat \ {0} /\ d % Day = 0 /\ Day % Day = 0
          BY <1>a, SelfMultiple
        <5>2. (d + Day) % Day = 0
          BY <5>1, MultipleSum
        <5> QED BY <1>a, <3>2, <5>2
      <4>4. fire \in Int /\ fire % Day = 0 /\ LastTick("daily") = fire - Day
        BY <1>a
      <4> HIDE DEF fire
      <4>5. now + Day <= fire
        BY <1>a, <4>2, <4>3, <4>4, MultipleGap
      <4>6. d + Day <= LastTick("daily")
        BY <1>a, <3>2, <4>4, <4>5
      <4> QED BY <2>4, <4>6 DEF DayDone
    <3> QED BY <1>a, <2>1, <3>1, <3>2
  <2>5. KeepsHours(d)
    BY <2>2, HourKept
  <2>6. now' \in Nat /\ now <= now'
    BY <1>a, <2>1
  <2> QED BY <1>a, <2>1, <2>2, <2>3, <2>4, <2>5, <2>6, DayFrame
<1>7. CASE UNCHANGED vars
  <2>1. UNCHANGED <<now, started, loop, upset, db>>
    BY <1>7 DEF vars
  <2> QED BY <1>c, <2>1, HourKept
<1> QED BY <1>1, <1>2, <1>3, <1>4, <1>5, <1>6, <1>7 DEF Next

\* For every width and retention that fit, and whatever the start: a day whose
\* midnight nothing disturbs has one row, which counts all of its hours but
\* the last, and at most that one more; a tick of the hour that does not fall on midnight
\* cannot be in time for it.  Rows of hours that come late, after faults, and the
\* deletion of old ones after midnight change none of this.
THEOREM DailyAllButLastAlways == Spec => []DailyAllButLast
PROOF
<1> DEFINE Inv == TypeInv /\ TickInv /\ OrderInv /\ PhaseInv /\ DayInv
<1>1. Init => Inv
  BY TypeInvInit, TickInvInit, OrderInit, PhaseInit, DayInvInit
<1>2. Inv /\ [Next]_vars => Inv'
  <2>1. TypeInv /\ TickInv /\ [Next]_vars => TypeInv' /\ TickInv'
    BY RunInvStep, DbTypeStep, ClockTypeStep, TickInvStep DEF TypeInv
  <2> QED BY <2>1, OrderStep, PhaseStep, DayInvStep
<1>3. Inv => DailyAllButLast
  <2> SUFFICES ASSUME TypeInv, TickInv, DayInv, NEW d \in Windows(Day), d + Day < now,
                      Calm(d + Day, d + Day), d >= now - Keep["checkHour"]
               PROVE  DayRow(d)
    BY DEF DailyAllButLast, DayRow, AllDay, ButLast, DayRows
  <2>1. d \in Nat /\ now \in Nat /\ Day \in Nat
    BY DayFacts, DayConstants, Constants DEF Windows, Times
  <2>2. DayOk(d)
    BY DEF DayInv
  <2> QED BY <2>1, <2>2 DEF DayOk
<1> QED BY <1>1, <1>2, <1>3, PTL DEF Spec

=============================================================================
