-------------------------- MODULE SecurityDriftProofs --------------------------
(***************************************************************************)
(* Theorems about SecurityDrift for every set of ports, every hysteresis   *)
(* and every bound on what the environment does.                           *)
(***************************************************************************)
EXTENDS SecurityDrift, TLAPS

-----------------------------------------------------------------------------
\* Types.

\* What the fields of the scan's and the handler's states are.
LEMMA StateFields ==
  ASSUME TypeOK
  PROVE  /\ scan.at \in {"idle", "compare", "initial", "filter", "alert"}
         /\ scan.at \in {"compare", "initial"} => scan.open \subseteq Ports
         /\ scan.at \in {"filter", "alert"} =>
              scan.base \subseteq Ports /\ scan.new \subseteq Ports /\ scan.gone \subseteq Ports
         /\ scan.at = "alert" =>
              /\ scan.todo \subseteq Ports
              /\ scan = [at |-> "alert", base |-> scan.base, new |-> scan.new,
                         gone |-> scan.gone, todo |-> scan.todo]
         /\ accept.at \in {"idle", "write"}
         /\ accept.at = "write" => accept.open \subseteq Ports
BY DEF TypeOK, ScanStates, Idle

\* The states a step leads to.
LEMMA StateTypes ==
  /\ Idle \in ScanStates
  /\ \A a \in {"compare", "initial"}, o \in SUBSET Ports : [at |-> a, open |-> o] \in ScanStates
  /\ \A b, n, g \in SUBSET Ports :
       [at |-> "filter", base |-> b, new |-> n, gone |-> g] \in ScanStates
  /\ \A b, n, g, t \in SUBSET Ports :
       [at |-> "alert", base |-> b, new |-> n, gone |-> g, todo |-> t] \in ScanStates
BY DEF ScanStates, Idle

LEMMA AlertingType ==
  ASSUME NEW b \in SUBSET Ports, NEW n \in SUBSET Ports, NEW g \in SUBSET Ports
  PROVE  Alerting(b, n, g) \in ScanStates
BY StateTypes DEF Alerting

UsedType == used \in [flips: 0..MaxFlips, misses: 0..MaxMisses,
               accepts: 0..MaxAccepts, faults: 0..MaxFaults]

LEMMA SpendType ==
  ASSUME UsedType, NEW what \in {"flips", "accepts", "faults"}, Spend(what)
  PROVE  UsedType'
BY DriftAssumption DEF UsedType, Spend

\* The rows after a scan: the new one, and as many of the old as the window has.
LEMMA RecentType ==
  ASSUME scans \in Seq(SUBSET Ports), Len(scans) <= Hysteresis, NEW open \in SUBSET Ports
  PROVE  /\ Recent(open) \in Seq(SUBSET Ports)
         /\ Len(Recent(open)) <= Hysteresis
         /\ Len(Recent(open)) <= Len(scans) + 1
         /\ Len(Recent(open)) >= 1
         /\ Recent(open)[1] = open
         /\ \A i \in 1..Len(Recent(open)) : i > 1 => Recent(open)[i] = scans[i - 1]
PROOF
<1> DEFINE all == <<open>> \o scans
           n == IF Len(scans) < Hysteresis THEN Len(scans) + 1 ELSE Hysteresis
<1>1. /\ all \in Seq(SUBSET Ports)
      /\ Len(all) = Len(scans) + 1
      /\ all[1] = open
      /\ \A i \in 2..Len(all) : all[i] = scans[i - 1]
  OBVIOUS
<1>2. n \in 1..Len(all) /\ n <= Hysteresis
  BY <1>1, DriftAssumption
<1>3. Recent(open) = SubSeq(all, 1, n)
  BY DEF Recent
<1> HIDE DEF all, n
<1>4. /\ Recent(open) \in Seq(SUBSET Ports)
      /\ Len(Recent(open)) = n
      /\ \A i \in 1..n : Recent(open)[i] = all[i]
  BY <1>1, <1>2, <1>3
<1> QED
  BY <1>1, <1>2, <1>4, DriftAssumption

LEMMA TypeStep == TypeOK /\ [Next]_vars => TypeOK'
PROOF
<1> SUFFICES ASSUME TypeOK, [Next]_vars PROVE TypeOK'
  OBVIOUS
<1> USE DriftAssumption
<1>a. UsedType
  BY DEF TypeOK, UsedType
<1>b. ASSUME NEW ok \in BOOLEAN, MayFail(ok) PROVE UsedType'
  BY <1>a, <1>b, SpendType DEF MayFail, UsedType
<1>1. CASE Scan
  <2>1. PICK missed \in SUBSET world, stored \in BOOLEAN :
          /\ used' = [used EXCEPT !.misses = IF missed = {} THEN @ ELSE @ + 1,
                                  !.faults = IF stored THEN @ ELSE @ + 1]
          /\ used'.misses <= MaxMisses /\ used'.faults <= MaxFaults
          /\ scans' = IF stored THEN Recent(world \ missed) ELSE scans
          /\ scan' = [at |-> "compare", open |-> world \ missed]
    BY <1>1 DEF Scan
  <2>2. UsedType'
    <3> DEFINE m == IF missed = {} THEN used.misses ELSE used.misses + 1
               f == IF stored THEN used.faults ELSE used.faults + 1
    <3>1. used' = [used EXCEPT !.misses = m, !.faults = f]
      BY <2>1
    <3>2. m \in Nat /\ f \in Nat
      BY <1>a DEF UsedType
    <3> HIDE DEF m, f
    <3>3. used' = [flips |-> used.flips, misses |-> m, accepts |-> used.accepts, faults |-> f]
      BY <1>a, <3>1 DEF UsedType
    <3>4. used'.misses <= MaxMisses /\ used'.faults <= MaxFaults
      BY <2>1
    <3>5. m \in 0..MaxMisses /\ f \in 0..MaxFaults
      BY <3>2, <3>3, <3>4
    <3> QED
      BY <1>a, <3>3, <3>5 DEF UsedType
  <2>3. scans' \in Seq(SUBSET Ports) /\ Len(scans') <= Hysteresis
    BY <2>1, RecentType DEF TypeOK
  <2> QED
    BY <1>1, <2>1, <2>2, <2>3, StateTypes DEF Scan, TypeOK, UsedType
<1>2. CASE ReadBaseline
  BY <1>2, StateTypes, StateFields, AlertingType DEF ReadBaseline, TypeOK, New, Gone
<1>3. CASE SetInitialBaseline
  BY <1>3, <1>b, StateTypes, StateFields DEF SetInitialBaseline, TypeOK, UsedType, Differ
<1>4. CASE FilterByHysteresis
  BY <1>4, StateFields, AlertingType DEF FilterByHysteresis, TypeOK, FilterNew, FilterGone
<1>5. ASSUME NEW p \in Ports, SendAlert(p) PROVE TypeOK'
  <2>1. PICK ok \in BOOLEAN :
          /\ MayFail(ok)
          /\ known' = CASE ~ok -> known
                        [] ok /\ p \in scan.new -> known \cup {p}
                        [] OTHER -> known \ {p}
          /\ excused' = IF ok THEN excused \ {p} ELSE excused \cup {p}
    BY <1>5 DEF SendAlert
  <2>2. scan' \in ScanStates
    BY <1>5, StateFields, StateTypes DEF SendAlert
  <2> QED
    BY <1>5, <1>b, <2>1, <2>2 DEF SendAlert, TypeOK, UsedType
<1>6. CASE FoldDrift
  <2>1. baseline' \subseteq Ports /\ excused' \subseteq Ports
    BY <1>6, StateFields DEF FoldDrift, TypeOK, ApplyBaselineDrift, Differ
  <2> QED
    BY <1>6, <1>b, <2>1, StateTypes DEF FoldDrift, TypeOK, UsedType
<1>7. CASE ReadBaselineFails
  BY <1>7, <1>a, SpendType, StateTypes DEF ReadBaselineFails, TypeOK, UsedType
<1>8. CASE FilterFails
  BY <1>8, <1>a, SpendType, StateFields, AlertingType DEF FilterFails, TypeOK, UsedType
<1>9. ASSUME NEW p \in Ports, Flip(p) PROVE TypeOK'
  BY <1>9, <1>a, SpendType DEF Flip, TypeOK, UsedType
<1>10. CASE AcceptRead
  BY <1>10, <1>a, SpendType DEF AcceptRead, TypeOK, UsedType
<1>11. CASE AcceptWrite
  BY <1>11, <1>b, StateFields DEF AcceptWrite, TypeOK, UsedType
<1>12. CASE Restart
  BY <1>12, <1>a, SpendType, StateFields, StateTypes DEF Restart, TypeOK, UsedType
<1>13. CASE UNCHANGED vars
  BY <1>13 DEF vars, TypeOK
<1> QED
  BY <1>1, <1>2, <1>3, <1>4, <1>5, <1>6, <1>7, <1>8, <1>9, <1>10, <1>11, <1>12, <1>13
     DEF Next, ScanStep

-----------------------------------------------------------------------------
\* The inductive invariants.

\* How the scan's state relates to the baseline: only a scan that saw a row
\* compares, what it compares with is the baseline until one is accepted, and a
\* port is new or gone by what it was compared with.
ScanInv ==
  /\ scan.at \in {"filter", "alert"} =>
       /\ hasRow
       /\ ~overlap => baseline = scan.base
       /\ scan.new \cap scan.base = {}
       /\ scan.gone \subseteq scan.base
  /\ scan.at = "alert" => scan.todo \subseteq scan.new \cup scan.gone

\* The ports of an alerting scan that the operator was told about already.
Told == (scan.new \cup scan.gone) \ scan.todo

\* While the alerts go out the operator is ahead of the baseline by the ports
\* told, and without an overlap by those exactly.
AlertInv ==
  scan.at = "alert" =>
    /\ Differ(baseline, known) \subseteq excused \cup Told
    /\ ~overlap => \A p \in Told \ excused : p \in scan.new <=> p \in known

KnownInv == TypeOK /\ ScanInv /\ BaselineIsKnown /\ AlertInv

\* What Alerting hands on of the ports and the baseline it is given.
LEMMA AlertingFields ==
  ASSUME NEW b, NEW n, NEW g
  PROVE  /\ Alerting(b, n, g).at \in {"idle", "alert"}
         /\ Alerting(b, n, g).at = "alert" =>
              /\ Alerting(b, n, g).base = b
              /\ Alerting(b, n, g).new = n
              /\ Alerting(b, n, g).gone = g
              /\ Alerting(b, n, g).todo = n \cup g
              /\ n \cup g # {}
BY DEF Alerting, Idle

\* A scan that saw a row compares with the baseline it read.
LEMMA ReadBaselineResult ==
  ASSUME ReadBaseline
  PROVE  /\ scan'.at \in {"idle", "initial", "filter", "alert"}
         /\ scan'.at = "initial" => scan'.open = scan.open
         /\ scan'.at \in {"filter", "alert"} =>
              /\ hasRow
              /\ scan'.base = baseline
              /\ scan'.new = scan.open \ baseline
              /\ scan'.gone = baseline \ scan.open
         /\ scan'.at = "alert" =>
              scan'.todo = scan'.new \cup scan'.gone /\ Hysteresis = 1
PROOF
<1> DEFINE new == New(baseline, scan.open)
           gone == Gone(baseline, scan.open)
<1>1. CASE ~hasRow
  BY <1>1 DEF ReadBaseline
<1>2. CASE hasRow /\ Hysteresis > 1 /\ new \cup gone # {}
  <2>1. scan' = [at |-> "filter", base |-> baseline, new |-> new, gone |-> gone]
    BY <1>2 DEF ReadBaseline
  <2> QED
    BY <1>2, <2>1 DEF New, Gone
<1>3. CASE hasRow /\ ~(Hysteresis > 1 /\ new \cup gone # {})
  <2>1. scan' = Alerting(baseline, new, gone)
    BY <1>3 DEF ReadBaseline
  <2>2. new = scan.open \ baseline /\ gone = baseline \ scan.open
    BY DEF New, Gone
  <2> HIDE DEF new, gone
  <2>3. /\ scan'.at \in {"idle", "alert"}
        /\ scan'.at = "alert" =>
             /\ scan'.base = baseline /\ scan'.new = new /\ scan'.gone = gone
             /\ scan'.todo = new \cup gone
             /\ new \cup gone # {}
    BY <2>1, AlertingFields
  <2>4. scan'.at = "alert" => Hysteresis = 1
    BY <1>3, <2>3, DriftAssumption
  <2> QED
    BY <1>3, <2>2, <2>3, <2>4
<1> QED
  BY <1>1, <1>2, <1>3

\* What the hysteresis lets through, or all of it, is alerted on.
LEMMA FilterResult ==
  ASSUME FilterByHysteresis \/ FilterFails
  PROVE  /\ scan.at = "filter"
         /\ scan'.at \in {"idle", "alert"}
         /\ scan'.at = "alert" =>
              /\ scan'.base = scan.base
              /\ scan'.new \subseteq scan.new
              /\ scan'.gone \subseteq scan.gone
              /\ scan'.todo = scan'.new \cup scan'.gone
         /\ UNCHANGED <<world, scans, hasRow, baseline, accept, known, excused, overlap>>
PROOF
<1>1. CASE FilterByHysteresis
  <2> DEFINE new == FilterNew(scan.new, scans)
             gone == FilterGone(scan.gone, scans)
  <2>1. new \subseteq scan.new /\ gone \subseteq scan.gone
    BY DEF FilterNew, FilterGone
  <2>2. scan' = Alerting(scan.base, new, gone)
    BY <1>1 DEF FilterByHysteresis
  <2> HIDE DEF new, gone
  <2> QED
    BY <1>1, <2>1, <2>2, AlertingFields DEF FilterByHysteresis
<1>2. CASE FilterFails
  BY <1>2, AlertingFields DEF FilterFails
<1> QED
  BY <1>1, <1>2

LEMMA ScanStepInv == TypeOK /\ ScanInv /\ [Next]_vars => ScanInv'
PROOF
<1> SUFFICES ASSUME TypeOK, ScanInv, [Next]_vars PROVE ScanInv'
  OBVIOUS
<1> USE DEF ScanInv
<1>1. CASE Scan
  BY <1>1 DEF Scan, Idle
<1>2. CASE ReadBaseline
  BY <1>2, ReadBaselineResult DEF ReadBaseline
<1>3. CASE SetInitialBaseline
  BY <1>3 DEF SetInitialBaseline, Idle
<1>4. CASE FilterByHysteresis
  BY <1>4, FilterResult
<1>5. ASSUME NEW p \in Ports, SendAlert(p) PROVE ScanInv'
  <2>1. scan' = [at |-> "alert", base |-> scan.base, new |-> scan.new,
                 gone |-> scan.gone, todo |-> scan.todo \ {p}]
    BY <1>5, StateFields DEF SendAlert
  <2> QED
    BY <1>5, <2>1 DEF SendAlert
<1>6. CASE FoldDrift
  BY <1>6 DEF FoldDrift, Idle
<1>7. CASE ReadBaselineFails
  BY <1>7 DEF ReadBaselineFails, Idle
<1>8. CASE FilterFails
  BY <1>8, FilterResult
<1>9. ASSUME NEW p \in Ports, Flip(p) PROVE ScanInv'
  BY <1>9 DEF Flip
<1>10. CASE AcceptRead
  BY <1>10 DEF AcceptRead
<1>11. CASE AcceptWrite
  BY <1>11 DEF AcceptWrite
<1>12. CASE Restart
  BY <1>12 DEF Restart, Idle
<1>13. CASE UNCHANGED vars
  BY <1>13 DEF vars
<1> QED
  BY <1>1, <1>2, <1>3, <1>4, <1>5, <1>6, <1>7, <1>8, <1>9, <1>10, <1>11, <1>12, <1>13
     DEF Next, ScanStep

LEMMA KnownStep == KnownInv /\ [Next]_vars => (BaselineIsKnown /\ AlertInv)'
PROOF
<1> DEFINE Goal == BaselineIsKnown /\ AlertInv
<1> SUFFICES ASSUME KnownInv, [Next]_vars PROVE Goal'
  OBVIOUS
<1> USE DEF KnownInv, BaselineIsKnown, AlertInv, Told
<1>1. CASE Scan
  BY <1>1 DEF Scan, Idle
<1>2. CASE ReadBaseline
  BY <1>2, ReadBaselineResult DEF ReadBaseline
<1>3. CASE SetInitialBaseline
  BY <1>3 DEF SetInitialBaseline, Idle, Differ
<1>4. CASE FilterByHysteresis
  BY <1>4, FilterResult DEF ScanInv
<1>5. ASSUME NEW p \in Ports, SendAlert(p) PROVE Goal'
  <2>1. scan' = [at |-> "alert", base |-> scan.base, new |-> scan.new,
                 gone |-> scan.gone, todo |-> scan.todo \ {p}]
    BY <1>5, StateFields DEF SendAlert
  <2>2. scan.at = "alert" /\ p \in scan.todo /\ scan.todo \subseteq scan.new \cup scan.gone
    BY <1>5 DEF SendAlert, ScanInv
  <2>3. PICK ok \in BOOLEAN :
          /\ known' = CASE ~ok -> known
                        [] ok /\ p \in scan.new -> known \cup {p}
                        [] OTHER -> known \ {p}
          /\ excused' = IF ok THEN excused \ {p} ELSE excused \cup {p}
    BY <1>5 DEF SendAlert
  <2>4. Told' = Told \cup {p}
    BY <2>1, <2>2
  <2>5. baseline' = baseline /\ overlap' = overlap
    BY <1>5 DEF SendAlert
  <2> QED
    BY <2>1, <2>2, <2>3, <2>4, <2>5 DEF Differ
<1>6. CASE FoldDrift
  <2>1. Told = scan.new \cup scan.gone /\ scan.at = "alert" /\ scan'.at = "idle" /\ known' = known
    BY <1>6 DEF FoldDrift, Idle
  <2>2. PICK ok \in BOOLEAN :
          LET folded == ApplyBaselineDrift(scan.base, scan.new, scan.gone)
          IN /\ baseline' = IF ok THEN folded ELSE baseline
             /\ excused' = excused \cup (CASE ~ok -> scan.new \cup scan.gone
                                        [] ok /\ overlap -> Differ(folded, known)
                                        [] OTHER -> {})
    BY <1>6 DEF FoldDrift
  <2> QED
    BY <2>1, <2>2 DEF Differ, ApplyBaselineDrift, ScanInv
<1>7. CASE ReadBaselineFails
  BY <1>7 DEF ReadBaselineFails, Idle
<1>8. CASE FilterFails
  BY <1>8, FilterResult DEF ScanInv
<1>9. ASSUME NEW p \in Ports, Flip(p) PROVE Goal'
  BY <1>9 DEF Flip
<1>10. CASE AcceptRead
  BY <1>10 DEF AcceptRead
<1>11. CASE AcceptWrite
  BY <1>11 DEF AcceptWrite, Differ
<1>12. CASE Restart
  BY <1>12 DEF Restart, Idle
<1>13. CASE UNCHANGED vars
  BY <1>13 DEF vars
<1> QED
  BY <1>1, <1>2, <1>3, <1>4, <1>5, <1>6, <1>7, <1>8, <1>9, <1>10, <1>11, <1>12, <1>13
     DEF Next, ScanStep

\* A port that was closed all the time is in no scan and in no baseline.
NeverSeen ==
  LET closed == steady \ world
  IN /\ closed \cap baseline = {}
     /\ \A i \in 1..Len(scans) : closed \cap scans[i] = {}
     /\ scan.at \in {"compare", "initial"} => closed \cap scan.open = {}
     /\ scan.at \in {"filter", "alert"} => closed \cap (scan.base \cup scan.new) = {}
     /\ accept.at = "write" => closed \cap accept.open = {}

\* The newest scans miss a port that was open all the time only as often as
\* scans missed ports at all.
MissesCounted ==
  /\ \A p \in steady \cap world, k \in 0..Len(scans) :
       (\A i \in 1..k : p \notin scans[i]) => k <= used.misses
  /\ scan.at = "compare" /\ used.misses = 0 => steady \cap world \subseteq scan.open

\* Fewer scans missed ports, so far, than have to agree.
FewMisses == used.misses < Hysteresis

AlarmInv == TypeOK /\ ScanInv /\ NeverSeen /\ MissesCounted /\ (FewMisses => NoFalseAlarm)

LEMMA NeverSeenStep == TypeOK /\ ScanInv /\ NeverSeen /\ [Next]_vars => NeverSeen'
PROOF
<1> SUFFICES ASSUME TypeOK, ScanInv, NeverSeen, [Next]_vars PROVE NeverSeen'
  OBVIOUS
<1> USE DEF NeverSeen
<1>1. CASE Scan
  <2>1. PICK missed \in SUBSET world, stored \in BOOLEAN :
          /\ scans' = IF stored THEN Recent(world \ missed) ELSE scans
          /\ scan' = [at |-> "compare", open |-> world \ missed]
    BY <1>1 DEF Scan
  <2>2. \A i \in 1..Len(scans') : (steady \ world) \cap scans'[i] = {}
    <3>1. CASE stored
      <4> DEFINE open == world \ missed
      <4>1. open \in SUBSET Ports /\ (steady \ world) \cap open = {}
        BY DEF TypeOK
      <4>2. scans' = Recent(open)
        BY <2>1, <3>1
      <4> HIDE DEF open
      <4> SUFFICES ASSUME NEW i \in 1..Len(Recent(open))
                   PROVE  (steady \ world) \cap Recent(open)[i] = {}
        BY <4>2
      <4>3. CASE i = 1
        BY <4>1, <4>3, RecentType DEF TypeOK
      <4>4. CASE i > 1
        <5>1. Recent(open)[i] = scans[i - 1] /\ i - 1 \in 1..Len(scans)
          BY <4>1, <4>4, RecentType, DriftAssumption DEF TypeOK
        <5> QED
          BY <5>1
      <4> QED
        BY <4>3, <4>4
    <3>2. CASE ~stored
      BY <2>1, <3>2
    <3> QED
      BY <3>1, <3>2
  <2> QED
    BY <1>1, <2>1, <2>2 DEF Scan
<1>2. CASE ReadBaseline
  BY <1>2, ReadBaselineResult DEF ReadBaseline
<1>3. CASE SetInitialBaseline
  BY <1>3 DEF SetInitialBaseline, Idle
<1>4. CASE FilterByHysteresis
  BY <1>4, FilterResult DEF FilterByHysteresis
<1>5. ASSUME NEW p \in Ports, SendAlert(p) PROVE NeverSeen'
  <2>1. scan' = [at |-> "alert", base |-> scan.base, new |-> scan.new,
                 gone |-> scan.gone, todo |-> scan.todo \ {p}]
    BY <1>5, StateFields DEF SendAlert
  <2> QED
    BY <1>5, <2>1 DEF SendAlert
<1>6. CASE FoldDrift
  BY <1>6 DEF FoldDrift, Idle, ApplyBaselineDrift
<1>7. CASE ReadBaselineFails
  BY <1>7 DEF ReadBaselineFails, Idle
<1>8. CASE FilterFails
  BY <1>8, FilterResult DEF FilterFails
<1>9. ASSUME NEW p \in Ports, Flip(p) PROVE NeverSeen'
  <2>1. (steady \ world)' \subseteq steady \ world
    BY <1>9 DEF Flip
  <2> QED
    BY <1>9, <2>1 DEF Flip
<1>10. CASE AcceptRead
  BY <1>10 DEF AcceptRead, TypeOK
<1>11. CASE AcceptWrite
  BY <1>11 DEF AcceptWrite, Idle
<1>12. CASE Restart
  BY <1>12 DEF Restart, Idle
<1>13. CASE UNCHANGED vars
  BY <1>13 DEF vars
<1> QED
  BY <1>1, <1>2, <1>3, <1>4, <1>5, <1>6, <1>7, <1>8, <1>9, <1>10, <1>11, <1>12, <1>13
     DEF Next, ScanStep

LEMMA MissesCountedStep == TypeOK /\ MissesCounted /\ [Next]_vars => MissesCounted'
PROOF
<1> SUFFICES ASSUME TypeOK, MissesCounted, [Next]_vars PROVE MissesCounted'
  OBVIOUS
<1> USE DEF MissesCounted
<1>a. used.misses \in Nat
  BY DriftAssumption DEF TypeOK
<1>1. CASE Scan
  <2>1. PICK missed \in SUBSET world, stored \in BOOLEAN :
          /\ used' = [used EXCEPT !.misses = IF missed = {} THEN @ ELSE @ + 1,
                                  !.faults = IF stored THEN @ ELSE @ + 1]
          /\ scans' = IF stored THEN Recent(world \ missed) ELSE scans
          /\ scan' = [at |-> "compare", open |-> world \ missed]
    BY <1>1 DEF Scan
  <2>2. used'.misses = IF missed = {} THEN used.misses ELSE used.misses + 1
    BY <2>1 DEF TypeOK
  <2>3. UNCHANGED <<steady, world>>
    BY <1>1 DEF Scan
  <2>4. used'.misses = 0 => steady \cap world \subseteq scan'.open
    BY <1>a, <2>1, <2>2
  <2>5. ASSUME NEW p \in steady \cap world, NEW k \in 0..Len(scans'),
               \A i \in 1..k : p \notin scans'[i]
        PROVE  k <= used'.misses
    <3>1. CASE ~stored
      BY <1>a, <2>1, <2>2, <2>5, <3>1 DEF TypeOK
    <3>2. CASE stored /\ k = 0
      BY <1>a, <2>2, <3>2
    <3>3. CASE stored /\ k > 0
      <4> DEFINE open == world \ missed
      <4>1. open \in SUBSET Ports
        BY DEF TypeOK
      <4>2. scans' = Recent(open)
        BY <2>1, <3>3
      <4> HIDE DEF open
      <4>3. p \notin open
        BY <2>5, <3>3, <4>1, <4>2, RecentType DEF TypeOK
      <4>4. missed # {}
        BY <2>5, <4>3 DEF open
      <4>5. k - 1 \in 0..Len(scans)
        BY <2>5, <3>3, <4>1, <4>2, RecentType DEF TypeOK
      <4>6. ASSUME NEW i \in 1..(k - 1) PROVE p \notin scans[i]
        <5>1. i + 1 \in 1..k /\ i + 1 \in 1..Len(scans') /\ i + 1 > 1
          BY <2>5, <4>5
        <5>2. Recent(open)[i + 1] = scans[i]
          BY <4>1, <4>2, <5>1, RecentType DEF TypeOK
        <5> QED
          BY <2>5, <4>2, <5>1, <5>2
      <4>7. k - 1 <= used.misses
        BY <2>5, <4>5, <4>6
      <4> QED
        BY <1>a, <2>2, <2>5, <4>4, <4>7
    <3> QED
      BY <2>5, <3>1, <3>2, <3>3
  <2> QED
    BY <2>3, <2>4, <2>5
<1>b. ASSUME UNCHANGED scans, steady' \cap world' \subseteq steady \cap world,
             scan' = scan \/ scan'.at # "compare", used'.misses = used.misses
      PROVE  MissesCounted'
  BY <1>b
<1>c. ASSUME NEW what \in {"flips", "accepts", "faults"}, Spend(what)
      PROVE  used'.misses = used.misses
  BY <1>c DEF Spend, TypeOK
<1>d. ASSUME NEW ok \in BOOLEAN, MayFail(ok) PROVE used'.misses = used.misses
  BY <1>c, <1>d DEF MayFail
<1>2. CASE ReadBaseline
  BY <1>2, <1>b, ReadBaselineResult DEF ReadBaseline
<1>3. CASE SetInitialBaseline
  BY <1>3, <1>b, <1>d DEF SetInitialBaseline, Idle
<1>4. CASE FilterByHysteresis
  BY <1>4, <1>b, FilterResult DEF FilterByHysteresis
<1>5. ASSUME NEW p \in Ports, SendAlert(p) PROVE MissesCounted'
  <2>1. scan'.at = "alert"
    BY <1>5, StateFields DEF SendAlert
  <2>2. used'.misses = used.misses
    BY <1>5, <1>d DEF SendAlert
  <2> QED
    BY <1>5, <1>b, <2>1, <2>2 DEF SendAlert
<1>6. CASE FoldDrift
  <2>1. used'.misses = used.misses
    BY <1>6, <1>d DEF FoldDrift
  <2> QED
    BY <1>6, <1>b, <2>1 DEF FoldDrift, Idle
<1>7. CASE ReadBaselineFails
  BY <1>7, <1>b, <1>c DEF ReadBaselineFails, Idle
<1>8. CASE FilterFails
  BY <1>8, <1>b, <1>c, FilterResult DEF FilterFails
<1>9. ASSUME NEW p \in Ports, Flip(p) PROVE MissesCounted'
  BY <1>9, <1>b, <1>c DEF Flip
<1>10. CASE AcceptRead
  BY <1>10, <1>b, <1>c DEF AcceptRead
<1>11. CASE AcceptWrite
  BY <1>11, <1>b, <1>d DEF AcceptWrite
<1>12. CASE Restart
  BY <1>12, <1>b, <1>c DEF Restart, Idle
<1>13. CASE UNCHANGED vars
  BY <1>13 DEF vars
<1> QED
  BY <1>1, <1>2, <1>3, <1>4, <1>5, <1>6, <1>7, <1>8, <1>9, <1>10, <1>11, <1>12, <1>13
     DEF Next, ScanStep

\* Misses are only ever added to.
LEMMA MissesGrow == TypeOK /\ [Next]_vars => used.misses <= used'.misses
PROOF
<1> SUFFICES ASSUME TypeOK, [Next]_vars PROVE used.misses <= used'.misses
  OBVIOUS
<1>1. used.misses \in Nat
  BY DEF TypeOK
<1>2. ASSUME NEW what \in {"flips", "accepts", "faults"}, Spend(what)
      PROVE  used'.misses = used.misses
  BY <1>2 DEF Spend, TypeOK
<1>3. ASSUME NEW ok \in BOOLEAN, MayFail(ok) PROVE used'.misses = used.misses
  BY <1>2, <1>3 DEF MayFail
<1>4. CASE Scan
  <2>1. PICK missed \in SUBSET world, stored \in BOOLEAN :
          used' = [used EXCEPT !.misses = IF missed = {} THEN @ ELSE @ + 1,
                               !.faults = IF stored THEN @ ELSE @ + 1]
    BY <1>4 DEF Scan
  <2>2. used'.misses = IF missed = {} THEN used.misses ELSE used.misses + 1
    BY <2>1 DEF TypeOK
  <2> QED
    BY <1>1, <2>2
<1>5. CASE ReadBaseline
  BY <1>1, <1>5 DEF ReadBaseline
<1>6. CASE SetInitialBaseline
  BY <1>1, <1>3, <1>6 DEF SetInitialBaseline
<1>7. CASE FilterByHysteresis
  BY <1>1, <1>7 DEF FilterByHysteresis
<1>8. ASSUME NEW p \in Ports, SendAlert(p) PROVE used.misses <= used'.misses
  BY <1>1, <1>3, <1>8 DEF SendAlert
<1>9. CASE FoldDrift
  BY <1>1, <1>3, <1>9 DEF FoldDrift
<1>10. CASE ReadBaselineFails
  BY <1>1, <1>2, <1>10 DEF ReadBaselineFails
<1>11. CASE FilterFails
  BY <1>1, <1>2, <1>11 DEF FilterFails
<1>12. ASSUME NEW p \in Ports, Flip(p) PROVE used.misses <= used'.misses
  BY <1>1, <1>2, <1>12 DEF Flip
<1>13. CASE AcceptRead
  BY <1>1, <1>2, <1>13 DEF AcceptRead
<1>14. CASE AcceptWrite
  BY <1>1, <1>3, <1>14 DEF AcceptWrite
<1>15. CASE Restart
  BY <1>1, <1>2, <1>15 DEF Restart
<1>16. CASE UNCHANGED vars
  BY <1>1, <1>16 DEF vars
<1> QED
  BY <1>4, <1>5, <1>6, <1>7, <1>8, <1>9, <1>10, <1>11, <1>12, <1>13, <1>14, <1>15, <1>16
     DEF Next, ScanStep

\* Whoever tells of a steady port: it is open, and the baseline or the window of
\* scans did not have it.
LEMMA NoFalseAlarmStep == AlarmInv /\ [Next]_vars => (FewMisses => NoFalseAlarm)'
PROOF
<1> SUFFICES ASSUME AlarmInv, [Next]_vars, FewMisses' PROVE NoFalseAlarm'
  OBVIOUS
<1>a. used.misses \in Nat /\ used.misses < Hysteresis
  <2>1. used.misses \in Nat
    BY DEF AlarmInv, TypeOK
  <2>2. used'.misses \in Nat /\ used.misses <= used'.misses
    BY TypeStep, MissesGrow DEF AlarmInv, TypeOK
  <2> QED
    BY <2>1, <2>2, DriftAssumption DEF FewMisses
<1>b. NoFalseAlarm
  BY <1>a DEF AlarmInv, FewMisses
<1> USE <1>b DEF AlarmInv, NoFalseAlarm
<1>1. CASE Scan
  BY <1>1 DEF Scan
<1>2. CASE ReadBaseline
  <2> SUFFICES ASSUME scan'.at = "alert", NEW p \in scan'.todo \cap steady
               PROVE  p \in scan'.new /\ p \in world
    BY <1>2 DEF ReadBaseline
  <2>1. used.misses = 0
    BY <1>2, <1>a, ReadBaselineResult
  <2>2. steady \cap world \subseteq scan.open
    BY <1>2, <2>1 DEF ReadBaseline, MissesCounted
  <2>3. (steady \ world) \cap (baseline \cup scan.open) = {}
    BY <1>2 DEF ReadBaseline, NeverSeen
  <2> QED
    BY <1>2, <2>2, <2>3, ReadBaselineResult
<1>3. CASE SetInitialBaseline
  BY <1>3 DEF SetInitialBaseline, Idle
<1>4. CASE FilterByHysteresis
  <2> SUFFICES ASSUME scan'.at = "alert", NEW p \in scan'.todo \cap steady
               PROVE  p \in scan'.new /\ p \in world
    BY <1>4 DEF FilterByHysteresis
  <2> DEFINE new == FilterNew(scan.new, scans)
             gone == FilterGone(scan.gone, scans)
  <2>1. scan'.new = new /\ scan'.gone = gone /\ scan'.todo = new \cup gone
    <3>1. scan' = Alerting(scan.base, new, gone)
      BY <1>4 DEF FilterByHysteresis
    <3> HIDE DEF new, gone
    <3> QED
      BY <3>1, AlertingFields
  <2>2. scan.at = "filter"
    BY <1>4 DEF FilterByHysteresis
  <2>3. p \in world
    <3>1. new \cup gone \subseteq scan.new \cup scan.base
      BY <2>2 DEF FilterNew, FilterGone, ScanInv
    <3>2. (steady \ world) \cap (scan.base \cup scan.new) = {}
      BY <2>2 DEF NeverSeen
    <3> QED
      BY <2>1, <3>1, <3>2
  <2>4. p \notin gone
    <3> SUFFICES ASSUME p \in gone PROVE FALSE
      OBVIOUS
    <3>1. Hysteresis \in 0..Len(scans) /\ \A i \in 1..Hysteresis : p \notin scans[i]
      BY DriftAssumption DEF FilterGone, Confirmed, TypeOK
    <3>2. Hysteresis <= used.misses
      BY <2>3, <3>1 DEF MissesCounted
    <3> QED
      BY <1>a, <3>2, DriftAssumption
  <2> QED
    BY <2>1, <2>3, <2>4
<1>5. ASSUME NEW p \in Ports, SendAlert(p) PROVE NoFalseAlarm'
  <2>1. scan.at = "alert" /\ scan'.todo \subseteq scan.todo /\ scan'.new = scan.new
    BY <1>5, StateFields DEF SendAlert
  <2> QED
    BY <1>5, <2>1 DEF SendAlert
<1>6. CASE FoldDrift
  BY <1>6 DEF FoldDrift, Idle
<1>7. CASE ReadBaselineFails
  BY <1>7 DEF ReadBaselineFails, Idle
<1>8. CASE FilterFails
  BY <1>8, FilterResult DEF FilterFails
<1>9. ASSUME NEW p \in Ports, Flip(p) PROVE NoFalseAlarm'
  BY <1>9 DEF Flip
<1>10. CASE AcceptRead
  BY <1>10 DEF AcceptRead
<1>11. CASE AcceptWrite
  BY <1>11 DEF AcceptWrite
<1>12. CASE Restart
  BY <1>12 DEF Restart, Idle
<1>13. CASE UNCHANGED vars
  BY <1>13 DEF vars
<1> QED
  BY <1>1, <1>2, <1>3, <1>4, <1>5, <1>6, <1>7, <1>8, <1>9, <1>10, <1>11, <1>12, <1>13
     DEF Next, ScanStep

-----------------------------------------------------------------------------
\* The theorems.

LEMMA TypeInit == Init => TypeOK
PROOF
<1> SUFFICES ASSUME Init PROVE TypeOK
  OBVIOUS
<1>1. scans \in Seq(SUBSET Ports) /\ Len(scans) <= Hysteresis
  BY DriftAssumption DEF Init
<1>2. UsedType
  BY DriftAssumption DEF Init, UsedType
<1> QED
  BY <1>1, <1>2, StateTypes DEF Init, TypeOK, UsedType

\* Every variable keeps its type: no more rows are kept than the hysteresis
\* looks at, and ports enter the baseline only from scans.
THEOREM TypeCorrect == Spec => []TypeOK
<1>1. Init => TypeOK
  BY TypeInit
<1>2. TypeOK /\ [Next]_vars => TypeOK'
  BY TypeStep
<1> QED
  BY <1>1, <1>2, PTL DEF Spec

\* The conjunction of what the scan, the baseline and the operator know is
\* inductive.
LEMMA KnownInvariant == Spec => []KnownInv
<1>1. Init => KnownInv
  BY TypeInit DEF Init, KnownInv, ScanInv, BaselineIsKnown, AlertInv, Idle
<1>2. KnownInv /\ [Next]_vars => KnownInv'
  BY TypeStep, ScanStepInv, KnownStep DEF KnownInv
<1> QED
  BY <1>1, <1>2, PTL DEF Spec

\* Whatever calls fail and whenever the hub restarts or a baseline is accepted:
\* nothing is in the baseline, or missing from it, that the operator was not
\* told, but for the ports the failures and overlaps account for.
THEOREM BaselineAlwaysKnown == Spec => []BaselineIsKnown
<1>1. KnownInv => BaselineIsKnown
  BY DEF KnownInv
<1> QED
  BY <1>1, KnownInvariant, PTL

\* No alert repeats what the operator knows.
THEOREM NoAlertTwice == Spec => []AlertsOnce
<1>1. KnownInv => AlertsOnce
  <2> SUFFICES ASSUME KnownInv, scan.at = "alert", ~overlap, NEW p \in scan.todo \ excused
               PROVE  p \in scan.new <=> p \notin known
    BY DEF AlertsOnce
  <2>1. p \notin Differ(baseline, known)
    BY DEF KnownInv, AlertInv, Told
  <2>2. p \in scan.new <=> p \notin baseline
    BY DEF KnownInv, ScanInv
  <2> QED
    BY <2>1, <2>2 DEF Differ
<1> QED
  BY <1>1, KnownInvariant, PTL

\* While fewer scans have missed ports than the hysteresis asks to agree, the
\* operator is told nothing false of a port that never changed: it takes that many
\* bad scans for FilterByHysteresis to let a false alarm through.
THEOREM FalseAlarmTakesMisses == Spec => [](FewMisses => NoFalseAlarm)
<1>1. Init => AlarmInv
  BY TypeInit DEF Init, AlarmInv, ScanInv, NeverSeen, MissesCounted, NoFalseAlarm, Idle
<1>2. AlarmInv /\ [Next]_vars => AlarmInv'
  BY TypeStep, ScanStepInv, NeverSeenStep, MissesCountedStep, NoFalseAlarmStep DEF AlarmInv
<1>3. AlarmInv => (FewMisses => NoFalseAlarm)
  BY DEF AlarmInv
<1> QED
  BY <1>1, <1>2, <1>3, PTL DEF Spec

\* So where the bound on the misses is below the hysteresis there are none.
COROLLARY NoFalseAlarmHolds ==
  ASSUME MaxMisses < Hysteresis
  PROVE  Spec => []NoFalseAlarm
<1>1. TypeOK => FewMisses
  BY DriftAssumption DEF TypeOK, FewMisses
<1> QED
  BY <1>1, TypeCorrect, FalseAlarmTakesMisses, PTL

=============================================================================
