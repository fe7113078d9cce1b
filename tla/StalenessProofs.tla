---------------------------- MODULE StalenessProofs ----------------------------
(***************************************************************************)
(* Proofs about AgentPush and Staleness, for every size and age of the     *)
(* buffer, every threshold and every number of faults.                     *)
(***************************************************************************)
EXTENDS Staleness, SeqFilterProofs

-----------------------------------------------------------------------------
\* Batches and where the agent is.

LEMMA AgesAreNumbers == Old \in Nat \ {0} /\ Ages \subseteq Nat
PROOF BY AgentAssumption DEF Old, Ages

LEMMA OlderType ==
  ASSUME NEW a \in Ages
  PROVE  Older(a) \in Ages
PROOF BY AgesAreNumbers DEF Older, Ages

LEMMA OlderOrder ==
  ASSUME NEW a \in Ages, NEW b \in Ages, a >= b
  PROVE  Older(a) >= Older(b)
PROOF BY AgesAreNumbers DEF Older, Ages

LEMMA BatchFields ==
  /\ \A b \in Batches : b.age \in Ages
  /\ \A b \in Batches, age \in Ages :
       [b EXCEPT !.age = age] \in Batches /\ [b EXCEPT !.age = age].age = age
  /\ \A empty \in BOOLEAN : [age |-> 0, empty |-> empty] \in Batches
PROOF
<1>1. 0 \in Ages
  BY AgesAreNumbers DEF Ages
<1> QED
  BY <1>1 DEF Batches

LEMMA AgentFields ==
  ASSUME agent \in AgentStates
  PROVE  /\ agent.at \in {"off", "idle", "flush", "final", "send"}
         /\ agent.at = "flush" => /\ agent = [at |-> "flush", rest |-> agent.rest, cur |-> agent.cur]
                                  /\ agent.rest \in Seq(Batches) /\ agent.cur \in Batches
         /\ agent.at = "final" => /\ agent = [at |-> "final", rest |-> agent.rest]
                                  /\ agent.rest \in Seq(Batches)
         /\ agent.at = "send" => agent.cur \in Batches
PROOF BY DEF AgentStates

LEMMA AgentTypes ==
  /\ [at |-> "off"] \in AgentStates /\ [at |-> "idle"] \in AgentStates
  /\ \A rest \in Seq(Batches) :
       /\ [at |-> "final", rest |-> rest] \in AgentStates
       /\ \A cur \in Batches : [at |-> "flush", rest |-> rest, cur |-> cur] \in AgentStates
  /\ \A cur \in Batches : [at |-> "send", cur |-> cur] \in AgentStates
PROOF BY DEF AgentStates

-----------------------------------------------------------------------------
\* Sequences of batches.

LEMMA AllOlderType ==
  ASSUME NEW batches \in Seq(Batches)
  PROVE  /\ AllOlder(batches) \in Seq(Batches)
         /\ Len(AllOlder(batches)) = Len(batches)
         /\ \A i \in 1..Len(batches) : AllOlder(batches)[i].age = Older(batches[i].age)
PROOF
<1>1. Len(batches) \in Nat /\ DOMAIN batches = 1..Len(batches)
  BY LenProperties
<1>2. ASSUME NEW i \in 1..Len(batches)
      PROVE  /\ AllOlder(batches)[i] \in Batches
             /\ AllOlder(batches)[i].age = Older(batches[i].age)
  <2>1. batches[i] \in Batches
    BY ElementOfSeq
  <2>2. batches[i].age \in Ages
    BY <2>1, BatchFields
  <2>3. Older(batches[i].age) \in Ages
    BY <2>2, OlderType
  <2>4. AllOlder(batches)[i] = [batches[i] EXCEPT !.age = Older(batches[i].age)]
    BY <1>1 DEF AllOlder
  <2> QED
    BY <2>1, <2>3, <2>4, BatchFields
<1>3. AllOlder(batches) \in [1..Len(batches) -> Batches]
  BY <1>1, <1>2 DEF AllOlder
<1> QED
  BY <1>1, <1>2, <1>3

LEMMA AllOlderOrder ==
  ASSUME NEW batches \in Seq(Batches), Increasing(batches)
  PROVE  Increasing(AllOlder(batches))
PROOF
<1>1. /\ Len(batches) \in Nat /\ DOMAIN batches = 1..Len(batches)
      /\ DOMAIN AllOlder(batches) = 1..Len(batches)
  BY LenProperties, AllOlderType
<1>2. ASSUME NEW i \in 1..Len(batches), NEW j \in 1..Len(batches), i < j
      PROVE  AllOlder(batches)[i].age >= AllOlder(batches)[j].age
  <2>1. batches[i].age \in Ages /\ batches[j].age \in Ages /\ batches[i].age >= batches[j].age
    BY <1>1, <1>2, ElementOfSeq, BatchFields DEF Increasing
  <2> QED
    BY <2>1, OlderOrder, AllOlderType
<1> QED
  BY <1>1, <1>2 DEF Increasing

LEMMA RemoveAtType ==
  ASSUME NEW T, NEW s \in Seq(T), NEW i \in 1..Len(s)
  PROVE  RemoveAt(s, i) \in Seq(T)
PROOF
<1>1. Len(s) \in Nat
  BY LenProperties
<1>2. \A k \in 1..Len(s) : s[k] \in T
  BY ElementOfSeq
<1>3. SubSeq(s, 1, i - 1) \in Seq(T) /\ SubSeq(s, i + 1, Len(s)) \in Seq(T)
  BY <1>1, <1>2, SubSeqProperties
<1> QED
  BY <1>3, ConcatProperties DEF RemoveAt

LEMMA NoBatches ==
  /\ <<>> \in Seq(Batches) /\ Len(<<>>) = 0 /\ 0 <= MaxSize
  /\ Increasing(<<>>)
PROOF BY EmptySeq, AgentAssumption DEF Increasing

\* What Add leaves in the buffer: at most one more, at most MaxSize; and in
\* order, when what is added is not older than what is there.
LEMMA AddType ==
  ASSUME NEW buf \in Seq(Batches), NEW batch \in Batches
  PROVE  /\ Add(buf, batch) \in Seq(Batches)
         /\ Len(Add(buf, batch)) <= Len(buf) + 1
         /\ Len(Add(buf, batch)) <= MaxSize
PROOF
<1> DEFINE valid == Filter(buf, Young)
           added == Append(valid, batch)
           excess == Len(added) - MaxSize
<1>1. valid \in Seq(Batches) /\ Len(valid) <= Len(buf)
  BY FilterType
<1> HIDE DEF valid
<1>2. added \in Seq(Batches) /\ Len(added) = Len(valid) + 1
  BY <1>1, AppendProperties
<1>3. Len(valid) \in Nat /\ Len(added) \in Nat /\ Len(buf) \in Nat /\ MaxSize \in Nat
  BY <1>1, <1>2, LenProperties, AgentAssumption
<1>4. Add(buf, batch) = IF excess > 0 THEN SubSeq(added, excess + 1, Len(added)) ELSE added
  BY DEF Add, valid
<1> HIDE DEF added
<1>5. CASE excess > 0
  <2>1. \A k \in (excess + 1)..Len(added) : k \in 1..Len(added)
    BY <1>3, <1>5
  <2>2. \A k \in (excess + 1)..Len(added) : added[k] \in Batches
    BY <1>2, <2>1, ElementOfSeq
  <2>3. excess + 1 \in Int /\ Len(added) \in Int /\ excess + 1 <= Len(added) + 1
        /\ Len(added) - (excess + 1) + 1 = MaxSize
    BY <1>3, AgentAssumption
  <2>4. SubSeq(added, excess + 1, Len(added)) \in Seq(Batches)
        /\ Len(SubSeq(added, excess + 1, Len(added))) =
             IF excess + 1 <= Len(added) THEN Len(added) - (excess + 1) + 1 ELSE 0
    <3> HIDE DEF excess
    <3> QED
      BY <2>2, <2>3, SubSeqProperties
  <2>5. Len(Add(buf, batch)) = MaxSize
    BY <1>3, <1>4, <1>5, <2>3, <2>4
  <2> QED
    BY <1>1, <1>2, <1>3, <1>4, <1>5, <2>4, <2>5
<1>6. CASE ~(excess > 0)
  BY <1>1, <1>2, <1>3, <1>4, <1>6
<1> QED
  BY <1>5, <1>6

LEMMA AddOrder ==
  ASSUME NEW buf \in Seq(Batches), NEW batch \in Batches,
         Increasing(buf), buf = <<>> \/ batch.age = 0
  PROVE  Increasing(Add(buf, batch))
PROOF
<1> DEFINE valid == Filter(buf, Young)
           added == Append(valid, batch)
           excess == Len(added) - MaxSize
<1>1. valid \in Seq(Batches) /\ Len(valid) <= Len(buf) /\ Len(valid) \in Nat
  BY FilterType, LenProperties
<1>2. ASSUME NEW i \in 1..Len(valid), NEW j \in 1..Len(valid), i < j
      PROVE  valid[i].age >= valid[j].age
  <2>1. PICK k \in 1..Len(buf), l \in 1..Len(buf) :
          k < l /\ valid[i] = buf[k] /\ valid[j] = buf[l]
    BY <1>2, FilterOrder
  <2>2. DOMAIN buf = 1..Len(buf)
    BY LenProperties
  <2> QED
    BY <2>1, <2>2 DEF Increasing
<1>3. ASSUME NEW i \in 1..Len(valid) PROVE valid[i].age >= batch.age
  <2>1. buf # <<>>
    <3>1. ASSUME buf = <<>> PROVE FALSE
      <4>1. Len(buf) = 0
        BY <3>1
      <4> QED
        BY <1>1, <4>1
    <3> QED
      BY <3>1
  <2>2. valid[i] \in Batches
    BY <1>1, ElementOfSeq
  <2>3. valid[i].age \in Nat
    BY <2>2, BatchFields, AgesAreNumbers
  <2> QED
    BY <2>1, <2>3
<1>4. /\ added \in Seq(Batches) /\ Len(added) = Len(valid) + 1
      /\ added[Len(valid) + 1] = batch
      /\ \A i \in 1..Len(valid) : added[i] = valid[i]
  BY <1>1, AppendProperties
<1>5. Add(buf, batch) = IF excess > 0 THEN SubSeq(added, excess + 1, Len(added)) ELSE added
  BY DEF Add
<1> HIDE DEF valid, added
<1>6. ASSUME NEW i \in 1..Len(added), NEW j \in 1..Len(added), i < j
      PROVE  added[i].age >= added[j].age
  <2>1. i \in 1..Len(valid)
    BY <1>1, <1>4, <1>6
  <2>2. CASE j \in 1..Len(valid)
    BY <1>2, <1>4, <1>6, <2>1, <2>2
  <2>3. CASE j = Len(valid) + 1
    BY <1>3, <1>4, <2>1, <2>3
  <2> QED
    BY <1>1, <1>4, <2>2, <2>3
<1>7. CASE excess > 0
  <2> DEFINE cut == SubSeq(added, excess + 1, Len(added))
  <2>1. Len(added) \in Nat /\ excess \in Nat /\ excess < Len(added)
        /\ Len(added) - (excess + 1) + 1 = Len(added) - excess
    BY <1>1, <1>4, <1>7, AgentAssumption
  <2> HIDE DEF excess
  <2>2. \A k \in (excess + 1)..Len(added) : added[k] \in Batches
    BY <1>4, <2>1, ElementOfSeq
  <2>3. /\ cut \in Seq(Batches)
        /\ Len(cut) = IF excess + 1 <= Len(added) THEN Len(added) - (excess + 1) + 1 ELSE 0
        /\ \A i \in 1..(Len(added) - (excess + 1) + 1) : cut[i] = added[excess + 1 + i - 1]
    <3>1. excess + 1 \in Int /\ Len(added) \in Int
      BY <2>1
    <3> QED
      BY <2>2, <3>1, SubSeqProperties
  <2> HIDE DEF cut
  <2>4. \A i \in 1..Len(cut) : excess + i \in 1..Len(added) /\ cut[i] = added[excess + i]
    BY <2>1, <2>3
  <2>5. ASSUME NEW i \in 1..Len(cut), NEW j \in 1..Len(cut), i < j
        PROVE  cut[i].age >= cut[j].age
    <3> DEFINE m == excess + i
               n == excess + j
    <3>1. m \in 1..Len(added) /\ n \in 1..Len(added)
      BY <2>4
    <3>2. cut[i] = added[m] /\ cut[j] = added[n]
      BY <2>4
    <3>3. i \in Int /\ j \in Int /\ excess \in Int
      BY <2>1
    <3>4. m < n
      BY <2>5, <3>3
    <3> HIDE DEF m, n
    <3> QED
      BY <1>6, <3>1, <3>2, <3>4
  <2>6. DOMAIN cut = 1..Len(cut)
    BY <2>3, LenProperties
  <2>7. Add(buf, batch) = cut
    BY <1>5, <1>7 DEF excess, cut
  <2> QED
    BY <2>5, <2>6, <2>7 DEF Increasing
<1>8. CASE ~(excess > 0)
  <2>1. DOMAIN added = 1..Len(added) /\ Add(buf, batch) = added
    BY <1>4, <1>5, <1>8, LenProperties
  <2> QED
    BY <1>6, <2>1 DEF Increasing
<1> QED
  BY <1>7, <1>8

-----------------------------------------------------------------------------
\* The agent's buffer.

\* What is drained was in the buffer, which is empty meanwhile; and no time
\* passes between collecting a batch and trying to send it.
FlushInv ==
  /\ agent.at \in {"flush", "final"} => agent.rest # <<>> /\ buffer = <<>>
  /\ agent.at \in {"flush", "send"} => agent.cur.age = 0

\* When the current batch is next, one batch is in the buffer at most.
CountInv == TwoBuffered /\ (agent.at = "send" => Len(buffer) <= 1)

PushInv == PushTypeOK /\ FlushInv /\ CountInv /\ OldestFirst

LEMMA FaultType ==
  ASSUME faults \in 0..MaxFaults, Fault
  PROVE  faults' \in 0..MaxFaults
PROOF BY AgentAssumption DEF Fault

\* What a request does to the hub and the network.
LEMMA SendType ==
  ASSUME PushTypeOK, NEW batch \in Batches, SendOK(batch) \/ SendError(batch)
  PROVE  late' \in Seq(Batches) /\ lastSeen' \in Ages \cup {None} /\ faults' \in 0..MaxFaults
PROOF
<1>1. batch.age \in Ages
  BY BatchFields
<1>2. Append(late, batch) \in Seq(Batches)
  BY AppendProperties DEF PushTypeOK
<1> QED
  BY <1>1, <1>2, FaultType DEF PushTypeOK, SendOK, SendError, Store

LEMMA FlushHead ==
  ASSUME PushTypeOK, FlushInv, agent.at \in {"flush", "final"}
  PROVE  /\ Head(agent.rest) \in Batches
         /\ Tail(agent.rest) \in Seq(Batches)
         /\ Len(agent.rest) \in Nat \ {0}
         /\ Len(Tail(agent.rest)) = Len(agent.rest) - 1
         /\ \A i \in 1..Len(Tail(agent.rest)) : Tail(agent.rest)[i] = agent.rest[i + 1]
PROOF
<1>1. agent.rest \in Seq(Batches) /\ agent.rest # <<>>
  BY AgentFields DEF PushTypeOK, FlushInv
<1> QED
  BY <1>1, HeadTailProperties, EmptySeq

LEMMA AfterFlushIs ==
  ASSUME PushTypeOK, FlushInv, agent.at \in {"flush", "final"}, agent' = AfterFlush
  PROVE  /\ agent' \in AgentStates
         /\ agent'.at \in {"send", "off"}
         /\ agent'.at = "send" => agent'.cur.age = 0
PROOF
<1>1. CASE agent.at = "flush"
  <2>1. agent' = [at |-> "send", cur |-> agent.cur] /\ agent.cur \in Batches
    BY <1>1, AgentFields DEF AfterFlush, PushTypeOK
  <2> QED
    BY <1>1, <2>1, AgentTypes DEF FlushInv
<1>2. CASE agent.at = "final"
  <2>1. agent' = [at |-> "off"]
    BY <1>2 DEF AfterFlush
  <2> QED
    BY <2>1, AgentTypes
<1> QED
  BY <1>1, <1>2

LEMMA CollectKeepsInv ==
  ASSUME PushInv, Collect
  PROVE  PushInv'
PROOF
<1>0. buffer \in Seq(Batches) /\ Len(buffer) \in Nat /\ Len(buffer) <= 2 /\ Increasing(buffer)
      /\ Drained = <<>> /\ due \in BOOLEAN /\ net \in BOOLEAN
  BY LenProperties DEF Collect, PushInv, PushTypeOK, CountInv, TwoBuffered, OldestFirst, Drained
<1>1. PICK empty \in BOOLEAN :
        agent' = IF buffer = <<>> THEN [at |-> "send", cur |-> [age |-> 0, empty |-> empty]]
                 ELSE [at |-> "flush", rest |-> buffer, cur |-> [age |-> 0, empty |-> empty]]
  BY DEF Collect
<1>2. [age |-> 0, empty |-> empty] \in Batches /\ [age |-> 0, empty |-> empty].age = 0
  BY BatchFields
<1>3. agent' \in AgentStates
  BY <1>0, <1>1, <1>2, AgentTypes
<1>4. FlushInv'
  BY <1>1, <1>2 DEF FlushInv, Collect
<1>5. buffer' = <<>> /\ Increasing(buffer') /\ Len(buffer') = 0 /\ PushTypeOK'
  <2>1. buffer' = <<>> /\ due' = FALSE /\ UNCHANGED <<net, late, lastSeen, faults>>
    BY DEF Collect
  <2> QED
    BY <1>0, <1>3, <2>1, NoBatches DEF PushInv, PushTypeOK
<1>6. CASE buffer = <<>>
  <2>1. Drained' = <<>> /\ agent'.at = "send"
    BY <1>1, <1>6 DEF Drained
  <2> QED
    BY <1>4, <1>5, <2>1 DEF PushInv, CountInv, TwoBuffered, OldestFirst
<1>7. CASE buffer # <<>>
  <2>1. Drained' = buffer /\ agent'.at = "flush"
    BY <1>1, <1>7 DEF Drained
  <2> QED
    BY <1>0, <1>4, <1>5, <2>1 DEF PushInv, CountInv, TwoBuffered, OldestFirst
<1> QED
  BY <1>6, <1>7

LEMMA FlushOneKeepsInv ==
  ASSUME PushInv, FlushOne
  PROVE  PushInv'
PROOF
<1>0. PushTypeOK /\ FlushInv /\ CountInv /\ OldestFirst /\ agent.at \in {"flush", "final"}
      /\ buffer' = <<>> /\ buffer = <<>> /\ Drained = agent.rest
      /\ due' = due /\ net' = net
  BY DEF FlushOne, PushInv, FlushInv, Drained
<1>1. late' \in Seq(Batches) /\ lastSeen' \in Ages \cup {None} /\ faults' \in 0..MaxFaults
  BY <1>0, FlushHead, SendType DEF FlushOne
<1>2. buffer' \in Seq(Batches) /\ Len(buffer') = 0 /\ Increasing(buffer')
  BY <1>0 DEF Increasing
<1>3. CASE Len(agent.rest) = 1
  <2>1. agent' \in AgentStates /\ agent'.at \in {"send", "off"}
        /\ (agent'.at = "send" => agent'.cur.age = 0)
    BY <1>0, <1>3, AfterFlushIs DEF FlushOne
  <2>2. Drained' = <<>> /\ FlushInv'
    BY <2>1 DEF Drained, FlushInv
  <2>3. PushTypeOK'
    BY <1>0, <1>1, <1>2, <2>1, AgentAssumption DEF PushTypeOK
  <2> QED
    BY <1>2, <2>2, <2>3 DEF PushInv, CountInv, TwoBuffered, OldestFirst
<1>4. CASE Len(agent.rest) # 1
  <2> DEFINE rest == Tail(agent.rest)
  <2>1. /\ agent' \in AgentStates
        /\ agent'.at = agent.at /\ agent'.rest = rest
        /\ agent.at = "flush" => agent'.cur = agent.cur
    <3>1. agent' = [agent EXCEPT !.rest = rest]
      BY <1>4 DEF FlushOne
    <3> HIDE DEF rest
    <3>4. rest \in Seq(Batches)
      BY <1>0, FlushHead DEF rest
    <3>2. CASE agent.at = "flush"
      <4>1. agent' = [at |-> "flush", rest |-> rest, cur |-> agent.cur] /\ agent.cur \in Batches
        BY <1>0, <3>1, <3>2, AgentFields DEF PushTypeOK
      <4>2. agent' \in AgentStates
        BY <3>4, <4>1, AgentTypes
      <4> QED
        BY <3>2, <4>1, <4>2
    <3>3. CASE agent.at = "final"
      <4>1. agent' = [at |-> "final", rest |-> rest]
        BY <1>0, <3>1, <3>3, AgentFields DEF PushTypeOK
      <4>2. agent' \in AgentStates
        BY <3>4, <4>1, AgentTypes
      <4> QED
        BY <3>3, <4>1, <4>2
    <3> QED
      BY <1>0, <3>2, <3>3
  <2>2. /\ rest \in Seq(Batches) /\ Len(rest) = Len(agent.rest) - 1 /\ Len(rest) \in Nat \ {0}
        /\ \A i \in 1..Len(rest) : rest[i] = agent.rest[i + 1]
    BY <1>0, <1>4, FlushHead
  <2> HIDE DEF rest
  <2>3. rest # <<>>
    <3>1. Len(rest) # 0
      BY <2>2
    <3> QED
      BY <3>1, EmptySeq
  <2>4. FlushInv'
    BY <1>0, <2>1, <2>3 DEF FlushInv
  <2>5. Increasing(rest)
    <3>1. DOMAIN rest = 1..Len(rest) /\ DOMAIN agent.rest = 1..Len(agent.rest)
          /\ Len(agent.rest) \in Nat
      BY <1>0, <2>2, LenProperties, AgentFields DEF PushTypeOK
    <3>2. Increasing(agent.rest)
      BY <1>0 DEF OldestFirst
    <3>3. ASSUME NEW i \in 1..Len(rest), NEW j \in 1..Len(rest), i < j
          PROVE  rest[i].age >= rest[j].age
      <4>1. i + 1 \in DOMAIN agent.rest /\ j + 1 \in DOMAIN agent.rest /\ i + 1 < j + 1
        BY <2>2, <3>1, <3>3
      <4>2. agent.rest[i + 1].age >= agent.rest[j + 1].age
        BY <3>2, <4>1 DEF Increasing
      <4> QED
        BY <2>2, <4>2
    <3> QED
      BY <3>1, <3>3 DEF Increasing
  <2>6. Drained' = rest
    BY <1>0, <2>1 DEF Drained
  <2>7. CountInv' /\ OldestFirst'
    <3>1. Len(agent.rest) <= 2 /\ Len(agent.rest) \in Nat
      BY <1>0, FlushHead DEF CountInv, TwoBuffered
    <3> QED
      BY <1>0, <1>2, <2>1, <2>2, <2>5, <2>6, <3>1 DEF CountInv, TwoBuffered, OldestFirst
  <2>8. PushTypeOK'
    BY <1>0, <1>1, <1>2, <2>1, AgentAssumption DEF PushTypeOK
  <2> QED
    BY <2>4, <2>7, <2>8 DEF PushInv
<1> QED
  BY <1>3, <1>4

LEMMA FlushFailsKeepsInv ==
  ASSUME PushInv, FlushFails
  PROVE  PushInv'
PROOF
<1> DEFINE batch == Head(agent.rest)
<1>1. PushTypeOK /\ FlushInv /\ agent.at \in {"flush", "final"} /\ buffer = <<>>
      /\ SendError(batch) /\ buffer' = Add(buffer, batch) /\ agent' = AfterFlush
      /\ due' = due /\ net' = net
  BY DEF FlushFails, PushInv, FlushInv
<1>2. batch \in Batches
  BY <1>1, FlushHead
<1> HIDE DEF batch
<1>3. late' \in Seq(Batches) /\ lastSeen' \in Ages \cup {None} /\ faults' \in 0..MaxFaults
  BY <1>1, <1>2, SendType
<1>4. /\ agent' \in AgentStates /\ agent'.at \in {"send", "off"}
      /\ agent'.at = "send" => agent'.cur.age = 0
  BY <1>1, AfterFlushIs
<1>5. buffer \in Seq(Batches) /\ Len(buffer) = 0 /\ Increasing(buffer)
  BY <1>1, NoBatches
<1>6. /\ buffer' \in Seq(Batches) /\ Len(buffer') <= 1 /\ Len(buffer') <= MaxSize
      /\ Increasing(buffer') /\ Len(buffer') \in Nat
  <2>1. buffer' \in Seq(Batches) /\ Len(buffer') <= Len(buffer) + 1 /\ Len(buffer') <= MaxSize
    BY <1>1, <1>2, <1>5, AddType
  <2>2. Increasing(buffer')
    BY <1>1, <1>2, <1>5, AddOrder
  <2> QED
    BY <1>5, <2>1, <2>2, LenProperties
<1>7. Drained' = <<>> /\ Len(Drained') = 0 /\ Increasing(Drained')
  BY <1>4, NoBatches DEF Drained
<1>8. PushTypeOK'
  BY <1>1, <1>3, <1>4, <1>6 DEF PushTypeOK
<1>9. FlushInv' /\ CountInv' /\ OldestFirst'
  BY <1>4, <1>6, <1>7 DEF FlushInv, CountInv, TwoBuffered, OldestFirst
<1> QED
  BY <1>8, <1>9 DEF PushInv

LEMMA SendCurrentKeepsInv ==
  ASSUME PushInv, SendCurrent
  PROVE  PushInv'
PROOF
<1>1. PushTypeOK /\ agent.at = "send" /\ agent.cur \in Batches /\ agent.cur.age = 0
      /\ buffer \in Seq(Batches) /\ Len(buffer) <= 1 /\ Increasing(buffer)
      /\ Len(buffer) \in Nat /\ Len(buffer) <= MaxSize
  BY AgentFields, LenProperties
     DEF SendCurrent, PushInv, PushTypeOK, FlushInv, CountInv, OldestFirst
<1>2. agent' = [at |-> "idle"] /\ due' = due /\ net' = net
      /\ (SendOK(agent.cur) \/ SendError(agent.cur))
      /\ (buffer' = buffer \/ buffer' = Add(buffer, agent.cur))
  BY DEF SendCurrent
<1>3. late' \in Seq(Batches) /\ lastSeen' \in Ages \cup {None} /\ faults' \in 0..MaxFaults
  BY <1>1, <1>2, SendType
<1>4. /\ Add(buffer, agent.cur) \in Seq(Batches)
      /\ Len(Add(buffer, agent.cur)) <= Len(buffer) + 1
      /\ Len(Add(buffer, agent.cur)) <= MaxSize
      /\ Increasing(Add(buffer, agent.cur))
  BY <1>1, AddType, AddOrder
<1>5. /\ buffer' \in Seq(Batches) /\ Len(buffer') <= 2 /\ Len(buffer') <= MaxSize
      /\ Increasing(buffer') /\ Len(buffer') \in Nat
  <2>1. buffer' \in Seq(Batches) /\ Len(buffer') <= Len(buffer) + 1 /\ Len(buffer') <= MaxSize
        /\ Increasing(buffer')
    BY <1>1, <1>2, <1>4
  <2> QED
    BY <1>1, <2>1, LenProperties
<1>6. agent' \in AgentStates /\ agent'.at = "idle"
  BY <1>2, AgentTypes
<1>7. Drained' = <<>> /\ Len(Drained') = 0 /\ Increasing(Drained')
  BY <1>6, NoBatches DEF Drained
<1>8. PushTypeOK'
  BY <1>1, <1>2, <1>3, <1>5, <1>6 DEF PushTypeOK
<1>9. FlushInv' /\ CountInv' /\ OldestFirst'
  BY <1>5, <1>6, <1>7 DEF FlushInv, CountInv, TwoBuffered, OldestFirst
<1> QED
  BY <1>8, <1>9 DEF PushInv

LEMMA CancelKeepsInv ==
  ASSUME PushInv, Cancel
  PROVE  PushInv'
PROOF
<1>1. agent.at = "idle" /\ PushTypeOK /\ buffer \in Seq(Batches) /\ Increasing(buffer)
      /\ Len(buffer) <= 2 /\ Len(buffer) \in Nat
  <2>1. Drained = <<>> /\ Len(Drained) = 0
    BY NoBatches DEF Cancel, Drained
  <2> QED
    BY <2>1, LenProperties DEF Cancel, PushInv, PushTypeOK, CountInv, TwoBuffered, OldestFirst
<1>2. agent' = (IF buffer = <<>> THEN [at |-> "off"] ELSE [at |-> "final", rest |-> buffer])
      /\ buffer' = <<>> /\ UNCHANGED <<due, net, late, lastSeen, faults>>
  BY DEF Cancel
<1>3. agent' \in AgentStates
  BY <1>1, <1>2, AgentTypes
<1>4. PushTypeOK' /\ Increasing(buffer') /\ Len(buffer') = 0
  BY <1>1, <1>2, <1>3, NoBatches DEF PushTypeOK
<1>5. CASE buffer = <<>>
  <2>1. agent'.at = "off" /\ Drained' = <<>>
    BY <1>2, <1>5 DEF Drained
  <2> QED
    BY <1>4, <2>1, NoBatches DEF PushInv, FlushInv, CountInv, TwoBuffered, OldestFirst
<1>6. CASE buffer # <<>>
  <2>1. agent'.at = "final" /\ agent'.rest = buffer /\ Drained' = buffer
    BY <1>2, <1>6 DEF Drained
  <2> QED
    BY <1>1, <1>2, <1>4, <1>6, <2>1 DEF PushInv, FlushInv, CountInv, TwoBuffered, OldestFirst
<1> QED
  BY <1>5, <1>6

\* The agent is killed or starts: nothing is kept.
LEMMA RestartKeepsInv ==
  ASSUME PushInv, Kill \/ Start
  PROVE  PushInv'
PROOF
<1>1. agent' \in {[at |-> "off"], [at |-> "idle"]} /\ buffer' = <<>> /\ due' \in {due, TRUE}
      /\ UNCHANGED <<net, late, lastSeen, faults>>
  BY DEF Kill, Start
<1>2. agent' \in AgentStates /\ agent'.at \in {"off", "idle"} /\ Drained' = <<>>
  BY <1>1, AgentTypes DEF Drained
<1>3. PushTypeOK'
  BY <1>1, <1>2, NoBatches DEF PushInv, PushTypeOK
<1> QED
  BY <1>1, <1>2, <1>3, NoBatches DEF PushInv, FlushInv, CountInv, TwoBuffered, OldestFirst

\* Nothing that belongs to the agent changes.
LEMMA AgentKept ==
  ASSUME PushInv, UNCHANGED agentVars, net' \in BOOLEAN, late' \in Seq(Batches),
         lastSeen' \in Ages \cup {None}, faults' \in 0..MaxFaults
  PROVE  PushInv'
PROOF
<1>1. agent' = agent /\ due' = due /\ buffer' = buffer
  BY DEF agentVars
<1> QED
  BY <1>1 DEF PushInv, PushTypeOK, FlushInv, CountInv, TwoBuffered, OldestFirst, Drained

LEMMA PushNextKeepsInv ==
  ASSUME PushInv, PushNext
  PROVE  PushInv'
PROOF
<1>1. PushTypeOK
  BY DEF PushInv
<1>2. CASE NetFlips
  <2>1. net' \in BOOLEAN /\ late' \in Seq(Batches) /\ UNCHANGED <<agentVars, lastSeen, faults>>
    BY <1>1, <1>2, NoBatches DEF NetFlips, PushTypeOK
  <2> QED
    BY <1>1, <2>1, AgentKept DEF PushTypeOK
<1>3. CASE LateArrival
  <2>1. PICK i \in 1..Len(late) :
          Store(late[i]) /\ late' = RemoveAt(late, i) /\ UNCHANGED <<agentVars, net, faults>>
    BY <1>3 DEF LateArrival
  <2>2. late \in Seq(Batches)
    BY <1>1 DEF PushTypeOK
  <2>3. late' \in Seq(Batches) /\ late[i] \in Batches
    BY <2>1, <2>2, RemoveAtType, ElementOfSeq
  <2>4. lastSeen' \in Ages
    BY <2>1, <2>3, BatchFields DEF Store
  <2> QED
    BY <1>1, <2>1, <2>3, <2>4, AgentKept DEF PushTypeOK
<1> QED
  BY <1>2, <1>3, CollectKeepsInv, FlushOneKeepsInv, FlushFailsKeepsInv, SendCurrentKeepsInv,
     CancelKeepsInv, RestartKeepsInv DEF PushNext

LEMMA PassIntervalKeepsInv ==
  ASSUME PushInv, PassInterval
  PROVE  PushInv'
PROOF
<1>1. /\ agent' = agent /\ agent.at \in {"idle", "off"} /\ due' = TRUE /\ buffer' = AllOlder(buffer)
      /\ late' = AllOlder(late) /\ lastSeen' = Older(lastSeen)
      /\ UNCHANGED <<net, faults>>
  BY DEF PassInterval
<1>2. PushTypeOK /\ buffer \in Seq(Batches) /\ late \in Seq(Batches) /\ Increasing(buffer)
      /\ lastSeen \in Ages \cup {None}
  BY DEF PushInv, PushTypeOK, OldestFirst
<1>3. /\ buffer' \in Seq(Batches) /\ Len(buffer') = Len(buffer) /\ Increasing(buffer')
      /\ late' \in Seq(Batches)
  BY <1>1, <1>2, AllOlderType, AllOlderOrder
<1>4. lastSeen' \in Ages \cup {None}
  <2>1. CASE lastSeen = None
    BY <1>1, <2>1, AgesAreNumbers DEF Older, None
  <2> QED
    BY <1>1, <1>2, <2>1, OlderType
<1>5. PushTypeOK'
  BY <1>1, <1>2, <1>3, <1>4 DEF PushTypeOK
<1>6. Drained = <<>> /\ Drained' = <<>>
  BY <1>1 DEF Drained
<1> QED
  BY <1>1, <1>3, <1>5, <1>6, NoBatches DEF PushInv, FlushInv, CountInv, TwoBuffered, OldestFirst

-----------------------------------------------------------------------------
\* The incident and its alert.

Remembered == lastDownAlert[Host] # Alert!NoAlert

\* An alert that is remembered has its incident, until the step between
\* resolving the incident and forgetting the alert; and an alert about to be
\* sent has its incident too, so that it may be remembered.
IncidentInv ==
  /\ openIncidents \in 0..1
  /\ Remembered => openIncidents = 1 \/ check = "up"
  /\ check = "down" => openIncidents = 1

CheckTypeOK ==
  /\ check \in CheckStates
  /\ checkAge \in 0..1
  /\ Alert!AlerterTypeOK

StaleInv == PushInv /\ CheckTypeOK /\ IncidentInv

LEMMA AlertTypes ==
  /\ Alert!NoAlert \notin Alert!Ages
  /\ 0 \in Alert!Ages
  /\ \A age \in Alert!Ages \ {ReminderInterval} : age + 1 \in Alert!Ages
PROOF BY StalenessAssumption DEF Alert!NoAlert, Alert!Ages

\* What the alerter's operators do to the one name there is.
LEMMA SendDownType ==
  ASSUME Alert!AlerterTypeOK, NEW delivered \in BOOLEAN, Alert!SendDown(Host, delivered)
  PROVE  /\ lastDownAlert' \in [{Host} -> Alert!Ages \cup {Alert!NoAlert}]
         /\ page' \in [{Host} -> {"UP", "DOWN"}]
PROOF BY AlertTypes DEF Alert!AlerterTypeOK, Alert!SendDown

LEMMA SendRecoveryType ==
  ASSUME Alert!AlerterTypeOK, NEW delivered \in BOOLEAN, Alert!SendRecovery(Host, delivered)
  PROVE  /\ lastDownAlert' \in [{Host} -> Alert!Ages \cup {Alert!NoAlert}]
         /\ page' \in [{Host} -> {"UP", "DOWN"}]
         /\ ~Remembered'
PROOF BY AlertTypes DEF Alert!AlerterTypeOK, Alert!SendRecovery, Remembered

LEMMA AgeAlertsType ==
  ASSUME Alert!AlerterTypeOK, Alert!AgeAlerts
  PROVE  /\ lastDownAlert' \in [{Host} -> Alert!Ages \cup {Alert!NoAlert}]
         /\ Remembered' => Remembered
PROOF BY AlertTypes DEF Alert!AlerterTypeOK, Alert!AgeAlerts, Remembered

LEMMA CheckStepType ==
  ASSUME PushInv, CheckTypeOK, NEW from, NEW to \in CheckStates, CheckStep(from, to),
         faults' \in 0..MaxFaults
  PROVE  /\ PushInv'
         /\ check = from /\ check' = to /\ checkAge' \in 0..1 /\ muted' = muted
PROOF
<1>1. /\ check = from /\ check' = to /\ checkAge' \in 0..1
      /\ UNCHANGED <<agentVars, net, late, lastSeen, muted>>
  BY DEF CheckStep, CheckTypeOK
<1> QED
  BY <1>1, AgentKept DEF PushInv, PushTypeOK

LEMMA CheckKeepsInv ==
  ASSUME StaleInv, Check
  PROVE  StaleInv'
PROOF
<1>0. PushInv /\ CheckTypeOK /\ IncidentInv /\ faults \in 0..MaxFaults /\ Alert!AlerterTypeOK
  BY DEF StaleInv, PushInv, PushTypeOK, CheckTypeOK
<1>1. CASE ReadStale
  <2>1. PICK to \in {"stale", "fresh"} : CheckStep("off", to)
    BY <1>1 DEF ReadStale
  <2>2. PushInv' /\ check' = to /\ checkAge' \in 0..1 /\ muted' = muted /\ check = "off"
    BY <1>0, <1>1, <2>1, CheckStepType DEF ReadStale, CheckStates
  <2> QED
    BY <1>0, <1>1, <2>2 DEF ReadStale, NoAlertSent, StaleInv, CheckTypeOK, CheckStates,
       IncidentInv, Remembered, Alert!AlerterTypeOK
<1>2. CASE OpenIncident
  <2>1. PICK to \in {"down", "fresh"} : CheckStep("stale", to)
    BY <1>2 DEF OpenIncident
  <2>2. PushInv' /\ check' = to /\ checkAge' \in 0..1 /\ muted' = muted /\ check = "stale"
    BY <1>0, <1>2, <2>1, CheckStepType DEF OpenIncident, CheckStates
  <2>3. openIncidents' = 1
    BY <1>0, <1>2 DEF OpenIncident, IncidentInv
  <2> QED
    BY <1>0, <1>2, <2>2, <2>3 DEF OpenIncident, NoAlertSent, StaleInv, CheckTypeOK, CheckStates,
       IncidentInv, Remembered, Alert!AlerterTypeOK
<1>3. CASE AlertDown
  <2>1. PushInv' /\ check' = "fresh" /\ checkAge' \in 0..1 /\ muted' = muted /\ check = "down"
    BY <1>0, <1>3, CheckStepType DEF AlertDown, CheckStates
  <2>2. /\ lastDownAlert' \in [{Host} -> Alert!Ages \cup {Alert!NoAlert}]
        /\ page' \in [{Host} -> {"UP", "DOWN"}]
    BY <1>0, <1>3, SendDownType DEF AlertDown
  <2>3. openIncidents' = 1
    BY <1>0, <1>3, <2>1 DEF AlertDown, IncidentInv
  <2> QED
    BY <1>0, <2>1, <2>2, <2>3 DEF StaleInv, CheckTypeOK, CheckStates, IncidentInv, Alert!AlerterTypeOK
<1>4. CASE ReadHeartbeats
  <2>1. PICK to \in {"recovered", "off"} : CheckStep("fresh", to)
    BY <1>4 DEF ReadHeartbeats
  <2>2. PushInv' /\ check' = to /\ checkAge' \in 0..1 /\ muted' = muted /\ check = "fresh"
    BY <1>0, <1>4, <2>1, CheckStepType DEF ReadHeartbeats, CheckStates
  <2> QED
    BY <1>0, <1>4, <2>2 DEF ReadHeartbeats, NoAlertSent, StaleInv, CheckTypeOK, CheckStates,
       IncidentInv, Remembered, Alert!AlerterTypeOK
<1>5. CASE ResolveIncident
  <2>1. PICK to \in {"up", "off"} : CheckStep("recovered", to) /\ (to = "off" => openIncidents = 0)
    BY <1>0, <1>5 DEF ResolveIncident, IncidentInv
  <2>2. PushInv' /\ check' = to /\ checkAge' \in 0..1 /\ muted' = muted /\ check = "recovered"
    BY <1>0, <1>5, <2>1, CheckStepType DEF ResolveIncident, CheckStates
  <2>3. openIncidents' = 0 /\ lastDownAlert' = lastDownAlert /\ page' = page
    BY <1>0, <1>5 DEF ResolveIncident, IncidentInv, NoAlertSent
  <2>4. Remembered' => check' = "up"
    BY <1>0, <2>1, <2>2, <2>3 DEF IncidentInv, Remembered
  <2> QED
    BY <1>0, <2>2, <2>3, <2>4 DEF StaleInv, CheckTypeOK, CheckStates, IncidentInv, Alert!AlerterTypeOK
<1>6. CASE AlertUp
  <2>1. PushInv' /\ check' = "off" /\ checkAge' \in 0..1 /\ muted' = muted /\ check = "up"
    BY <1>0, <1>6, CheckStepType DEF AlertUp, CheckStates
  <2>2. /\ lastDownAlert' \in [{Host} -> Alert!Ages \cup {Alert!NoAlert}]
        /\ page' \in [{Host} -> {"UP", "DOWN"}] /\ ~Remembered'
    BY <1>0, <1>6, SendRecoveryType DEF AlertUp
  <2>3. openIncidents' = openIncidents
    BY <1>6 DEF AlertUp
  <2> QED
    BY <1>0, <2>1, <2>2, <2>3 DEF StaleInv, CheckTypeOK, CheckStates, IncidentInv, Alert!AlerterTypeOK
<1> QED
  BY <1>1, <1>2, <1>3, <1>4, <1>5, <1>6 DEF Check

LEMMA CheckFailsKeepsInv ==
  ASSUME StaleInv, CheckFails
  PROVE  StaleInv'
PROOF
<1>0. PushInv /\ CheckTypeOK /\ IncidentInv /\ faults \in 0..MaxFaults
  BY DEF StaleInv, PushInv, PushTypeOK
<1>1. faults' \in 0..MaxFaults /\ NoAlertSent /\ openIncidents' = openIncidents
  BY <1>0, FaultType DEF CheckFails, ReadStaleFails, OpenIncidentFails, RecoverFails
<1>2. CASE ReadStaleFails
  <2>1. PushInv' /\ UNCHANGED <<check, checkAge, muted>>
    BY <1>0, <1>1, <1>2, AgentKept DEF ReadStaleFails, PushInv, PushTypeOK
  <2> QED
    BY <1>0, <1>1, <2>1 DEF NoAlertSent, StaleInv, CheckTypeOK, IncidentInv, Remembered,
       Alert!AlerterTypeOK
<1>3. CASE OpenIncidentFails \/ RecoverFails
  <2>1. PICK from \in {"stale", "fresh", "recovered"}, to \in {"fresh", "off"} : CheckStep(from, to)
    BY <1>3 DEF OpenIncidentFails, RecoverFails
  <2>2. PushInv' /\ check' = to /\ checkAge' \in 0..1 /\ muted' = muted /\ check = from
    BY <1>0, <1>1, <2>1, CheckStepType DEF CheckStates
  <2> QED
    BY <1>0, <1>1, <2>2 DEF NoAlertSent, StaleInv, CheckTypeOK, CheckStates, IncidentInv,
       Remembered, Alert!AlerterTypeOK
<1> QED
  BY <1>2, <1>3 DEF CheckFails

LEMMA RestKeepsInv ==
  ASSUME StaleInv, Push \/ Tick \/ Toggle \/ HubRestart \/ UNCHANGED vars
  PROVE  StaleInv'
PROOF
<1>0. PushInv /\ CheckTypeOK /\ IncidentInv /\ faults \in 0..MaxFaults /\ Alert!AlerterTypeOK
  BY DEF StaleInv, PushInv, PushTypeOK, CheckTypeOK
<1>1. CASE Push
  BY <1>0, <1>1, PushNextKeepsInv
     DEF Push, StaleInv, CheckTypeOK, IncidentInv, Remembered, Alert!AlerterTypeOK
<1>2. CASE Tick
  <2>1. PushInv'
    BY <1>0, <1>2, PassIntervalKeepsInv DEF Tick
  <2>2. /\ lastDownAlert' \in [{Host} -> Alert!Ages \cup {Alert!NoAlert}]
        /\ Remembered' => Remembered
    BY <1>0, <1>2, AgeAlertsType DEF Tick
  <2>3. checkAge' \in 0..1 /\ UNCHANGED <<check, openIncidents, muted, page>>
    BY <1>2 DEF Tick
  <2> QED
    BY <1>0, <2>1, <2>2, <2>3 DEF StaleInv, CheckTypeOK, IncidentInv, Alert!AlerterTypeOK
<1>3. CASE Toggle
  <2>1. PushInv'
    BY <1>0, <1>3, AgentKept DEF Toggle, pushVars, PushInv, PushTypeOK
  <2> QED
    BY <1>0, <1>3, <2>1 DEF Toggle, StaleInv, CheckTypeOK, IncidentInv, Remembered, Alert!AlerterTypeOK
<1>4. CASE HubRestart
  <2>1. PushInv'
    BY <1>0, <1>4, AgentKept, FaultType DEF HubRestart, PushInv, PushTypeOK
  <2>2. lastDownAlert' \in [{Host} -> Alert!Ages \cup {Alert!NoAlert}] /\ ~Remembered'
    BY <1>4, AlertTypes DEF HubRestart, Remembered
  <2>3. openIncidents' \in 0..1 /\ check' = "off" /\ checkAge' = 0 /\ UNCHANGED <<muted, page>>
    BY <1>0, <1>4 DEF HubRestart, IncidentInv
  <2> QED
    BY <1>0, <2>1, <2>2, <2>3 DEF StaleInv, CheckTypeOK, CheckStates, IncidentInv, Alert!AlerterTypeOK
<1>5. CASE UNCHANGED vars
  <2>1. PushInv'
    BY <1>0, <1>5, AgentKept DEF vars, pushVars, PushInv, PushTypeOK
  <2> QED
    BY <1>0, <1>5, <2>1 DEF vars, StaleInv, CheckTypeOK, IncidentInv, Remembered, Alert!AlerterTypeOK
<1> QED
  BY <1>1, <1>2, <1>3, <1>4, <1>5

-----------------------------------------------------------------------------
\* The theorems.

LEMMA InitHolds == Init => StaleInv
PROOF
<1> SUFFICES ASSUME Init PROVE StaleInv
  OBVIOUS
<1>1. Drained = <<>> /\ agent = [at |-> "idle"] /\ buffer = <<>>
  BY DEF Init, PushInit, Drained
<1>2. PushTypeOK
  BY <1>1, NoBatches, AgentTypes, AgentAssumption DEF Init, PushInit, PushTypeOK
<1>3. PushInv
  BY <1>1, <1>2, NoBatches DEF PushInv, FlushInv, CountInv, TwoBuffered, OldestFirst
<1>4. CheckTypeOK /\ IncidentInv
  BY AlertTypes DEF Init, CheckTypeOK, CheckStates, IncidentInv, Remembered,
     Alert!AlerterInit, Alert!AlerterTypeOK
<1> QED
  BY <1>3, <1>4 DEF StaleInv

LEMMA StaleInvariant == Spec => []StaleInv
<1>1. StaleInv /\ [Next]_vars => StaleInv'
  BY CheckKeepsInv, CheckFailsKeepsInv, RestKeepsInv DEF Next
<1> QED
  BY <1>1, InitHolds, PTL DEF Spec

\* Every variable keeps its type, and the agent's buffer its bound MaxSize.
THEOREM TypeCorrect == Spec => []TypeOK
<1>1. StaleInv => TypeOK
  BY DEF StaleInv, PushInv, CheckTypeOK, IncidentInv, TypeOK
<1> QED
  BY <1>1, StaleInvariant, PTL

\* The agent's buffer and its flush stay in the order the batches were
\* collected in, whatever fails.
THEOREM OldestAlwaysFirst == Spec => []OldestFirst
<1>1. StaleInv => OldestFirst
  BY DEF StaleInv, PushInv
<1> QED
  BY <1>1, StaleInvariant, PTL

\* However long the hub is away, and however large MaxSize is, two batches are
\* all that is kept.
THEOREM NeverMoreThanTwo == Spec => []TwoBuffered
<1>1. StaleInv => TwoBuffered
  BY DEF StaleInv, PushInv, CountInv
<1> QED
  BY <1>1, StaleInvariant, PTL

\* There is never a second open incident of the agent.
THEOREM NeverTwoIncidents == Spec => []OneIncident
<1>1. StaleInv => OneIncident
  BY DEF StaleInv, IncidentInv, OneIncident
<1> QED
  BY <1>1, StaleInvariant, PTL

\* Between checks, a DOWN alert is remembered only while its incident is open.
THEOREM AlertsHaveIncidents == Spec => []AlertHasIncident
<1>1. StaleInv => AlertHasIncident
  BY DEF StaleInv, IncidentInv, Remembered, AlertHasIncident
<1> QED
  BY <1>1, StaleInvariant, PTL

=============================================================================
