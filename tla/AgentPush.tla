------------------------------ MODULE AgentPush ------------------------------
(***************************************************************************)
(* The agent's push of metric batches (internal/agent) over a network that *)
(* loses requests, loses answers and delays requests past the client's     *)
(* timeout, and the hub's handler of a push (PostAgentMetrics).            *)
(*                                                                         *)
(* One unit of time is the agent's interval.  Timestamps are modelled by   *)
(* ages, which saturate at Old.  The interval (30s) is longer than a cycle *)
(* of the agent, which sends at most three batches (TwoBuffered below) of  *)
(* 5s each, so time passes between cycles.                                 *)
(***************************************************************************)
EXTENDS Integers, Sequences, SequencesExt, SeqFilter

CONSTANTS
  MaxSize,     \* MetricBuffer.maxSize (10 in the code)
  MaxAge,      \* MetricBuffer.maxAge, in intervals
  StaleAfter,  \* the hub's staleness threshold, in intervals
  MaxFaults    \* bound: how many requests are late, store calls of the hub fail
               \* and, in Staleness, restarts of the hub there are, in all

ASSUME AgentAssumption ==
  /\ {MaxSize, MaxAge, StaleAfter} \subseteq Nat \ {0}
  /\ MaxFaults \in Nat

VARIABLES
  agent,      \* where Agent.Run is
  due,        \* the ticker has fired since the last cycle
  buffer,     \* MetricBuffer.batches
  net,        \* external: requests reach the hub and answers come back
  late,       \* external: batches of timed-out requests still on their way
  lastSeen,   \* SQLite: age of last_seen_at in agent_heartbeats, or None
  faults      \* how much of MaxFaults is spent

agentVars == <<agent, due, buffer>>
pushVars == <<agentVars, net, late, lastSeen, faults>>

None == -1

Old == 2 + (IF MaxAge > StaleAfter THEN MaxAge ELSE StaleAfter)

Ages == 0..Old

Older(age) == IF age \in 0..(Old - 1) THEN age + 1 ELSE age

\* A batch is empty when every collector failed, backs off or is disabled.
Batches == [age: Ages, empty: BOOLEAN]

\* "flush": collectAndPush is in flushBuffer, rest is what it drained; "final":
\* the same after the context was cancelled; "send": the current batch is next.
AgentStates ==
  {[at |-> "off"], [at |-> "idle"]}
  \cup [at: {"flush"}, rest: Seq(Batches), cur: Batches]
  \cup [at: {"final"}, rest: Seq(Batches)]
  \cup [at: {"send"}, cur: Batches]

PushTypeOK ==
  /\ agent \in AgentStates
  /\ due \in BOOLEAN
  /\ buffer \in Seq(Batches)
  /\ Len(buffer) <= MaxSize
  /\ net \in BOOLEAN
  /\ late \in Seq(Batches)
  /\ lastSeen \in Ages \cup {None}
  /\ faults \in 0..MaxFaults

PushInit ==
  /\ agent = [at |-> "idle"]
  /\ due = TRUE
  /\ buffer = <<>>
  /\ net \in BOOLEAN
  /\ late = <<>>
  /\ lastSeen = None
  /\ faults = 0

-----------------------------------------------------------------------------
\* The buffer.

Young == {batch \in Batches : batch.age < MaxAge}

\* Mutant: what is put back goes in front.
AddInFront(buf, batch) == <<batch>> \o Filter(buf, Young)

\* MetricBuffer.Add: what is too old goes, then what is too much.
Add(buf, batch) ==
  LET added == Append(Filter(buf, Young), batch)
      excess == Len(added) - MaxSize
  IN IF excess > 0 THEN SubSeq(added, excess + 1, Len(added)) ELSE added

-----------------------------------------------------------------------------
\* One of the faults that are bounded.
Fault == faults < MaxFaults /\ faults' = faults + 1

\* One request.  Its result for the agent, and what it does at the hub.

\* Mutant: the heartbeat is inserted and never updated.
StoreInsertsOnly(batch) == lastSeen' = IF lastSeen = None THEN batch.age ELSE lastSeen

\* PostAgentMetrics of a batch that is not empty: the rows are inserted and the
\* heartbeat is set to the time of the batch.
Store(batch) == lastSeen' = batch.age

\* PushClient.Send returns no error.
SendOK(batch) ==
  /\ net
  /\ ~batch.empty
  /\ \/ Store(batch) /\ UNCHANGED faults
     \* The heartbeat's UPDATE fails: the handler answers 200 all the same.
     \/ Fault /\ UNCHANGED lastSeen
  /\ UNCHANGED late

\* PushClient.Send returns an error.
SendError(batch) ==
  \* No metrics: the hub answers 400, whatever else happens.
  \/ batch.empty /\ UNCHANGED <<late, faults, lastSeen>>
  \* The request is lost.
  \/ ~net /\ UNCHANGED <<late, faults, lastSeen>>
  \* The insert fails: the hub answers 500.
  \/ /\ net
     /\ Fault
     /\ UNCHANGED <<late, lastSeen>>
  \* The answer is lost or comes after the timeout.
  \/ ~net /\ ~batch.empty /\ Store(batch) /\ UNCHANGED <<late, faults>>
  \* The request itself arrives after the timeout.
  \/ /\ ~net /\ ~batch.empty
     /\ Fault
     /\ late' = Append(late, batch)
     /\ UNCHANGED lastSeen

\* The hub handles one of the late requests.
LateArrival ==
  \E i \in 1..Len(late) :
    /\ Store(late[i])
    /\ late' = RemoveAt(late, i)
    /\ UNCHANGED <<agentVars, net, faults>>

-----------------------------------------------------------------------------
\* The agent.

\* Mutant: draining leaves the batches in the buffer.
CollectKeeps ==
  /\ agent.at = "idle"
  /\ due
  /\ \E empty \in BOOLEAN :
       LET batch == [age |-> 0, empty |-> empty]
       IN agent' = IF buffer = <<>> THEN [at |-> "send", cur |-> batch]
                   ELSE [at |-> "flush", rest |-> buffer, cur |-> batch]
  /\ due' = FALSE
  /\ UNCHANGED <<buffer, net, late, lastSeen, faults>>

\* The ticker fires (or Run starts): a batch is collected and the buffer drained.
Collect ==
  /\ agent.at = "idle"
  /\ due
  /\ \E empty \in BOOLEAN :
       LET batch == [age |-> 0, empty |-> empty]
       IN agent' = IF buffer = <<>> THEN [at |-> "send", cur |-> batch]
                   ELSE [at |-> "flush", rest |-> buffer, cur |-> batch]
  /\ due' = FALSE
  /\ buffer' = <<>>
  /\ UNCHANGED <<net, late, lastSeen, faults>>

\* What the agent does once flushBuffer has returned.
AfterFlush ==
  IF agent.at = "flush" THEN [at |-> "send", cur |-> agent.cur] ELSE [at |-> "off"]

\* flushBuffer: the oldest drained batch goes through, and the next is tried.
FlushOne ==
  /\ agent.at \in {"flush", "final"}
  /\ SendOK(Head(agent.rest))
  /\ agent' = IF Len(agent.rest) = 1 THEN AfterFlush
              ELSE [agent EXCEPT !.rest = Tail(@)]
  /\ UNCHANGED <<due, buffer, net>>

\* flushBuffer: the batch that failed is put back and the function returns.
FlushFails ==
  /\ agent.at \in {"flush", "final"}
  /\ SendError(Head(agent.rest))
  /\ buffer' = Add(buffer, Head(agent.rest))
  /\ agent' = AfterFlush
  /\ UNCHANGED <<due, net>>

\* The current batch is sent, and buffered if that fails.
SendCurrent ==
  /\ agent.at = "send"
  /\ \/ SendOK(agent.cur) /\ UNCHANGED buffer
     \/ SendError(agent.cur) /\ buffer' = Add(buffer, agent.cur)
  /\ agent' = [at |-> "idle"]
  /\ UNCHANGED <<due, net>>

\* The context is cancelled: one last flush.  A request under way is aborted
\* before, as if the network had gone for that long.
Cancel ==
  /\ agent.at = "idle"
  /\ agent' = IF buffer = <<>> THEN [at |-> "off"]
              ELSE [at |-> "final", rest |-> buffer]
  /\ buffer' = <<>>
  /\ UNCHANGED <<due, net, late, lastSeen, faults>>

\* The agent is killed: its buffer is in memory only.
Kill ==
  /\ agent.at # "off"
  /\ agent' = [at |-> "off"]
  /\ buffer' = <<>>
  /\ UNCHANGED <<due, net, late, lastSeen, faults>>

Start ==
  /\ agent.at = "off"
  /\ agent' = [at |-> "idle"]
  /\ due' = TRUE
  /\ buffer' = <<>>
  /\ UNCHANGED <<net, late, lastSeen, faults>>

\* The network goes or comes back; what is late may be lost.
NetFlips ==
  /\ net' = ~net
  /\ late' \in {late, <<>>}
  /\ UNCHANGED <<agentVars, lastSeen, faults>>

-----------------------------------------------------------------------------
\* Time.

AllOlder(batches) == [i \in DOMAIN batches |-> [batches[i] EXCEPT !.age = Older(@)]]

\* One interval passes.
PassInterval ==
  /\ agent.at \in {"idle", "off"}
  /\ agent.at = "idle" => ~due
  /\ due' = TRUE
  /\ buffer' = AllOlder(buffer)
  /\ late' = AllOlder(late)
  /\ lastSeen' = Older(lastSeen)
  /\ UNCHANGED <<agent, net, faults>>

PushNext ==
  \/ Collect \/ FlushOne \/ FlushFails \/ SendCurrent
  \/ Cancel \/ Kill \/ Start \/ NetFlips \/ LateArrival

-----------------------------------------------------------------------------
\* Safety.

Increasing(batches) ==
  \A i, j \in DOMAIN batches : i < j => batches[i].age >= batches[j].age

Drained == IF agent.at \in {"flush", "final"} THEN agent.rest ELSE <<>>

\* Batches stay in the order they were collected in, in the buffer and in the
\* flush, so the hub is sent older ones first (MetricBuffer.Drain, "in FIFO
\* order").
OldestFirst == Increasing(buffer) /\ Increasing(Drained)

\* However long the hub is away, the agent keeps two batches and not MaxSize: a
\* flush puts back one batch and drops the others, and then the current one is
\* added.
TwoBuffered == Len(buffer) + Len(Drained) <= 2

\* agent.go:154, "Re-buffer remaining batches": when a flush fails, every batch
\* that it drained and did not get through is back in the buffer.
RemainingRebuffered ==
  [][agent.at = "flush" /\ buffer' # <<>> => Len(buffer') = Len(agent.rest)]_pushVars

=============================================================================
