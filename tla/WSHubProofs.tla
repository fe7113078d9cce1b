------------------------------ MODULE WSHubProofs ------------------------------
(***************************************************************************)
(* Theorems about WSHub for every set of connections, every capacity of    *)
(* the channels and every number of messages, and the proof that the hub   *)
(* implements the broadcast log.                                           *)
(***************************************************************************)
EXTENDS WSHub, SequenceTheorems, TLAPS

-----------------------------------------------------------------------------
\* The inductive invariant.

\* A connection's goroutines start when it is registered, and only then is it
\* in the map or its channel closed.
JoinInv ==
  \A c \in Clients :
    /\ conn[c] \in {"none", "registering"} <=> since[c] = NotJoined
    /\ writer[c] = Off <=> since[c] = NotJoined
    /\ reader[c] = "off" <=> since[c] = NotJoined
    /\ c \in clients \cup closed => since[c] # NotJoined
    /\ since[c] = NotJoined => got[c] = <<>> /\ send[c] = <<>>

Distributing == run.at \in {"fanout", "evict"}

\* The message under way is the last one accepted.
RunInv == Distributing => accepted # <<>> /\ run.msg = accepted[Len(accepted)]

\* How many messages the writer has in hand, and where in the accepted messages
\* the buffer of c begins and ends.
InHand(c) == IF writer[c].at = "writing" THEN 1 ELSE 0
BufferFrom(c) == since[c] + Len(got[c]) + InHand(c)
StreamEnd(c) == BufferFrom(c) + Len(send[c])

\* What the browser has is the accepted messages from the registration on.
Shown(c) ==
  /\ since[c] + Len(got[c]) <= Len(accepted)
  /\ \A i \in 1..Len(got[c]) : got[c][i] = accepted[since[c] + i]

\* What a living writer has in hand and in its buffer goes on from there.
Queued(c) ==
  /\ StreamEnd(c) <= Len(accepted)
  /\ writer[c].at = "writing" => writer[c].msg = accepted[since[c] + Len(got[c]) + 1]
  /\ \A i \in 1..Len(send[c]) : send[c][i] = accepted[BufferFrom(c) + i]

\* To a client in the map only the message under way is still to be given.
UpToDate(c) == StreamEnd(c) = Len(accepted) - (IF Pending(c) THEN 1 ELSE 0)

Living(c) == writer[c] \notin {Off, Done}

StreamOK(c) ==
  /\ since[c] # NotJoined => Shown(c)
  /\ Living(c) => Queued(c)
  /\ Living(c) /\ c \in clients => UpToDate(c)

StreamInv == \A c \in Clients : StreamOK(c)

HubInv == TypeOK /\ JoinInv /\ RunInv /\ ChannelsOpen /\ StreamInv

-----------------------------------------------------------------------------
\* Types.

\* What the fields of Run's and the writers' states are.
LEMMA StateFields ==
  ASSUME TypeOK
  PROVE  /\ Distributing => run.msg \in Messages /\ run.todo \subseteq Clients
         /\ run.at = "fanout" => run = [at |-> "fanout", msg |-> run.msg, todo |-> run.todo]
         /\ \A c \in Clients :
              /\ writer[c].at \in {"off", "ready", "done", "writing"}
              /\ writer[c].at = "writing" => writer[c].msg \in Messages
              /\ writer[c].at = "off" <=> writer[c] = Off
              /\ writer[c].at = "ready" <=> writer[c] = Ready
              /\ writer[c].at = "done" <=> writer[c] = Done
BY DEF TypeOK, RunStates, Distributing, WriterStates, Off, Ready, Done, Select

\* The states a step leads to.
LEMMA StateTypes ==
  /\ Select \in RunStates /\ [at |-> "returned"] \in RunStates
  /\ \A m \in Messages, t \in SUBSET Clients : [at |-> "fanout", msg |-> m, todo |-> t] \in RunStates
  /\ \A m \in Messages, t \in SUBSET Clients, c \in Clients :
       [at |-> "evict", msg |-> m, todo |-> t, client |-> c] \in RunStates
  /\ {Off, Ready, Done} \subseteq WriterStates
  /\ \A m \in Messages : [at |-> "writing", msg |-> m] \in WriterStates
BY DEF RunStates, WriterStates

LEMMA TypeStep == TypeOK /\ [Next]_vars => TypeOK'
PROOF
<1> SUFFICES ASSUME TypeOK, [Next]_vars PROVE TypeOK'
  OBVIOUS
<1> USE WSHubAssumption, StateTypes
<1>1. ASSUME NEW c \in Clients, Connect(c) PROVE TypeOK'
  BY <1>1 DEF Connect, TypeOK
<1>2. CASE Broadcast
  <2>1. published' \in Messages
    BY <1>2 DEF Broadcast, TypeOK, Messages
  <2>2. broadcast' \in Seq(Messages) /\ Len(broadcast') <= BroadcastCap
    BY <1>2, <2>1, AppendProperties DEF Broadcast, TypeOK
  <2> QED
    BY <1>2, <2>1, <2>2 DEF Broadcast, TypeOK, Messages
<1>3. CASE Stop
  BY <1>3 DEF Stop, TypeOK
<1>4. ASSUME NEW c \in Clients, Register(c) PROVE TypeOK'
  <2>1. Len(accepted) \in Nat
    BY DEF TypeOK
  <2> QED
    BY <1>4, <2>1 DEF Register, TypeOK
<1>5. ASSUME NEW c \in Clients, Unregister(c) PROVE TypeOK'
  BY <1>5 DEF Unregister, TypeOK
<1>6. CASE TakeBroadcast
  <2>1. Head(broadcast) \in Messages /\ Tail(broadcast) \in Seq(Messages)
        /\ Len(Tail(broadcast)) = Len(broadcast) - 1
    BY <1>6, HeadTailProperties DEF TakeBroadcast, TypeOK
  <2>2. accepted' \in Seq(Messages)
    BY <1>6, <2>1, AppendProperties DEF TakeBroadcast, TypeOK
  <2>3. run' \in RunStates
    BY <1>6, <2>1 DEF TakeBroadcast, TypeOK
  <2>4. Len(broadcast') <= BroadcastCap
    BY <1>6, <2>1 DEF TakeBroadcast, TypeOK
  <2> QED
    BY <1>6, <2>1, <2>2, <2>3, <2>4 DEF TakeBroadcast, TypeOK
<1>7. ASSUME NEW c \in Clients, FanOut(c) PROVE TypeOK'
  <2>1. run' = [at |-> "fanout", msg |-> run.msg, todo |-> run.todo \ {c}]
    BY <1>7, StateFields DEF FanOut
  <2>2. run' \in RunStates
    BY <1>7, <2>1, StateFields DEF FanOut, Distributing
  <2>3. run.msg \in Messages
    BY <1>7, StateFields DEF FanOut, Distributing
  <2>4. Append(send[c], run.msg) \in Seq(Messages) /\ Len(Append(send[c], run.msg)) = Len(send[c]) + 1
    BY <2>3, AppendProperties DEF TypeOK
  <2>5. send' = [send EXCEPT ![c] = Append(send[c], run.msg)] /\ Len(send[c]) < SendCap
    BY <1>7 DEF FanOut
  <2>6. Append(send[c], run.msg) \in Seq(Messages) /\ Len(Append(send[c], run.msg)) <= SendCap
    BY <2>4, <2>5 DEF TypeOK
  <2>7. send' \in [Clients -> Seq(Messages)] /\ \A d \in Clients : Len(send'[d]) <= SendCap
    BY <2>5, <2>6 DEF TypeOK
  <2> QED
    BY <1>7, <2>2, <2>7 DEF FanOut, TypeOK
<1>8. ASSUME NEW c \in Clients, Evict(c) PROVE TypeOK'
  <2>1. run' \in RunStates
    BY <1>8, StateFields DEF Evict, Distributing
  <2> QED
    BY <1>8, <2>1 DEF Evict, TypeOK
<1>9. CASE EndFanOut
  BY <1>9 DEF EndFanOut, TypeOK
<1>10. CASE Quit
  BY <1>10 DEF Quit, TypeOK
<1>11. ASSUME NEW c \in Clients, WriterTake(c) PROVE TypeOK'
  <2>1. send[c] \in Seq(Messages) /\ send[c] # <<>> /\ Len(send[c]) <= SendCap
    BY <1>11 DEF WriterTake, TypeOK
  <2>2. Head(send[c]) \in Messages /\ Tail(send[c]) \in Seq(Messages)
        /\ Len(Tail(send[c])) <= SendCap
    BY <2>1, HeadTailProperties
  <2>3. send' = [send EXCEPT ![c] = Tail(send[c])]
        /\ writer' = [writer EXCEPT ![c] = [at |-> "writing", msg |-> Head(send[c])]]
    BY <1>11 DEF WriterTake
  <2>4. send' \in [Clients -> Seq(Messages)] /\ \A d \in Clients : Len(send'[d]) <= SendCap
    BY <2>2, <2>3 DEF TypeOK
  <2>5. writer' \in [Clients -> WriterStates]
    BY <2>2, <2>3 DEF TypeOK
  <2> QED
    BY <1>11, <2>4, <2>5 DEF WriterTake, TypeOK
<1>12. ASSUME NEW c \in Clients, WriterWrote(c) PROVE TypeOK'
  <2>1. Append(got[c], writer[c].msg) \in Seq(Messages)
    BY <1>12, StateFields, AppendProperties DEF WriterWrote, TypeOK
  <2>2. got' = [got EXCEPT ![c] = Append(got[c], writer[c].msg)]
    BY <1>12 DEF WriterWrote
  <2>3. got' \in [Clients -> Seq(Messages)]
    BY <2>1, <2>2 DEF TypeOK
  <2> QED
    BY <1>12, <2>3 DEF WriterWrote, TypeOK
<1>13. ASSUME NEW c \in Clients, WriterFail(c) PROVE TypeOK'
  BY <1>13 DEF WriterFail, TypeOK
<1>14. ASSUME NEW c \in Clients, WriterClosed(c) PROVE TypeOK'
  BY <1>14 DEF WriterClosed, TypeOK
<1>15. ASSUME NEW c \in Clients, ReaderFail(c) PROVE TypeOK'
  BY <1>15 DEF ReaderFail, TypeOK
<1>16. ASSUME NEW c \in Clients, ReaderClose(c) PROVE TypeOK'
  BY <1>16 DEF ReaderClose, TypeOK
<1>17. CASE UNCHANGED vars
  BY <1>17 DEF vars, TypeOK
<1> QED
  BY <1>1, <1>2, <1>3, <1>4, <1>5, <1>6, <1>7, <1>8, <1>9, <1>10, <1>11, <1>12, <1>13,
     <1>14, <1>15, <1>16, <1>17 DEF Next, ClientStep

-----------------------------------------------------------------------------
\* Registration, the snapshot of a distribution, and the channels.

LEMMA JoinStep == TypeOK /\ JoinInv /\ ChannelsOpen /\ [Next]_vars => JoinInv'
PROOF
<1> SUFFICES ASSUME TypeOK, JoinInv, ChannelsOpen, [Next]_vars PROVE JoinInv'
  OBVIOUS
<1> USE DEF JoinInv, Off
<1>1. ASSUME NEW c \in Clients, Connect(c) PROVE JoinInv'
  BY <1>1 DEF Connect, TypeOK
<1>2. CASE Broadcast \/ Stop \/ EndFanOut \/ TakeBroadcast
  BY <1>2 DEF Broadcast, Stop, EndFanOut, TakeBroadcast
<1>3. ASSUME NEW c \in Clients, Register(c) PROVE JoinInv'
  <2>1. Len(accepted) \in Nat
    BY DEF TypeOK
  <2> QED
    BY <1>3, <2>1 DEF Register, TypeOK, NotJoined, Ready
<1>4. ASSUME NEW c \in Clients, Unregister(c) PROVE JoinInv'
  BY <1>4 DEF Unregister, TypeOK
<1>5. ASSUME NEW c \in Clients, FanOut(c) PROVE JoinInv'
  <2>1. since[c] # NotJoined
    BY <1>5 DEF FanOut, ChannelsOpen
  <2> QED
    BY <1>5, <2>1 DEF FanOut, TypeOK
<1>6. ASSUME NEW c \in Clients, Evict(c) PROVE JoinInv'
  BY <1>6 DEF Evict
<1>7. CASE Quit
  BY <1>7 DEF Quit
<1>8. ASSUME NEW c \in Clients, WriterTake(c) PROVE JoinInv'
  BY <1>8 DEF WriterTake, TypeOK, Ready
<1>9. ASSUME NEW c \in Clients, WriterWrote(c) PROVE JoinInv'
  BY <1>9 DEF WriterWrote, TypeOK, Ready
<1>10. ASSUME NEW c \in Clients, WriterFail(c) PROVE JoinInv'
  BY <1>10 DEF WriterFail, TypeOK, Done
<1>11. ASSUME NEW c \in Clients, WriterClosed(c) PROVE JoinInv'
  BY <1>11 DEF WriterClosed, TypeOK, Ready, Done
<1>12. ASSUME NEW c \in Clients, ReaderFail(c) PROVE JoinInv'
  BY <1>12 DEF ReaderFail, TypeOK
<1>13. ASSUME NEW c \in Clients, ReaderClose(c) PROVE JoinInv'
  BY <1>13 DEF ReaderClose, TypeOK
<1>14. CASE UNCHANGED vars
  BY <1>14 DEF vars
<1> QED
  BY <1>1, <1>2, <1>3, <1>4, <1>5, <1>6, <1>7, <1>8, <1>9, <1>10, <1>11, <1>12, <1>13, <1>14
     DEF Next, ClientStep

LEMMA ChannelsStep == TypeOK /\ JoinInv /\ ChannelsOpen /\ [Next]_vars => ChannelsOpen'
PROOF
<1> SUFFICES ASSUME TypeOK, JoinInv, ChannelsOpen, [Next]_vars PROVE ChannelsOpen'
  OBVIOUS
<1> USE DEF ChannelsOpen, Select
<1>1. ASSUME NEW c \in Clients, Connect(c) PROVE ChannelsOpen'
  BY <1>1 DEF Connect
<1>2. CASE Broadcast \/ Stop \/ EndFanOut \/ TakeBroadcast
  BY <1>2 DEF Broadcast, Stop, EndFanOut, TakeBroadcast
<1>3. ASSUME NEW c \in Clients, Register(c) PROVE ChannelsOpen'
  <2>1. c \notin closed
    BY <1>3 DEF Register, JoinInv
  <2> QED
    BY <1>3, <2>1 DEF Register, TypeOK
<1>4. ASSUME NEW c \in Clients, Unregister(c) PROVE ChannelsOpen'
  BY <1>4 DEF Unregister, TypeOK
<1>5. ASSUME NEW c \in Clients, FanOut(c) PROVE ChannelsOpen'
  <2>1. run' = [at |-> "fanout", msg |-> run.msg, todo |-> run.todo \ {c}] /\ run.at = "fanout"
    BY <1>5, StateFields DEF FanOut
  <2> QED
    BY <1>5, <2>1 DEF FanOut
<1>6. ASSUME NEW c \in Clients, Evict(c) PROVE ChannelsOpen'
  BY <1>6 DEF Evict
<1>7. CASE Quit
  BY <1>7 DEF Quit
<1>8. ASSUME NEW c \in Clients, WriterTake(c) \/ WriterWrote(c) \/ WriterFail(c) \/ WriterClosed(c)
      PROVE  ChannelsOpen'
  BY <1>8 DEF WriterTake, WriterWrote, WriterFail, WriterClosed
<1>9. ASSUME NEW c \in Clients, ReaderFail(c) \/ ReaderClose(c) PROVE ChannelsOpen'
  BY <1>9 DEF ReaderFail, ReaderClose, TypeOK
<1>10. CASE UNCHANGED vars
  BY <1>10 DEF vars
<1> QED
  BY <1>1, <1>2, <1>3, <1>4, <1>5, <1>6, <1>7, <1>8, <1>9, <1>10 DEF Next, ClientStep

LEMMA RunStep == TypeOK /\ RunInv /\ [Next]_vars => RunInv'
PROOF
<1> SUFFICES ASSUME TypeOK, RunInv, [Next]_vars PROVE RunInv'
  OBVIOUS
<1> USE DEF RunInv, Distributing
<1>1. CASE TakeBroadcast
  <2>1. Head(broadcast) \in Messages
    BY <1>1, HeadTailProperties DEF TakeBroadcast, TypeOK
  <2>2. accepted \in Seq(Messages) /\ accepted' = Append(accepted, Head(broadcast))
    BY <1>1 DEF TakeBroadcast, TypeOK
  <2>3. /\ accepted' # <<>>
        /\ Len(accepted') = Len(accepted) + 1
        /\ accepted'[Len(accepted) + 1] = Head(broadcast)
    BY <2>1, <2>2, AppendProperties
  <2> QED
    BY <1>1, <2>3 DEF TakeBroadcast
<1>2. ASSUME NEW c \in Clients, FanOut(c) PROVE RunInv'
  <2>1. run' = [at |-> "fanout", msg |-> run.msg, todo |-> run.todo \ {c}] /\ run.at = "fanout"
    BY <1>2, StateFields DEF FanOut
  <2> QED
    BY <1>2, <2>1 DEF FanOut
<1>3. ASSUME NEW c \in Clients, Evict(c) PROVE RunInv'
  BY <1>3 DEF Evict
<1>4. CASE EndFanOut
  BY <1>4 DEF EndFanOut, Select
<1>5. CASE Quit
  BY <1>5 DEF Quit
<1>6. CASE UNCHANGED <<run, accepted>>
  BY <1>6
<1> QED
  BY <1>1, <1>2, <1>3, <1>4, <1>5, <1>6
     DEF Next, ClientStep, Connect, Register, Unregister, WriterTake, WriterWrote, WriterFail,
         WriterClosed, ReaderFail, ReaderClose, Broadcast, Stop, vars

-----------------------------------------------------------------------------
\* Streams.

\* The numbers a stream is described with.
LEMMA StreamNumbers ==
  ASSUME TypeOK, NEW c \in Clients
  PROVE  /\ Len(got[c]) \in Nat /\ Len(send[c]) \in Nat /\ Len(accepted) \in Nat
         /\ InHand(c) \in {0, 1}
         /\ since[c] # NotJoined => since[c] \in Nat /\ BufferFrom(c) \in Nat
BY DEF TypeOK, InHand, BufferFrom

\* A step that does not touch what is on its way to d.
LEMMA Untouched ==
  ASSUME NEW d \in Clients, StreamOK(d), accepted' = accepted, send'[d] = send[d],
         got'[d] = got[d], writer'[d] = writer[d], since'[d] = since[d],
         d \in clients' => d \in clients /\ (Pending(d)' <=> Pending(d))
  PROVE  StreamOK(d)'
BY DEF StreamOK, Shown, Queued, UpToDate, Living, StreamEnd, BufferFrom, InHand

\* One more message is accepted, and is to be given to every client in the map.
LEMMA Accepts ==
  ASSUME TypeOK, NEW d \in Clients, StreamOK(d), JoinInv, TakeBroadcast
  PROVE  StreamOK(d)'
PROOF
<1> DEFINE m == Head(broadcast)
<1>1. m \in Messages
  BY HeadTailProperties DEF TakeBroadcast, TypeOK
<1>2. accepted \in Seq(Messages) /\ accepted' = Append(accepted, m)
  BY DEF TakeBroadcast, TypeOK
<1> HIDE DEF m
<1>3. Len(accepted') = Len(accepted) + 1 /\ \A i \in 1..Len(accepted) : accepted'[i] = accepted[i]
  BY <1>1, <1>2, AppendProperties
<1>4. UNCHANGED <<got, send, writer, since, clients>>
  BY DEF TakeBroadcast
<1>5. Pending(d)' <=> d \in clients
  BY DEF TakeBroadcast, Pending
<1>6. ~Pending(d)
  BY DEF TakeBroadcast, Pending, Select
<1>7. InHand(d)' = InHand(d) /\ BufferFrom(d)' = BufferFrom(d) /\ StreamEnd(d)' = StreamEnd(d)
      /\ (Living(d)' <=> Living(d))
  BY <1>4 DEF InHand, BufferFrom, StreamEnd, Living
<1>8. ASSUME since[d] # NotJoined PROVE Shown(d)'
  <2>1. since[d] \in Nat /\ Shown(d)
    BY <1>8, StreamNumbers DEF StreamOK
  <2>2. ASSUME NEW i \in 1..Len(got[d]) PROVE got[d][i] = accepted'[since[d] + i]
    <3>1. since[d] + i \in 1..Len(accepted)
      BY <2>1, StreamNumbers DEF Shown
    <3> QED
      BY <1>3, <2>1, <3>1 DEF Shown
  <2>3. since[d] + Len(got[d]) <= Len(accepted')
    BY <1>3, <2>1, StreamNumbers DEF Shown
  <2> QED
    BY <1>4, <2>2, <2>3 DEF Shown
<1>9. ASSUME Living(d) PROVE Queued(d)'
  <2>1. since[d] \in Nat /\ Queued(d)
    BY <1>9, StreamNumbers DEF Living, JoinInv, StreamOK
  <2>2. ASSUME writer[d].at = "writing"
        PROVE  writer[d].msg = accepted'[since[d] + Len(got[d]) + 1]
    <3>1. since[d] + Len(got[d]) + 1 \in 1..Len(accepted)
      BY <2>1, <2>2, StreamNumbers DEF Queued, StreamEnd, BufferFrom, InHand
    <3> QED
      BY <1>3, <2>1, <2>2, <3>1 DEF Queued
  <2>3. ASSUME NEW i \in 1..Len(send[d]) PROVE send[d][i] = accepted'[BufferFrom(d) + i]
    <3>1. BufferFrom(d) \in Nat /\ BufferFrom(d) + Len(send[d]) <= Len(accepted)
      BY <1>9, <2>1, StreamNumbers DEF Queued, StreamEnd, JoinInv, Living
    <3>2. BufferFrom(d) + i \in 1..Len(accepted)
      BY <3>1, StreamNumbers
    <3> QED
      BY <1>3, <2>1, <3>2 DEF Queued
  <2>4. StreamEnd(d) \in Nat /\ StreamEnd(d) <= Len(accepted')
    BY <1>3, <2>1, StreamNumbers DEF Queued, StreamEnd, BufferFrom
  <2> QED
    BY <1>4, <1>7, <2>2, <2>3, <2>4 DEF Queued
<1>10. ASSUME Living(d), d \in clients PROVE UpToDate(d)'
  BY <1>3, <1>5, <1>6, <1>7, <1>10, StreamNumbers DEF StreamOK, UpToDate
<1> QED
  BY <1>4, <1>7, <1>8, <1>9, <1>10 DEF StreamOK

\* A client joins with an empty stream.
LEMMA Joins ==
  ASSUME TypeOK, JoinInv, NEW c \in Clients, Register(c)
  PROVE  StreamOK(c)'
PROOF
<1>1. got'[c] = <<>> /\ send'[c] = <<>> /\ accepted' = accepted
  BY DEF Register, JoinInv
<1>2. since'[c] = Len(accepted) /\ writer'[c] = Ready
  BY DEF Register, TypeOK
<1>3. ~Pending(c)'
  BY DEF Register, Pending, Select
<1>4. InHand(c)' = 0
  BY <1>2 DEF InHand, Ready
<1>5. BufferFrom(c)' = Len(accepted) /\ StreamEnd(c)' = Len(accepted)
  BY <1>1, <1>2, <1>4, StreamNumbers DEF BufferFrom, StreamEnd
<1>6. Shown(c)'
  BY <1>1, <1>2, StreamNumbers DEF Shown
<1>7. Queued(c)'
  BY <1>1, <1>2, <1>5, StreamNumbers DEF Queued, Ready
<1>8. UpToDate(c)'
  BY <1>1, <1>3, <1>5, StreamNumbers DEF UpToDate
<1> QED
  BY <1>6, <1>7, <1>8 DEF StreamOK

\* The message under way is the next of the stream of c.
LEMMA Fans ==
  ASSUME TypeOK, JoinInv, RunInv, ChannelsOpen, NEW c \in Clients, StreamOK(c), FanOut(c)
  PROVE  StreamOK(c)'
PROOF
<1>1. /\ run' = [at |-> "fanout", msg |-> run.msg, todo |-> run.todo \ {c}]
      /\ run.at = "fanout" /\ run.msg \in Messages /\ c \in run.todo
  BY StateFields DEF FanOut, Distributing
<1>2. run.msg = accepted[Len(accepted)] /\ c \in clients
  BY <1>1 DEF RunInv, Distributing, ChannelsOpen
<1>3. send'[c] = Append(send[c], run.msg) /\ send[c] \in Seq(Messages)
  BY DEF FanOut, TypeOK
<1>4. /\ Len(send'[c]) = Len(send[c]) + 1
      /\ send'[c][Len(send[c]) + 1] = run.msg
      /\ \A i \in 1..Len(send[c]) : send'[c][i] = send[c][i]
  BY <1>1, <1>3, AppendProperties
<1>5. UNCHANGED <<got, writer, since, accepted, clients>>
  BY DEF FanOut
<1>6. Pending(c) /\ ~Pending(c)'
  BY <1>1 DEF Pending
<1>7. since[c] # NotJoined => Shown(c)'
  BY <1>5 DEF StreamOK, Shown
<1>8. ASSUME Living(c) PROVE Queued(c)' /\ UpToDate(c)'
  <2>1. Queued(c) /\ StreamEnd(c) = Len(accepted) - 1 /\ since[c] \in Nat
    BY <1>2, <1>6, <1>8, StreamNumbers DEF StreamOK, UpToDate, JoinInv, Living
  <2>2. InHand(c)' = InHand(c) /\ BufferFrom(c)' = BufferFrom(c) /\ BufferFrom(c) \in Nat
    BY <1>5, <2>1, StreamNumbers DEF InHand, BufferFrom
  <2>3. StreamEnd(c)' = Len(accepted) /\ BufferFrom(c) + Len(send[c]) + 1 = Len(accepted)
    BY <1>4, <2>1, <2>2, StreamNumbers DEF StreamEnd
  <2>4. ASSUME NEW i \in 1..(Len(send[c]) + 1)
        PROVE  send'[c][i] = accepted[BufferFrom(c) + i]
    <3>1. CASE i <= Len(send[c])
      BY <1>4, <2>1, <3>1, StreamNumbers DEF Queued
    <3>2. CASE i = Len(send[c]) + 1
      BY <1>2, <1>4, <2>2, <2>3, <3>2, StreamNumbers
    <3> QED
      BY <3>1, <3>2, StreamNumbers
  <2>5. Queued(c)'
    BY <1>4, <1>5, <2>1, <2>2, <2>3, <2>4, StreamNumbers DEF Queued
  <2>6. UpToDate(c)'
    BY <1>5, <1>6, <2>3, StreamNumbers DEF UpToDate
  <2> QED
    BY <2>5, <2>6
<1> QED
  BY <1>5, <1>7, <1>8 DEF StreamOK, Living

\* The writer takes the first message of the buffer.
LEMMA Takes ==
  ASSUME TypeOK, JoinInv, NEW c \in Clients, StreamOK(c), WriterTake(c)
  PROVE  StreamOK(c)'
PROOF
<1>1. /\ writer[c] = Ready /\ send[c] # <<>> /\ send[c] \in Seq(Messages)
      /\ send'[c] = Tail(send[c])
      /\ writer'[c] = [at |-> "writing", msg |-> Head(send[c])]
      /\ UNCHANGED <<got, since, accepted, clients, run>>
  BY DEF WriterTake, TypeOK
<1>2. /\ Len(send'[c]) = Len(send[c]) - 1 /\ Len(send[c]) > 0
      /\ \A i \in 1..Len(send'[c]) : send'[c][i] = send[c][i + 1]
      /\ Head(send[c]) = send[c][1]
  BY <1>1, HeadTailProperties
<1>3. /\ since[c] \in Nat /\ Shown(c) /\ Queued(c)
      /\ c \in clients => UpToDate(c)
  BY <1>1, StreamNumbers DEF StreamOK, Living, JoinInv, Off, Ready, Done
<1>4. InHand(c) = 0 /\ InHand(c)' = 1
  BY <1>1 DEF InHand, Ready
<1>5. BufferFrom(c) = since[c] + Len(got[c]) /\ BufferFrom(c)' = BufferFrom(c) + 1
  BY <1>1, <1>3, <1>4, StreamNumbers DEF BufferFrom
<1>6. StreamEnd(c)' = StreamEnd(c)
  BY <1>2, <1>3, <1>5, StreamNumbers DEF StreamEnd
<1>7. Shown(c)'
  BY <1>1, <1>3 DEF Shown
<1>8. Head(send[c]) = accepted[since[c] + Len(got[c]) + 1]
  BY <1>2, <1>3, <1>5, StreamNumbers DEF Queued
<1>9. ASSUME NEW i \in 1..Len(send'[c])
      PROVE  send'[c][i] = accepted[BufferFrom(c) + 1 + i]
  <2>1. i \in Nat /\ i + 1 \in 1..Len(send[c])
    BY <1>2, StreamNumbers
  <2>2. BufferFrom(c) \in Nat
    BY <1>3, <1>5, StreamNumbers
  <2>3. BufferFrom(c) + (i + 1) = BufferFrom(c) + 1 + i
    BY <2>1, <2>2
  <2>4. send[c][i + 1] = accepted[BufferFrom(c) + (i + 1)]
    BY <1>3, <2>1 DEF Queued
  <2> QED
    BY <1>2, <2>3, <2>4
<1>10. Queued(c)'
  BY <1>1, <1>3, <1>5, <1>6, <1>8, <1>9 DEF Queued
<1>11. c \in clients => UpToDate(c)'
  BY <1>1, <1>3, <1>6 DEF UpToDate, Pending
<1> QED
  BY <1>1, <1>7, <1>10, <1>11 DEF StreamOK

\* The browser receives what the writer has in hand, which is the next message
\* of its piece of the log.
LEMMA Writes ==
  ASSUME TypeOK, JoinInv, NEW c \in Clients, StreamOK(c), WriterWrote(c)
  PROVE  /\ StreamOK(c)'
         /\ since[c] \in Nat
         /\ since[c] + Len(got[c]) + 1 <= Len(accepted)
         /\ writer[c].msg = accepted[since[c] + Len(got[c]) + 1]
PROOF
<1>1. /\ writer[c].at = "writing" /\ writer[c].msg \in Messages /\ got[c] \in Seq(Messages)
      /\ got'[c] = Append(got[c], writer[c].msg)
      /\ writer'[c] = Ready
      /\ UNCHANGED <<send, since, accepted, clients, run>>
  BY StateFields DEF WriterWrote, TypeOK
<1>2. /\ Len(got'[c]) = Len(got[c]) + 1
      /\ got'[c][Len(got[c]) + 1] = writer[c].msg
      /\ \A i \in 1..Len(got[c]) : got'[c][i] = got[c][i]
  BY <1>1, AppendProperties
<1>3. /\ since[c] \in Nat /\ Shown(c) /\ Queued(c)
      /\ c \in clients => UpToDate(c)
  BY <1>1, StateFields, StreamNumbers DEF StreamOK, Living, JoinInv, Off, Done
<1>4. InHand(c) = 1 /\ InHand(c)' = 0
  BY <1>1 DEF InHand, Ready
<1>5. BufferFrom(c) = since[c] + Len(got[c]) + 1 /\ BufferFrom(c)' = BufferFrom(c)
  BY <1>1, <1>2, <1>3, <1>4, StreamNumbers DEF BufferFrom
<1>6. StreamEnd(c)' = StreamEnd(c)
  BY <1>1, <1>5 DEF StreamEnd
<1>7. since[c] + Len(got[c]) + 1 <= Len(accepted)
  BY <1>3, <1>5, StreamNumbers DEF Queued, StreamEnd
<1>8. writer[c].msg = accepted[since[c] + Len(got[c]) + 1]
  BY <1>1, <1>3 DEF Queued
<1>9. ASSUME NEW i \in 1..(Len(got[c]) + 1) PROVE got'[c][i] = accepted[since[c] + i]
  <2>1. CASE i <= Len(got[c])
    BY <1>2, <1>3, <2>1, StreamNumbers DEF Shown
  <2>2. CASE i = Len(got[c]) + 1
    <3>1. since[c] + i = since[c] + Len(got[c]) + 1
      BY <1>3, <2>2, StreamNumbers
    <3> QED
      BY <1>2, <1>8, <2>2, <3>1
  <2> QED
    BY <2>1, <2>2, StreamNumbers
<1>10. Shown(c)'
  <2>1. since'[c] + Len(got'[c]) <= Len(accepted')
    BY <1>1, <1>2, <1>3, <1>7, StreamNumbers
  <2> QED
    BY <1>1, <1>2, <1>9, <2>1 DEF Shown
<1>11. Queued(c)'
  BY <1>1, <1>3, <1>5, <1>6 DEF Queued, Ready
<1>12. c \in clients => UpToDate(c)'
  BY <1>1, <1>3, <1>6 DEF UpToDate, Pending
<1> QED
  BY <1>1, <1>3, <1>7, <1>8, <1>10, <1>11, <1>12 DEF StreamOK

\* Once its writer is gone only what the browser has matters.
LEMMA Ends ==
  ASSUME TypeOK, JoinInv, NEW c \in Clients, StreamOK(c), WriterFail(c) \/ WriterClosed(c)
  PROVE  StreamOK(c)'
PROOF
<1>1. writer'[c] = Done /\ UNCHANGED <<since, got, accepted>>
  BY DEF WriterFail, WriterClosed, TypeOK
<1>2. since[c] # NotJoined => Shown(c)'
  BY <1>1 DEF StreamOK, Shown
<1> QED
  BY <1>1, <1>2 DEF StreamOK, Living

LEMMA StreamStep == HubInv /\ [Next]_vars => StreamInv'
PROOF
<1> SUFFICES ASSUME HubInv, [Next]_vars PROVE StreamInv'
  OBVIOUS
<1>0. TypeOK /\ JoinInv /\ RunInv /\ ChannelsOpen /\ \A d \in Clients : StreamOK(d)
  BY DEF HubInv, StreamInv
<1> SUFFICES ASSUME NEW d \in Clients PROVE StreamOK(d)'
  BY DEF StreamInv
<1>1. ASSUME NEW c \in Clients, Connect(c) \/ ReaderFail(c) \/ ReaderClose(c)
      PROVE  StreamOK(d)'
  BY <1>0, <1>1, Untouched DEF Connect, ReaderFail, ReaderClose, Pending
<1>2. CASE Broadcast \/ Stop \/ UNCHANGED vars
  BY <1>0, <1>2, Untouched DEF Broadcast, Stop, vars, Pending
<1>3. ASSUME NEW c \in Clients, Register(c) PROVE StreamOK(d)'
  <2>1. CASE d = c
    BY <1>0, <1>3, <2>1, Joins
  <2>2. CASE d # c
    BY <1>0, <1>3, <2>2, Untouched DEF Register, Pending, TypeOK
  <2> QED
    BY <2>1, <2>2
<1>4. ASSUME NEW c \in Clients, Unregister(c) PROVE StreamOK(d)'
  BY <1>0, <1>4, Untouched DEF Unregister, Pending
<1>5. CASE TakeBroadcast
  BY <1>0, <1>5, Accepts
<1>6. ASSUME NEW c \in Clients, FanOut(c) PROVE StreamOK(d)'
  <2>1. CASE d = c
    BY <1>0, <1>6, <2>1, Fans
  <2>2. CASE d # c
    <3>1. run' = [at |-> "fanout", msg |-> run.msg, todo |-> run.todo \ {c}] /\ run.at = "fanout"
      BY <1>0, <1>6, StateFields DEF FanOut
    <3>2. Pending(d)' <=> Pending(d)
      BY <2>2, <3>1 DEF Pending
    <3> QED
      BY <1>0, <1>6, <2>2, <3>2, Untouched DEF FanOut, TypeOK
  <2> QED
    BY <2>1, <2>2
<1>7. ASSUME NEW c \in Clients, Evict(c) PROVE StreamOK(d)'
  BY <1>0, <1>7, Untouched DEF Evict, Pending
<1>8. CASE EndFanOut
  BY <1>0, <1>8, Untouched DEF EndFanOut, Pending, Select
<1>9. CASE Quit
  BY <1>0, <1>9, Untouched DEF Quit
<1>10. ASSUME NEW c \in Clients, WriterTake(c) PROVE StreamOK(d)'
  <2>1. CASE d = c
    BY <1>0, <1>10, <2>1, Takes
  <2>2. CASE d # c
    BY <1>0, <1>10, <2>2, Untouched DEF WriterTake, Pending, TypeOK
  <2> QED
    BY <2>1, <2>2
<1>11. ASSUME NEW c \in Clients, WriterWrote(c) PROVE StreamOK(d)'
  <2>1. CASE d = c
    BY <1>0, <1>11, <2>1, Writes
  <2>2. CASE d # c
    BY <1>0, <1>11, <2>2, Untouched DEF WriterWrote, Pending, TypeOK
  <2> QED
    BY <2>1, <2>2
<1>12. ASSUME NEW c \in Clients, WriterFail(c) \/ WriterClosed(c) PROVE StreamOK(d)'
  <2>1. CASE d = c
    BY <1>0, <1>12, <2>1, Ends
  <2>2. CASE d # c
    BY <1>0, <1>12, <2>2, Untouched DEF WriterFail, WriterClosed, Pending, TypeOK
  <2> QED
    BY <2>1, <2>2
<1> QED
  BY <1>1, <1>2, <1>3, <1>4, <1>5, <1>6, <1>7, <1>8, <1>9, <1>10, <1>11, <1>12
     DEF Next, ClientStep

-----------------------------------------------------------------------------
\* Pieces of a log.

\* a is what log holds after its first "from" elements, as far as a goes.
IsPiece(a, log, from) ==
  /\ from + Len(a) <= Len(log)
  /\ \A i \in 1..Len(a) : a[i] = log[from + i]

\* Two adjacent pieces make a piece.
LEMMA ConcatOfPieces ==
  ASSUME NEW S, NEW log \in Seq(S), NEW from \in Nat, NEW a \in Seq(S), NEW b \in Seq(S),
         IsPiece(a, log, from), IsPiece(b, log, from + Len(a))
  PROVE  /\ a \o b \in Seq(S)
         /\ Len(a \o b) = Len(a) + Len(b)
         /\ IsPiece(a \o b, log, from)
PROOF
<1>1. Len(a) \in Nat /\ Len(b) \in Nat
  BY LenProperties
<1>2. /\ a \o b \in Seq(S)
      /\ Len(a \o b) = Len(a) + Len(b)
      /\ \A i \in 1..Len(a) + Len(b) : (a \o b)[i] = IF i <= Len(a) THEN a[i] ELSE b[i - Len(a)]
  BY ConcatProperties
<1>3. ASSUME NEW i \in 1..(Len(a) + Len(b)) PROVE (a \o b)[i] = log[from + i]
  <2>1. CASE i <= Len(a)
    BY <1>1, <1>2, <2>1 DEF IsPiece
  <2>2. CASE i > Len(a)
    <3>1. i - Len(a) \in 1..Len(b) /\ from + Len(a) + (i - Len(a)) = from + i
      BY <1>1, <2>2
    <3>2. b[i - Len(a)] = log[from + i]
      BY <3>1 DEF IsPiece
    <3> QED
      BY <1>1, <1>2, <2>2, <3>2
  <2> QED
    BY <1>1, <2>1, <2>2
<1>4. from + Len(a \o b) <= Len(log)
  BY <1>1, <1>2, LenProperties DEF IsPiece
<1> QED
  BY <1>2, <1>3, <1>4 DEF IsPiece

\* A piece is what SubSeq cuts out.
LEMMA PieceIsSubSeq ==
  ASSUME NEW S, NEW log \in Seq(S), NEW from \in Nat, NEW a \in Seq(S),
         IsPiece(a, log, from)
  PROVE  a = SubSeq(log, from + 1, from + Len(a))
PROOF
<1> DEFINE to == from + Len(a)
           piece == SubSeq(log, from + 1, to)
<1>1. Len(a) \in Nat /\ to \in Nat /\ to <= Len(log) /\ to - (from + 1) + 1 = Len(a)
  BY LenProperties DEF IsPiece
<1>2. \A i \in (from + 1)..to : log[i] \in S
  BY <1>1, ElementOfSeq
<1>3. from + 1 \in Int /\ to \in Int
  BY <1>1
<1> HIDE DEF to
<1>4. /\ piece \in Seq(S)
      /\ Len(piece) = IF from + 1 <= to THEN to - (from + 1) + 1 ELSE 0
      /\ \A i \in 1..(to - (from + 1) + 1) : piece[i] = log[from + 1 + i - 1]
  BY <1>2, <1>3, SubSeqProperties
<1> HIDE DEF piece
<1>5. Len(piece) = Len(a)
  BY <1>1, <1>3, <1>4
<1>6. ASSUME NEW i \in 1..Len(a) PROVE piece[i] = log[from + i]
  <2>1. piece[i] = log[from + 1 + i - 1]
    BY <1>1, <1>4
  <2>2. from + 1 + i - 1 = from + i
    OBVIOUS
  <2> QED
    BY <2>1, <2>2
<1>7. a = piece
  BY <1>4, <1>5, <1>6, SeqEqual DEF IsPiece
<1> QED
  BY <1>7 DEF piece, to

-----------------------------------------------------------------------------
\* The theorems.

LEMMA InitHolds == Init => HubInv
PROOF
<1> SUFFICES ASSUME Init PROVE HubInv
  OBVIOUS
<1> USE DEF Init
<1>1. <<>> \in Seq(Messages) /\ Len(<<>>) = 0
  BY EmptySeq
<1>2. TypeOK
  <2>1. /\ run \in RunStates /\ writer \in [Clients -> WriterStates]
        /\ broadcast \in Seq(Messages) /\ Len(broadcast) <= BroadcastCap
        /\ accepted \in Seq(Messages)
    BY <1>1, StateTypes, WSHubAssumption
  <2>2. send \in [Clients -> Seq(Messages)] /\ got \in [Clients -> Seq(Messages)]
        /\ \A c \in Clients : Len(send[c]) <= SendCap
    BY <1>1, WSHubAssumption
  <2>3. published \in 0..MaxMessages /\ since \in [Clients -> Nat \cup {NotJoined}]
    BY WSHubAssumption
  <2> QED
    BY <2>1, <2>2, <2>3 DEF TypeOK
<1>3. JoinInv /\ ChannelsOpen /\ RunInv
  BY DEF JoinInv, ChannelsOpen, RunInv, Distributing, Select, NotJoined
<1>4. StreamInv
  BY DEF StreamInv, StreamOK, Living
<1> QED
  BY <1>2, <1>3, <1>4 DEF HubInv

LEMMA HubInvariant == Spec => []HubInv
<1>1. HubInv /\ [Next]_vars => HubInv'
  BY TypeStep, JoinStep, ChannelsStep, RunStep, StreamStep DEF HubInv
<1> QED
  BY <1>1, InitHolds, PTL DEF Spec

\* Every variable keeps its type, and the buffers their capacity.
THEOREM TypeCorrect == Spec => []TypeOK
<1>1. HubInv => TypeOK
  BY DEF HubInv
<1> QED
  BY <1>1, HubInvariant, PTL

\* Run never sends on a closed channel nor closes one twice, for every number of
\* connections and whatever the order in which they come, fail and go.
THEOREM ChannelsAlwaysOpen == Spec => []ChannelsOpen
<1>1. HubInv => ChannelsOpen
  BY DEF HubInv
<1> QED
  BY <1>1, HubInvariant, PTL

\* A client in the map with a living writer misses nothing.
THEOREM NoGapsEver == Spec => []NoGaps
<1>1. HubInv => NoGaps
  <2> SUFFICES ASSUME HubInv, NEW c \in clients, writer[c] # Done
               PROVE  Stream(c) = SubSeq(accepted, since[c] + 1,
                                         Len(accepted) - (IF Pending(c) THEN 1 ELSE 0))
    BY DEF NoGaps
  <2> DEFINE hand == IF writer[c].at = "writing" THEN <<writer[c].msg>> ELSE <<>>
             end == Len(accepted) - (IF Pending(c) THEN 1 ELSE 0)
  <2>1. TypeOK /\ JoinInv /\ c \in Clients
    BY DEF HubInv, TypeOK
  <2>2. Living(c) /\ since[c] # NotJoined
    BY <2>1 DEF HubInv, JoinInv, Living
  <2>3. Shown(c) /\ Queued(c) /\ StreamEnd(c) = end /\ since[c] \in Nat
    BY <2>1, <2>2, StreamNumbers DEF HubInv, StreamInv, StreamOK, UpToDate
  <2>4. got[c] \in Seq(Messages) /\ send[c] \in Seq(Messages) /\ accepted \in Seq(Messages)
    BY <2>1 DEF TypeOK
  <2>5. /\ hand \in Seq(Messages) /\ Len(hand) = InHand(c)
        /\ \A i \in 1..Len(hand) : hand[i] = accepted[since[c] + Len(got[c]) + i]
    <3>1. CASE writer[c].at = "writing"
      <4>1. writer[c].msg \in Messages /\ writer[c].msg = accepted[since[c] + Len(got[c]) + 1]
        BY <2>1, <2>3, <3>1, StateFields DEF Queued
      <4>2. hand = <<writer[c].msg>>
        BY <3>1
      <4>3. hand \in Seq(Messages) /\ Len(hand) = 1 /\ hand[1] = writer[c].msg
        BY <4>1, <4>2
      <4> QED
        BY <3>1, <4>1, <4>3 DEF InHand
    <3>2. CASE writer[c].at # "writing"
      <4>1. hand = <<>>
        BY <3>2
      <4>2. hand \in Seq(Messages) /\ Len(hand) = 0
        BY <4>1
      <4> QED
        BY <3>2, <4>2 DEF InHand
    <3> QED
      BY <3>1, <3>2
  <2> HIDE DEF hand, end
  <2>6. /\ since[c] + Len(got[c]) + Len(hand) = BufferFrom(c)
        /\ BufferFrom(c) + Len(send[c]) = end
        /\ end <= Len(accepted)
        /\ BufferFrom(c) <= Len(accepted)
    BY <2>1, <2>2, <2>3, <2>5, StreamNumbers DEF BufferFrom, StreamEnd, Queued
  <2> DEFINE head == got[c] \o hand
  <2>7. /\ head \in Seq(Messages)
        /\ Len(head) = Len(got[c]) + Len(hand)
        /\ IsPiece(head, accepted, since[c])
    <3>1. IsPiece(got[c], accepted, since[c])
      BY <2>1, <2>3, <2>4, <2>5, <2>6, LenProperties DEF Shown, IsPiece
    <3>2. IsPiece(hand, accepted, since[c] + Len(got[c]))
      BY <2>5, <2>6 DEF IsPiece
    <3> QED
      BY <2>3, <2>4, <2>5, <3>1, <3>2, ConcatOfPieces
  <2> HIDE DEF head
  <2>8. since[c] + Len(head) = BufferFrom(c)
    BY <2>3, <2>4, <2>5, <2>6, <2>7, LenProperties
  <2>9. IsPiece(send[c], accepted, since[c] + Len(head))
    BY <2>3, <2>6, <2>8 DEF Queued, IsPiece
  <2>10. /\ head \o send[c] \in Seq(Messages)
         /\ Len(head \o send[c]) = Len(head) + Len(send[c])
         /\ IsPiece(head \o send[c], accepted, since[c])
    BY <2>3, <2>4, <2>7, <2>9, ConcatOfPieces
  <2>11. Stream(c) = head \o send[c]
    BY DEF Stream, head, hand
  <2>12. end = since[c] + Len(Stream(c))
    <3>1. Len(head) \in Nat /\ Len(send[c]) \in Nat
      BY <2>4, <2>7, LenProperties
    <3>2. Len(Stream(c)) = Len(head) + Len(send[c])
      BY <2>10, <2>11
    <3>3. (since[c] + Len(head)) + Len(send[c]) = end
      BY <2>6, <2>8
    <3> QED
      BY <2>3, <3>1, <3>2, <3>3
  <2>13. Stream(c) = SubSeq(accepted, since[c] + 1, since[c] + Len(Stream(c)))
    BY <2>3, <2>4, <2>10, <2>11, PieceIsSubSeq
  <2>14. Stream(c) = SubSeq(accepted, since[c] + 1, end)
    BY <2>12, <2>13
  <2> QED
    BY <2>14 DEF end
<1> QED
  BY <1>1, HubInvariant, PTL

-----------------------------------------------------------------------------
\* The refinement.

\* What a step of the hub is to the broadcast log: Run taking a message
\* publishes it, a registration joins, a successful write shows, and everything
\* else is a stutter.
LEMMA StepImplements == HubInv /\ [Next]_vars => [Log!Next]_(Log!logVars)
PROOF
<1> SUFFICES ASSUME HubInv, [Next]_vars PROVE [Log!Next]_(Log!logVars)
  OBVIOUS
<1>0. TypeOK /\ JoinInv /\ StreamInv
  BY DEF HubInv
<1>1. CASE TakeBroadcast
  <2>1. Head(broadcast) \in Messages
    BY <1>0, <1>1, HeadTailProperties DEF TakeBroadcast, TypeOK
  <2>2. Log!Publish(Head(broadcast))
    BY <1>1 DEF TakeBroadcast, Log!Publish
  <2> QED
    BY <2>1, <2>2 DEF Log!Next
<1>2. ASSUME NEW c \in Clients, Register(c) PROVE Log!Next
  <2>1. since[c] = NotJoined
    BY <1>0, <1>2 DEF Register, JoinInv
  <2>2. Log!Join(c)
    BY <1>2, <2>1 DEF Register, Log!Join, NotJoined, Log!NotJoined
  <2> QED
    BY <2>2 DEF Log!Next
<1>3. ASSUME NEW c \in Clients, WriterWrote(c) PROVE Log!Next
  <2>1. /\ since[c] \in Nat
        /\ since[c] + Len(got[c]) + 1 <= Len(accepted)
        /\ writer[c].msg = accepted[since[c] + Len(got[c]) + 1]
    BY <1>0, <1>3, Writes DEF StreamInv
  <2>2. since[c] # Log!NotJoined
    BY <2>1 DEF Log!NotJoined
  <2>3. since[c] + Len(got[c]) < Len(accepted)
    BY <1>0, <2>1, StreamNumbers
  <2>4. got' = [got EXCEPT ![c] = Append(got[c], accepted[since[c] + Len(got[c]) + 1])]
    BY <1>3, <2>1 DEF WriterWrote
  <2>5. Log!Show(c)
    BY <1>3, <2>2, <2>3, <2>4 DEF WriterWrote, Log!Show
  <2> QED
    BY <2>5 DEF Log!Next
<1>4. CASE UNCHANGED <<accepted, since, got>>
  BY <1>4 DEF Log!logVars
<1> QED
  BY <1>1, <1>2, <1>3, <1>4
     DEF Next, ClientStep, Connect, Unregister, FanOut, Evict, WriterTake, WriterFail,
         WriterClosed, ReaderFail, ReaderClose, Broadcast, Stop, EndFanOut, Quit, vars

\* The hub implements the broadcast log: for every number of connections and
\* every capacity each browser is shown a contiguous piece of what Run accepted.
THEOREM HubImplementsLog == Spec => ImplementsBroadcastLog
<1>1. Init => Log!Init
  BY DEF Init, Log!Init, NotJoined, Log!NotJoined
<1> QED
  BY <1>1, StepImplements, HubInvariant, PTL DEF Spec, ImplementsBroadcastLog, Log!Spec

=============================================================================
