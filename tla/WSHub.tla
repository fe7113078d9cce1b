-------------------------------- MODULE WSHub --------------------------------
(***************************************************************************)
(* The WebSocket hub (internal/api/websocket.go): the event loop of        *)
(* WSHub.Run, and for every connection the handler that registers it, its  *)
(* writer goroutine and its reader goroutine.  "register" and "unregister" *)
(* are unbuffered channels that only Run receives from, so a send on them  *)
(* is one step taken together with Run at its select.                      *)
(***************************************************************************)
EXTENDS Integers, Sequences

CONSTANTS
  Clients,        \* the connections
  SendCap,        \* capacity of wsClient.send (256 in the code)
  BroadcastCap,   \* capacity of WSHub.broadcast (256 in the code)
  MaxMessages     \* bound: how many messages are broadcast

ASSUME WSHubAssumption ==
  /\ SendCap \in Nat \ {0}
  /\ BroadcastCap \in Nat \ {0}
  /\ MaxMessages \in Nat

Messages == 1..MaxMessages

VARIABLES
  run,         \* where WSHub.Run is
  clients,     \* WSHub.clients
  broadcast,   \* WSHub.broadcast
  quit,        \* WSHub.quit is closed
  send,        \* the buffer of each wsClient.send
  closed,      \* the clients whose send channel is closed
  conn,        \* the connection: "none", "registering", "open" or "closed"
  writer,      \* the writer goroutine
  reader,      \* the reader goroutine
  published,   \* how many messages Broadcast was called with
  accepted,    \* history: the messages Run took from broadcast, in order
  since,       \* history: Len(accepted) when a client was registered
  got          \* external: what the browser has received

vars == <<run, clients, broadcast, quit, send, closed, conn, writer, reader,
          published, accepted, since, got>>

Select == [at |-> "select"]

RunStates ==
  {Select, [at |-> "returned"]}
  \cup [at: {"fanout"}, msg: Messages, todo: SUBSET Clients]
  \cup [at: {"evict"}, msg: Messages, todo: SUBSET Clients, client: Clients]

Off == [at |-> "off"]
Ready == [at |-> "ready"]
Done == [at |-> "done"]

WriterStates == {Off, Ready, Done} \cup [at: {"writing"}, msg: Messages]

NotJoined == -1

TypeOK ==
  /\ run \in RunStates
  /\ clients \subseteq Clients
  /\ broadcast \in Seq(Messages) /\ Len(broadcast) <= BroadcastCap
  /\ quit \in BOOLEAN
  /\ send \in [Clients -> Seq(Messages)] /\ \A c \in Clients : Len(send[c]) <= SendCap
  /\ closed \subseteq Clients
  /\ conn \in [Clients -> {"none", "registering", "open", "closed"}]
  /\ writer \in [Clients -> WriterStates]
  /\ reader \in [Clients -> {"off", "reading", "leaving", "closing", "done"}]
  /\ published \in 0..MaxMessages
  /\ accepted \in Seq(Messages)
  /\ since \in [Clients -> Nat \cup {NotJoined}]
  /\ got \in [Clients -> Seq(Messages)]

Init ==
  /\ run = Select
  /\ clients = {}
  /\ broadcast = <<>>
  /\ quit = FALSE
  /\ send = [c \in Clients |-> <<>>]
  /\ closed = {}
  /\ conn = [c \in Clients |-> "none"]
  /\ writer = [c \in Clients |-> Off]
  /\ reader = [c \in Clients |-> "off"]
  /\ published = 0
  /\ accepted = <<>>
  /\ since = [c \in Clients |-> NotJoined]
  /\ got = [c \in Clients |-> <<>>]

-----------------------------------------------------------------------------
\* Callers of the hub.

\* HandleWebSocket: the session is valid, the connection is upgraded, and the
\* handler waits to send on register.
Connect(c) ==
  /\ conn[c] = "none"
  /\ conn' = [conn EXCEPT ![c] = "registering"]
  /\ UNCHANGED <<run, clients, broadcast, quit, send, closed, writer, reader,
                 published, accepted, since, got>>

\* Broadcast never blocks: a message that finds the channel full is dropped.
Broadcast ==
  /\ published < MaxMessages
  /\ published' = published + 1
  /\ broadcast' = IF Len(broadcast) < BroadcastCap
                  THEN Append(broadcast, published') ELSE broadcast
  /\ UNCHANGED <<run, clients, quit, send, closed, conn, writer, reader,
                 accepted, since, got>>

Stop ==
  /\ ~quit
  /\ quit' = TRUE
  /\ UNCHANGED <<run, clients, broadcast, send, closed, conn, writer, reader,
                 published, accepted, since, got>>

-----------------------------------------------------------------------------
\* WSHub.Run.

\* Run receives from register; the handler goes on to start both goroutines.
Register(c) ==
  /\ run = Select
  /\ conn[c] = "registering"
  /\ clients' = clients \cup {c}
  /\ conn' = [conn EXCEPT ![c] = "open"]
  /\ writer' = [writer EXCEPT ![c] = Ready]
  /\ reader' = [reader EXCEPT ![c] = "reading"]
  /\ since' = [since EXCEPT ![c] = Len(accepted)]
  /\ UNCHANGED <<run, broadcast, quit, send, closed, published, accepted, got>>

\* Mutant: the client stays in the map.
UnregisterKeeps(c) ==
  /\ run = Select
  /\ reader[c] = "leaving"
  /\ closed' = IF c \in clients THEN closed \cup {c} ELSE closed
  /\ reader' = [reader EXCEPT ![c] = "closing"]
  /\ UNCHANGED <<run, clients, broadcast, quit, send, conn, writer, published, accepted,
                 since, got>>

\* Run receives from unregister what the reader of c sends when it leaves.
Unregister(c) ==
  /\ run = Select
  /\ reader[c] = "leaving"
  /\ clients' = clients \ {c}
  /\ closed' = IF c \in clients THEN closed \cup {c} ELSE closed
  /\ reader' = [reader EXCEPT ![c] = "closing"]
  /\ UNCHANGED <<run, broadcast, quit, send, conn, writer, published, accepted, since, got>>

\* Run receives from broadcast and takes a snapshot of the clients.
TakeBroadcast ==
  /\ run = Select
  /\ broadcast # <<>>
  /\ run' = [at |-> "fanout", msg |-> Head(broadcast), todo |-> clients]
  /\ broadcast' = Tail(broadcast)
  /\ accepted' = Append(accepted, Head(broadcast))
  /\ UNCHANGED <<clients, quit, send, closed, conn, writer, reader,
                 published, since, got>>

\* Mutant: a client whose buffer is full is passed over.
FanOutOrSkip(c) ==
  /\ run.at = "fanout"
  /\ c \in run.todo
  /\ send' = IF Len(send[c]) < SendCap THEN [send EXCEPT ![c] = Append(@, run.msg)] ELSE send
  /\ run' = [run EXCEPT !.todo = @ \ {c}]
  /\ UNCHANGED <<clients, broadcast, quit, closed, conn, writer, reader,
                 published, accepted, since, got>>

\* Mutant: the buffer has no bound.
FanOutUnbounded(c) ==
  /\ run.at = "fanout"
  /\ c \in run.todo
  /\ send' = [send EXCEPT ![c] = Append(@, run.msg)]
  /\ run' = [run EXCEPT !.todo = @ \ {c}]
  /\ UNCHANGED <<clients, broadcast, quit, closed, conn, writer, reader,
                 published, accepted, since, got>>

\* The message goes into the buffer of one more client of the snapshot.
FanOut(c) ==
  /\ run.at = "fanout"
  /\ c \in run.todo
  /\ Len(send[c]) < SendCap
  /\ send' = [send EXCEPT ![c] = Append(@, run.msg)]
  /\ run' = [run EXCEPT !.todo = @ \ {c}]
  /\ UNCHANGED <<clients, broadcast, quit, closed, conn, writer, reader,
                 published, accepted, since, got>>

\* The buffer of c is full: Run itself sends c on unregister.  That channel has
\* no buffer and no other receiver, so no action leaves this state.
Evict(c) ==
  /\ run.at = "fanout"
  /\ c \in run.todo
  /\ Len(send[c]) = SendCap
  /\ run' = [at |-> "evict", msg |-> run.msg, todo |-> run.todo, client |-> c]
  /\ UNCHANGED <<clients, broadcast, quit, send, closed, conn, writer, reader,
                 published, accepted, since, got>>

EndFanOut ==
  /\ run.at = "fanout"
  /\ run.todo = {}
  /\ run' = Select
  /\ UNCHANGED <<clients, broadcast, quit, send, closed, conn, writer, reader,
                 published, accepted, since, got>>

\* Run sees quit closed, closes every send channel and returns.
Quit ==
  /\ run = Select
  /\ quit
  /\ closed' = closed \cup clients
  /\ clients' = {}
  /\ run' = [at |-> "returned"]
  /\ UNCHANGED <<broadcast, quit, send, conn, writer, reader,
                 published, accepted, since, got>>

-----------------------------------------------------------------------------
\* The goroutines of connection c.

WriterTake(c) ==
  /\ writer[c] = Ready
  /\ send[c] # <<>>
  /\ writer' = [writer EXCEPT ![c] = [at |-> "writing", msg |-> Head(send[c])]]
  /\ send' = [send EXCEPT ![c] = Tail(@)]
  /\ UNCHANGED <<run, clients, broadcast, quit, closed, conn, reader,
                 published, accepted, since, got>>

\* The write reaches the browser.
WriterWrote(c) ==
  /\ writer[c].at = "writing"
  /\ conn[c] = "open"
  /\ got' = [got EXCEPT ![c] = Append(@, writer[c].msg)]
  /\ writer' = [writer EXCEPT ![c] = Ready]
  /\ UNCHANGED <<run, clients, broadcast, quit, send, closed, conn, reader,
                 published, accepted, since>>

\* Mutant: the writer goes on after a failed write.
WriterFailContinues(c) ==
  /\ writer[c].at \in {"ready", "writing"}
  /\ writer' = [writer EXCEPT ![c] = Ready]
  /\ UNCHANGED <<run, clients, broadcast, quit, send, closed, conn, reader,
                 published, accepted, since, got>>

\* A write or a ping fails, at the latest at its deadline of 10 seconds.
WriterFail(c) ==
  /\ writer[c].at \in {"ready", "writing"}
  /\ writer' = [writer EXCEPT ![c] = Done]
  /\ conn' = [conn EXCEPT ![c] = "closed"]
  /\ UNCHANGED <<run, clients, broadcast, quit, send, closed, reader,
                 published, accepted, since, got>>

\* Mutant: the writer does not ask whether the channel is closed.
WriterClosedIgnored(c) ==
  /\ writer[c] = Ready
  /\ c \in closed
  /\ send[c] = <<>>
  /\ UNCHANGED vars

\* The channel is closed and empty: the writer says goodbye and returns.
WriterClosed(c) ==
  /\ writer[c] = Ready
  /\ c \in closed
  /\ send[c] = <<>>
  /\ writer' = [writer EXCEPT ![c] = Done]
  /\ conn' = [conn EXCEPT ![c] = "closed"]
  /\ UNCHANGED <<run, clients, broadcast, quit, send, closed, reader,
                 published, accepted, since, got>>

\* ReadMessage fails: the browser left or was silent for 60 seconds, or the
\* connection was closed on this side.  The reader waits to send on unregister.
ReaderFail(c) ==
  /\ reader[c] = "reading"
  /\ reader' = [reader EXCEPT ![c] = "leaving"]
  /\ UNCHANGED <<run, clients, broadcast, quit, send, closed, conn, writer,
                 published, accepted, since, got>>

\* Run has received it, and the reader closes the connection.
ReaderClose(c) ==
  /\ reader[c] = "closing"
  /\ reader' = [reader EXCEPT ![c] = "done"]
  /\ conn' = [conn EXCEPT ![c] = "closed"]
  /\ UNCHANGED <<run, clients, broadcast, quit, send, closed, writer,
                 published, accepted, since, got>>

ClientStep(c) ==
  \/ Connect(c) \/ Register(c) \/ Unregister(c) \/ FanOut(c) \/ Evict(c)
  \/ WriterTake(c) \/ WriterWrote(c) \/ WriterFail(c) \/ WriterClosed(c)
  \/ ReaderFail(c) \/ ReaderClose(c)

Next ==
  \/ \E c \in Clients : ClientStep(c)
  \/ Broadcast \/ Stop \/ TakeBroadcast \/ EndFanOut \/ Quit

Spec == Init /\ [][Next]_vars

(***************************************************************************)
(* Fairness: goroutines that can go on do, Run's select and the queue of   *)
(* senders on a channel pass nobody over for ever, a write ends at its     *)
(* deadline, and a read of a connection closed on this side fails.         *)
(***************************************************************************)
Fairness ==
  /\ WF_vars(TakeBroadcast) /\ WF_vars(EndFanOut) /\ SF_vars(Quit)
  /\ \A c \in Clients :
       /\ SF_vars(Register(c)) /\ SF_vars(Unregister(c))
       /\ WF_vars(FanOut(c) \/ Evict(c))
       /\ WF_vars(WriterTake(c) \/ WriterClosed(c))
       /\ WF_vars(writer[c].at = "writing" /\ (WriterWrote(c) \/ WriterFail(c)))
       /\ WF_vars(conn[c] = "closed" /\ writer[c] = Ready /\ WriterFail(c))
       /\ WF_vars(conn[c] = "closed" /\ ReaderFail(c)) /\ WF_vars(ReaderClose(c))

FairSpec == Spec /\ Fairness

-----------------------------------------------------------------------------
\* Safety.

\* Run never sends on a closed channel and never closes one twice (either is a
\* panic of the process): a send channel is open exactly while its client is in
\* the map, and what is left of a snapshot is still in the map.
ChannelsOpen ==
  /\ clients \cap closed = {}
  /\ \A c \in Clients : reader[c] \in {"reading", "leaving"} /\ run.at # "returned"
                          => c \in clients
  /\ run.at \in {"fanout", "evict"} => run.todo \subseteq clients

\* What a client received, is being sent and has buffered, in this order.
Stream(c) ==
  got[c] \o (IF writer[c].at = "writing" THEN <<writer[c].msg>> ELSE <<>>) \o send[c]

\* The message Run is distributing has not been given to c yet.
Pending(c) == run.at \in {"fanout", "evict"} /\ c \in run.todo

\* A registered client whose writer lives misses no message and sees none twice
\* or out of order: its stream is the part of the accepted messages from its
\* registration on, the one being distributed excepted.
NoGaps ==
  \A c \in clients :
    writer[c] # Done =>
      Stream(c) = SubSeq(accepted, since[c] + 1,
                         Len(accepted) - (IF Pending(c) THEN 1 ELSE 0))

\* The hub implements the broadcast log: a browser is shown a contiguous piece
\* of the messages Run accepted, whatever is dropped, fails or is closed.
Log == INSTANCE BroadcastLog
         WITH log <- accepted, start <- since, seen <- got

ImplementsBroadcastLog == Log!Spec

-----------------------------------------------------------------------------
\* Liveness.

\* While Run does not get into an eviction and is not stopped, a connection
\* whose reader ends leaves the map.
LeaversUnregistered ==
  \A c \in Clients :
    [](run.at # "evict" /\ ~quit) => (reader[c] = "leaving" ~> c \notin clients)

\* A closed send channel ends both goroutines' use of the connection.
ClosedMeansClosed ==
  \A c \in Clients : c \in closed ~> conn[c] = "closed" /\ writer[c] = Done

-----------------------------------------------------------------------------
\* What a comment says and the code does not do.

\* websocket.go:94, "Client too slow - schedule disconnect": a client whose
\* buffer was full when Run had a message for it is disconnected, and Run goes
\* on.
SlowClientEvicted == run.at = "evict" ~> run.at # "evict"

=============================================================================
