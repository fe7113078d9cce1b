---------------------------- MODULE BroadcastLog ----------------------------
(***************************************************************************)
(* What the WebSocket hub promises its clients: there is one log of        *)
(* messages, and each client sees a contiguous piece of it, in order, that *)
(* starts where the log ended when the client joined.                      *)
(***************************************************************************)
EXTENDS Integers, Sequences

CONSTANTS Clients, Messages

VARIABLES
  log,     \* the messages broadcast so far
  start,   \* how long the log was when a client joined, or NotJoined
  seen     \* what a client has been shown

logVars == <<log, start, seen>>

NotJoined == -1

Init ==
  /\ log = <<>>
  /\ start = [c \in Clients |-> NotJoined]
  /\ seen = [c \in Clients |-> <<>>]

Publish(m) ==
  /\ log' = Append(log, m)
  /\ UNCHANGED <<start, seen>>

Join(c) ==
  /\ start[c] = NotJoined
  /\ start' = [start EXCEPT ![c] = Len(log)]
  /\ UNCHANGED <<log, seen>>

Show(c) ==
  /\ start[c] # NotJoined
  /\ start[c] + Len(seen[c]) < Len(log)
  /\ seen' = [seen EXCEPT ![c] = Append(@, log[start[c] + Len(@) + 1])]
  /\ UNCHANGED <<log, start>>

Next ==
  \/ \E m \in Messages : Publish(m)
  \/ \E c \in Clients : Join(c) \/ Show(c)

Spec == Init /\ [][Next]_logVars

=============================================================================
