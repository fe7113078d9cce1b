----------------------------- MODULE RestApiProofs -----------------------------
(***************************************************************************)
(* Theorems about RestApi for every number of requests, sessions and names *)
(* and every limit and bound.                                              *)
(***************************************************************************)
EXTENDS RestApi, SeqFilterProofs

-----------------------------------------------------------------------------
\* Types, as far as the two invariants below need them.

CoreType ==
  /\ req \in [Requests -> RequestStates]
  /\ sessions \in [Tokens -> Gone..SessionTTL]
  /\ issued \subseteq Tokens
  /\ muteRows \subseteq Names
  /\ muted \subseteq Names

\* What the fields of a request's state are.
LEMMA RequestFields ==
  ASSUME CoreType, NEW r \in Requests
  PROVE  /\ req[r].at = "renew" => req[r].token \in Tokens /\ req[r].for \in Names \cup {"other"}
         /\ req[r].at = "toggle" => req[r].name \in Names
         /\ req[r].at \in {"write", "memory"} =>
              /\ req[r].name \in Names /\ req[r].mute \in BOOLEAN /\ req[r].solo \in BOOLEAN
              /\ req[r] = [at |-> req[r].at, name |-> req[r].name,
                           mute |-> req[r].mute, solo |-> req[r].solo]
BY DEF CoreType, RequestStates

\* The states that a step of one request leads to.
LEMMA StateTypes ==
  /\ Idle \in RequestStates
  /\ [at |-> "check"] \in RequestStates
  /\ [at |-> "create"] \in RequestStates
  /\ \A t \in Tokens, f \in Names \cup {"other"} :
       [at |-> "renew", token |-> t, for |-> f] \in RequestStates
  /\ \A n \in Names : [at |-> "toggle", name |-> n] \in RequestStates
  /\ \A n \in Names, a \in {"write", "memory"}, m, s \in BOOLEAN :
       [at |-> a, name |-> n, mute |-> m, solo |-> s] \in RequestStates
BY DEF RequestStates, Idle

LEMMA CoreTypeInit == Init => CoreType
BY StateTypes, RestApiAssumption, SMT DEF Init, CoreType, Gone

\* A step that changes the state of one request to one of the states keeps its type.
LEMMA StepType ==
  ASSUME CoreType, NEW r \in Requests, NEW from, NEW to \in RequestStates, Step(r, from, to)
  PROVE  req' \in [Requests -> RequestStates]
BY DEF CoreType, Step

LEMMA CoreTypeStep == CoreType /\ [Next]_vars => CoreType'
PROOF
<1> SUFFICES ASSUME CoreType, [Next]_vars PROVE CoreType'
  OBVIOUS
<1> USE DEF Gone, Expired
<1>1. ASSUME NEW r \in Requests, Login(r) PROVE CoreType'
  <2>1. CASE Allow(r)
    BY <2>1, StateTypes, StepType DEF Allow, CoreType, store
  <2>2. CASE BadRequest(r) \/ RecordFailure(r) \/ CreateSessionFails(r)
    <3>1. req' \in [Requests -> RequestStates]
      BY <2>2, StateTypes, StepType DEF BadRequest, RecordFailure, CreateSessionFails
    <3> QED BY <2>2, <3>1 DEF BadRequest, RecordFailure, CreateSessionFails, CoreType, store, history
  <2>3. CASE RecordSuccess(r)
    BY <2>3, StateTypes, StepType DEF RecordSuccess, CoreType, store
  <2>4. CASE CreateSession(r)
    <3>1. req' \in [Requests -> RequestStates]
      BY <2>4, StateTypes, StepType DEF CreateSession
    <3>2. PICK t \in Tokens \ issued : /\ sessions' = [sessions EXCEPT ![t] = SessionTTL]
                                       /\ issued' = issued \cup {t}
      BY <2>4 DEF CreateSession
    <3> QED BY <2>4, <3>1, <3>2, RestApiAssumption DEF CreateSession, CoreType
  <2> QED BY <1>1, <2>1, <2>2, <2>3, <2>4 DEF Login
<1>2. ASSUME NEW r \in Requests, Middleware(r) PROVE CoreType'
  <2>1. CASE ReadSession(r)
    <3>1. PICK t \in issued, f \in Names \cup {"other"} :
            Step(r, "idle", [at |-> "renew", token |-> t, for |-> f])
      BY <2>1 DEF ReadSession
    <3>2. [at |-> "renew", token |-> t, for |-> f] \in RequestStates
      BY StateTypes DEF CoreType
    <3>3. req' \in [Requests -> RequestStates]
      BY <3>1, <3>2, StepType
    <3> QED BY <2>1, <3>3 DEF ReadSession, CoreType, store, history
  <2>2. CASE RenewSession(r) \/ RenewSessionFails(r)
    <3>1. req[r].for \in Names \cup {"other"} /\ req[r].token \in Tokens
      BY <2>2, RequestFields DEF RenewSession, RenewSessionFails
    <3>2. Handler(req[r].for) \in RequestStates
      BY <3>1, StateTypes DEF Handler
    <3>3. req' \in [Requests -> RequestStates]
      BY <2>2, <3>2, StepType DEF RenewSession, RenewSessionFails
    <3>4. sessions' \in [Tokens -> Gone..SessionTTL]
      BY <2>2, <3>1, RestApiAssumption DEF RenewSession, RenewSessionFails, CoreType, store
    <3> QED BY <2>2, <3>3, <3>4 DEF RenewSession, RenewSessionFails, CoreType, store, history
  <2> QED BY <1>2, <2>1, <2>2 DEF Middleware
<1>3. ASSUME NEW r \in Requests, ToggleMute(r) PROVE CoreType'
  <2>1. CASE GetMutedNames(r)
    <3>1. req[r].name \in Names
      BY <2>1, RequestFields DEF GetMutedNames
    <3>2. ASSUME NEW q \in Requests, q \in Toggling(req[r].name)
          PROVE  Met(req[q]) \in RequestStates
      BY <3>2, RequestFields, StateTypes DEF Toggling, Met, Toggle
    <3>3. Toggle("write", req[r].name, req[r].name \notin muteRows, Toggling(req[r].name) = {})
            \in RequestStates
      BY <3>1, StateTypes DEF Toggle
    <3>4. req' \in [Requests -> RequestStates]
      BY <2>1, <3>2, <3>3 DEF GetMutedNames, CoreType
    <3> QED BY <2>1, <3>4 DEF GetMutedNames, CoreType, store
  <2>2. CASE WriteMute(r)
    <3>1. req[r].at = "write"
      BY <2>2 DEF WriteMute
    <3>2. Written(req[r]) \in RequestStates
      BY <3>1, RequestFields, StateTypes DEF Written, Toggle
    <3>3. req' \in [Requests -> RequestStates]
      BY <2>2, <3>2, StepType DEF WriteMute
    <3> QED BY <2>2, <3>1, <3>3, RequestFields DEF WriteMute, CoreType, history
  <2>3. CASE ToggleFails(r)
    BY <2>3, StateTypes DEF ToggleFails, CoreType, store, history
  <2>4. CASE TellAlerter(r)
    <3>1. req' \in [Requests -> RequestStates]
      BY <2>4, StateTypes, StepType DEF TellAlerter
    <3> QED BY <2>4, <3>1, RequestFields DEF TellAlerter, CoreType, store
  <2> QED BY <1>3, <2>1, <2>2, <2>3, <2>4 DEF ToggleMute
<1>4. CASE Refuse \/ Cleanup
  BY <1>4 DEF Refuse, Cleanup, CoreType, store, history
<1>5. CASE Logout
  <2>1. PICK t \in issued : sessions' = [sessions EXCEPT ![t] = Gone]
    BY <1>5 DEF Logout
  <2> QED BY <1>5, <2>1, RestApiAssumption DEF Logout, CoreType
<1>6. CASE DeleteExpiredSessions
  BY <1>6, RestApiAssumption DEF DeleteExpiredSessions, CoreType, history
<1>7. CASE Restart
  <2>1. req' \in [Requests -> RequestStates]
    BY <1>7, StateTypes DEF Restart
  <2> QED BY <1>7, <2>1 DEF Restart, CoreType, store
<1>8. CASE Pass
  BY <1>8, RestApiAssumption DEF Pass, CoreType
<1>9. CASE UNCHANGED vars
  BY <1>9 DEF vars, CoreType, store, history
<1> QED BY <1>1, <1>2, <1>3, <1>4, <1>5, <1>6, <1>7, <1>8, <1>9 DEF Next

THEOREM CoreTypeCorrect == Spec => []CoreType
PROOF
<1> QED BY CoreTypeInit, CoreTypeStep, PTL DEF Spec

-----------------------------------------------------------------------------
\* Sessions.

Renewing(t) == {r \in Requests : req[r].at = "renew" /\ req[r].token = t}

\* A session that ended is gone, or has expired and no request is to renew it.
EndedInv ==
  /\ ended \subseteq issued
  /\ \A t \in Tokens \ issued : sessions[t] = Gone
  /\ \A t \in ended : sessions[t] = Gone \/ (sessions[t] = Expired /\ Renewing(t) = {})

\* A step of one request to a state that renews nothing leaves no renewal there.
LEMMA StepRenewsNothing ==
  ASSUME CoreType, NEW r \in Requests, NEW from, NEW to \in RequestStates,
         Step(r, from, to), to.at # "renew", NEW t
  PROVE  Renewing(t)' \subseteq Renewing(t)
BY DEF CoreType, Step, Renewing

\* So does a step that touches neither the sessions nor what there were.
LEMMA EndedKept ==
  ASSUME EndedInv, UNCHANGED <<sessions, issued, ended>>,
         \A t \in ended : Renewing(t)' \subseteq Renewing(t)
  PROVE  EndedInv'
BY DEF EndedInv

LEMMA EndedInit == Init => EndedInv
BY DEF Init, EndedInv

LEMMA EndedStep == CoreType /\ EndedInv /\ [Next]_vars => EndedInv'
PROOF
<1> SUFFICES ASSUME CoreType, EndedInv, [Next]_vars PROVE EndedInv'
  OBVIOUS
<1> USE DEF Gone, Expired
<1>1. ASSUME NEW r \in Requests, Login(r) PROVE EndedInv'
  <2>1. \A t : Renewing(t)' \subseteq Renewing(t)
    <3>1. CASE Allow(r)
      BY <3>1, StateTypes, StepRenewsNothing DEF Allow
    <3>2. CASE RecordSuccess(r)
      BY <3>2, StateTypes, StepRenewsNothing DEF RecordSuccess
    <3>3. CASE \/ BadRequest(r) \/ RecordFailure(r)
               \/ CreateSession(r) \/ CreateSessionFails(r)
      <4>1. \E from : Step(r, from, Idle)
        BY <3>3 DEF BadRequest, RecordFailure, CreateSession, CreateSessionFails
      <4> QED BY <4>1, StateTypes, StepRenewsNothing DEF Idle
    <3> QED BY <1>1, <3>1, <3>2, <3>3 DEF Login
  <2>2. CASE CreateSession(r)
    <3>1. PICK t \in Tokens \ issued :
            /\ sessions' = [sessions EXCEPT ![t] = SessionTTL]
            /\ issued' = issued \cup {t}
      BY <2>2 DEF CreateSession
    <3>2. ended' = ended
      BY <2>2 DEF CreateSession
    <3>3. \A u \in Tokens \ {t} : sessions'[u] = sessions[u]
      BY <3>1 DEF CoreType
    <3>4. t \notin ended /\ ended \subseteq Tokens
      BY DEF EndedInv, CoreType
    <3> QED BY <2>1, <3>1, <3>2, <3>3, <3>4 DEF EndedInv
  <2>3. CASE ~CreateSession(r)
    <3>1. UNCHANGED <<sessions, issued, ended>>
      BY <1>1, <2>3 DEF Login, Allow, BadRequest, RecordFailure, RecordSuccess,
                        CreateSessionFails, store, history
    <3> QED BY <2>1, <3>1, EndedKept
  <2> QED BY <2>2, <2>3
<1>2. ASSUME NEW r \in Requests, Middleware(r) PROVE EndedInv'
  <2>1. CASE ReadSession(r)
    <3>1. PICK t \in issued, f \in Names \cup {"other"} :
            /\ sessions[t] > Expired
            /\ Step(r, "idle", [at |-> "renew", token |-> t, for |-> f])
            /\ UNCHANGED <<store, history>>
      BY <2>1 DEF ReadSession
    <3>2. t \notin ended
      BY <3>1 DEF EndedInv
    <3>3. \A u \in ended : Renewing(u)' \subseteq Renewing(u)
      BY <3>1, <3>2 DEF Renewing, Step, CoreType
    <3> QED BY <3>1, <3>3, EndedKept DEF store, history
  <2>2. CASE RenewSession(r) \/ RenewSessionFails(r)
    <3> DEFINE token == req[r].token
    <3>1. req[r].at = "renew" /\ token \in Tokens /\ Handler(req[r].for) \in RequestStates
          /\ Handler(req[r].for).at # "renew" /\ Step(r, "renew", Handler(req[r].for))
      BY <2>2, RequestFields, StateTypes DEF RenewSession, RenewSessionFails, Handler, Idle
    <3>2. \A t : Renewing(t)' \subseteq Renewing(t)
      BY <3>1, StepRenewsNothing
    <3>3. UNCHANGED <<issued, ended>>
      BY <2>2 DEF RenewSession, RenewSessionFails, history
    <3>4. \A t \in Tokens : \/ sessions'[t] = sessions[t]
                            \/ t = token /\ sessions[t] # Gone
      BY <2>2, <3>1 DEF RenewSession, RenewSessionFails, CoreType, store
    <3>5. r \in Renewing(token)
      BY <3>1 DEF Renewing
    <3> QED BY <3>2, <3>3, <3>4, <3>5 DEF EndedInv, CoreType
  <2> QED BY <1>2, <2>1, <2>2 DEF Middleware
<1>3. ASSUME NEW r \in Requests, ToggleMute(r) PROVE EndedInv'
  <2>1. UNCHANGED <<sessions, issued, ended>>
    BY <1>3 DEF ToggleMute, GetMutedNames, WriteMute, ToggleFails, TellAlerter, store, history
  <2>2. \A q \in Requests : req'[q] = req[q] \/ req'[q].at # "renew"
    BY <1>3, RequestFields DEF ToggleMute, GetMutedNames, WriteMute, ToggleFails, TellAlerter,
       Step, CoreType, Idle, Toggle, Met, Written, Toggling
  <2>3. \A t : Renewing(t)' \subseteq Renewing(t)
    BY <2>2 DEF Renewing
  <2> QED BY <2>1, <2>3, EndedKept
<1>4. CASE Refuse \/ Cleanup \/ UNCHANGED vars
  BY <1>4, EndedKept DEF Refuse, Cleanup, Renewing, vars, store, history
<1>5. CASE Logout
  BY <1>5 DEF Logout, EndedInv, CoreType, Renewing
<1>6. CASE DeleteExpiredSessions
  BY <1>6 DEF DeleteExpiredSessions, EndedInv, CoreType, Renewing, history
<1>7. CASE Restart
  <2>1. \A t : Renewing(t)' = {}
    BY <1>7 DEF Restart, Renewing, Idle
  <2> QED BY <1>7, <2>1 DEF Restart, EndedInv, CoreType, store
<1>8. CASE Pass
  <2>1. \A t : Renewing(t)' = Renewing(t)
    BY <1>8 DEF Pass, Renewing
  <2>2. \A t \in Tokens : sessions[t] = 0 => sessions'[t] = Expired
    BY <1>8 DEF Pass
  <2>3. \A t \in Tokens : sessions[t] \in {Gone, Expired} => sessions'[t] = sessions[t]
    BY <1>8 DEF Pass
  <2>4. \A t \in ended' : \/ t \in ended
                          \/ t \in Tokens /\ sessions[t] = 0 /\ Renewing(t) = {}
    BY <1>8 DEF Pass, Renewing
  <2>5. issued' = issued
    BY <1>8 DEF Pass
  <2>6. ended' \subseteq issued
    BY <2>4 DEF EndedInv
  <2> QED BY <2>1, <2>2, <2>3, <2>4, <2>5, <2>6 DEF EndedInv, CoreType
<1> QED BY <1>1, <1>2, <1>3, <1>4, <1>5, <1>6, <1>7, <1>8 DEF Next

\* No session that was logged out, or ran out with no request about to renew it,
\* lets a request through again (middleware.go reads it before it renews it).
THEOREM EndedStaysEndedAlways == Spec => []EndedStaysEnded
PROOF
<1>1. EndedInv => EndedStaysEnded
  BY DEF EndedInv, EndedStaysEnded
<1> QED BY <1>1, CoreTypeCorrect, EndedInit, EndedStep, PTL DEF Spec

-----------------------------------------------------------------------------
\* Mutes.

\* Where the toggles of a name meet, it is apart; a toggle that met no other is
\* the only one of its name, and has left the row as it wants it.
MuteInvAt(name) ==
  /\ \A r \in Toggling(name) :
       /\ name \notin apart => req[r].solo
       /\ req[r].solo => Toggling(name) \subseteq {r}
       /\ req[r].solo /\ req[r].at = "memory" => (name \in muteRows <=> req[r].mute)
  /\ \/ name \in apart
     \/ \E r \in Toggling(name) : req[r].at = "memory"
     \/ name \in muteRows <=> name \in muted

MuteInv == \A name \in Names : MuteInvAt(name)

LEMMA MuteInit == Init => MuteInv
BY DEF Init, MuteInv, MuteInvAt, Toggling, Idle

\* A step that leaves the toggles of a name, its row and its mute alone keeps its
\* part of the invariant.
LEMMA MuteKept ==
  ASSUME NEW name \in Names, MuteInvAt(name),
         name \in muteRows' <=> name \in muteRows,
         name \in muted' <=> name \in muted,
         name \in apart' <=> name \in apart,
         Toggling(name)' = Toggling(name),
         \A q \in Toggling(name) : req'[q] = req[q]
  PROVE  MuteInvAt(name)'
BY DEF MuteInvAt

\* So does a step of one request that is in no toggle, before and after.
LEMMA NoToggleKept ==
  ASSUME CoreType, MuteInv, UNCHANGED <<muteRows, muted, apart>>,
         NEW r \in Requests, NEW from, NEW to, Step(r, from, to),
         from \notin {"write", "memory"}, to.at \notin {"write", "memory"}
  PROVE  MuteInv'
PROOF
<1> SUFFICES ASSUME NEW name \in Names PROVE MuteInvAt(name)'
  BY DEF MuteInv
<1>1. MuteInvAt(name)
  BY DEF MuteInv
<1>2. \A q \in Requests : q # r => req'[q] = req[q]
  BY DEF Step, CoreType
<1>3. req[r].at \notin {"write", "memory"} /\ req'[r].at \notin {"write", "memory"}
  BY DEF Step, CoreType
<1>4. Toggling(name)' = Toggling(name)
  BY <1>2, <1>3 DEF Toggling
<1>5. \A q \in Toggling(name) : req'[q] = req[q]
  BY <1>2, <1>3 DEF Toggling
<1> QED BY <1>1, <1>4, <1>5, MuteKept

LEMMA MuteReadStep ==
  ASSUME CoreType, MuteInv, NEW r \in Requests, GetMutedNames(r)
  PROVE  MuteInv'
PROOF
<1> SUFFICES ASSUME NEW name \in Names PROVE MuteInvAt(name)'
  BY DEF MuteInv
<1> DEFINE own == req[r].name
           others == Toggling(own)
<1>1. /\ req[r].at = "toggle" /\ own \in Names
      /\ UNCHANGED <<muteRows, muted>>
      /\ apart' = IF others = {} THEN apart ELSE apart \cup {own}
      /\ req' = [q \in Requests |->
                   IF q = r THEN Toggle("write", own, own \notin muteRows, others = {})
                   ELSE IF q \in others THEN Met(req[q]) ELSE req[q]]
  BY RequestFields DEF GetMutedNames, store
<1>2. r \notin others /\ r \notin Toggling(name)
  BY <1>1 DEF Toggling
<1>3. req'[r] = Toggle("write", own, own \notin muteRows, others = {})
  BY <1>1
<1>4. \A q \in Requests \ {r} : req'[q] = IF q \in others THEN Met(req[q]) ELSE req[q]
  BY <1>1
<1>5. \A q \in others : /\ q \in Requests /\ q # r
                        /\ req[q].at \in {"write", "memory"} /\ req[q].name = own
                        /\ req'[q].at = req[q].at /\ req'[q].name = own
                        /\ req'[q].solo = FALSE
  <2> TAKE q \in others
  <2>1. q \in Requests /\ q # r /\ req[q].at \in {"write", "memory"} /\ req[q].name = own
    BY <1>2 DEF Toggling
  <2>2. req'[q] = Toggle(req[q].at, req[q].name, req[q].mute, FALSE)
    BY <1>4, <2>1 DEF Met
  <2> QED BY <2>1, <2>2 DEF Toggle
<1>6. CASE name # own
  <2>1. \A q \in Requests : q \in others => q \notin Toggling(name)
    BY <1>6 DEF Toggling
  <2>2. Toggling(name)' = Toggling(name)
    BY <1>2, <1>3, <1>4, <1>5, <1>6 DEF Toggling, Toggle
  <2>3. \A q \in Toggling(name) : req'[q] = req[q]
    BY <1>2, <1>4, <2>1 DEF Toggling
  <2> QED BY <1>1, <1>6, <2>2, <2>3, MuteKept DEF MuteInv
<1>7. CASE name = own
  <2>1. Toggling(name)' = others \cup {r}
    BY <1>3, <1>4, <1>5, <1>7 DEF Toggling, Toggle
  <2>2. MuteInvAt(name)
    BY DEF MuteInv
  <2>3. req'[r].at = "write" /\ req'[r].solo = (others = {})
    BY <1>3 DEF Toggle
  <2>4. CASE others = {}
    BY <1>1, <1>7, <2>1, <2>2, <2>3, <2>4 DEF MuteInvAt
  <2>5. CASE others # {}
    <3>1. name \in apart'
      BY <1>1, <1>7, <2>5
    <3>2. \A q \in Toggling(name)' : ~req'[q].solo
      BY <1>5, <2>1, <2>3, <2>5
    <3> QED BY <3>1, <3>2 DEF MuteInvAt
  <2> QED BY <2>4, <2>5
<1> QED BY <1>6, <1>7

LEMMA MuteWriteStep ==
  ASSUME CoreType, MuteInv, NEW r \in Requests, WriteMute(r)
  PROVE  MuteInv'
PROOF
<1> SUFFICES ASSUME NEW name \in Names PROVE MuteInvAt(name)'
  BY DEF MuteInv
<1> DEFINE own == req[r].name
<1>1. /\ req[r].at = "write" /\ own \in Names
      /\ UNCHANGED <<muted, apart>>
      /\ muteRows' = IF req[r].mute THEN muteRows \cup {own} ELSE muteRows \ {own}
      /\ req' = [req EXCEPT ![r] = Written(req[r])]
  BY RequestFields DEF WriteMute, Step, history
<1>2. \A q \in Requests \ {r} : req'[q] = req[q]
  BY <1>1 DEF CoreType
<1>3. req'[r] = Toggle("memory", own, req[r].mute, req[r].solo)
  BY <1>1 DEF CoreType, Written
<1>4. Toggling(name)' = Toggling(name)
  BY <1>1, <1>2, <1>3 DEF Toggling, Toggle
<1>5. MuteInvAt(name)
  BY DEF MuteInv
<1>6. CASE name # own
  <2>1. \A q \in Toggling(name) : req'[q] = req[q]
    BY <1>2, <1>6 DEF Toggling
  <2> QED BY <1>1, <1>4, <1>5, <1>6, <2>1, MuteKept
<1>7. CASE name = own
  <2>1. r \in Toggling(name) /\ \A q \in Toggling(name) : q \in Requests
    BY <1>1, <1>7 DEF Toggling
  <2>2. /\ req'[r].at = "memory"
        /\ req'[r].solo = req[r].solo
        /\ req'[r].mute = req[r].mute
    BY <1>3 DEF Toggle
  <2>3. req[r].mute <=> name \in muteRows'
    BY <1>1, <1>7
  <2>4. \A q \in Toggling(name) : q # r => ~req'[q].solo
    BY <1>2, <1>5, <2>1 DEF MuteInvAt
  <2> QED BY <1>1, <1>2, <1>4, <1>5, <2>1, <2>2, <2>3, <2>4 DEF MuteInvAt
<1> QED BY <1>6, <1>7

\* The toggle of a request ends: it failed, or tells the alerter.
LEMMA MuteEndStep ==
  ASSUME CoreType, MuteInv, NEW r \in Requests, ToggleFails(r) \/ TellAlerter(r)
  PROVE  MuteInv'
PROOF
<1> SUFFICES ASSUME NEW name \in Names PROVE MuteInvAt(name)'
  BY DEF MuteInv
<1> DEFINE own == req[r].name
<1>1. req' = [req EXCEPT ![r] = Idle] /\ muteRows' = muteRows
  BY DEF ToggleFails, TellAlerter, Step, store
<1>2. \A q \in Requests \ {r} : req'[q] = req[q]
  BY <1>1 DEF CoreType
<1>3. req'[r].at = "idle"
  BY <1>1 DEF CoreType, Idle
<1>4. Toggling(name)' = Toggling(name) \ {r}
  BY <1>2, <1>3 DEF Toggling
<1>5. MuteInvAt(name)
  BY DEF MuteInv
<1>6. \A q \in Toggling(name)' : q \in Toggling(name) /\ q # r /\ req'[q] = req[q]
  BY <1>2, <1>4 DEF Toggling
<1>7. CASE ToggleFails(r)
  <2>1. UNCHANGED <<muted, apart>> /\ req[r].at # "memory"
    BY <1>7 DEF ToggleFails, history
  <2>2. (\E q \in Toggling(name) : req[q].at = "memory")
          => \E q \in Toggling(name)' : req'[q].at = "memory"
    BY <1>2, <1>4, <2>1 DEF Toggling
  <2> QED BY <1>1, <1>4, <1>5, <1>6, <2>1, <2>2 DEF MuteInvAt
<1>8. CASE TellAlerter(r)
  <2>1. /\ req[r].at = "memory" /\ own \in Names /\ req[r].solo \in BOOLEAN
        /\ muted' = IF req[r].mute THEN muted \cup {own} ELSE muted \ {own}
        /\ apart' = IF req[r].solo THEN apart \ {own} ELSE apart
    BY <1>8, RequestFields DEF TellAlerter
  <2>2. CASE name # own
    <3>1. r \notin Toggling(name)
      BY <2>2 DEF Toggling
    <3>2. Toggling(name)' = Toggling(name) /\ \A q \in Toggling(name) : req'[q] = req[q]
      BY <1>4, <1>6, <3>1
    <3> QED BY <1>1, <1>5, <2>1, <2>2, <3>2, MuteKept
  <2>3. CASE name = own /\ req[r].solo
    <3>1. r \in Toggling(name)
      BY <2>1, <2>3 DEF Toggling
    <3>2. Toggling(name)' = {}
      BY <1>4, <1>5, <2>3, <3>1 DEF MuteInvAt
    <3>3. name \in muteRows' <=> name \in muted'
      BY <1>1, <1>5, <2>1, <2>3, <3>1 DEF MuteInvAt
    <3> QED BY <3>2, <3>3 DEF MuteInvAt
  <2>4. CASE name = own /\ ~req[r].solo
    <3>1. r \in Toggling(name)
      BY <2>1, <2>4 DEF Toggling
    <3>2. name \in apart /\ apart' = apart
      BY <1>5, <2>1, <2>4, <3>1 DEF MuteInvAt
    <3> QED BY <1>1, <1>4, <1>5, <1>6, <3>2 DEF MuteInvAt
  <2> QED BY <2>2, <2>3, <2>4
<1> QED BY <1>7, <1>8

LEMMA MuteStep == CoreType /\ MuteInv /\ [Next]_vars => MuteInv'
PROOF
<1> SUFFICES ASSUME CoreType, MuteInv, [Next]_vars PROVE MuteInv'
  OBVIOUS
<1>1. ASSUME NEW r \in Requests, Login(r) PROVE MuteInv'
  <2>1. UNCHANGED <<muteRows, muted, apart>>
    BY <1>1 DEF Login, Allow, BadRequest, RecordFailure, RecordSuccess, CreateSession,
                CreateSessionFails, store, history
  <2>2. CASE Allow(r)
    BY <2>1, <2>2, NoToggleKept DEF Allow
  <2>3. CASE RecordSuccess(r)
    BY <2>1, <2>3, NoToggleKept DEF RecordSuccess
  <2>4. CASE BadRequest(r) \/ RecordFailure(r)
    <3>1. Step(r, "check", Idle)
      BY <2>4 DEF BadRequest, RecordFailure
    <3> QED BY <2>1, <3>1, NoToggleKept DEF Idle
  <2>5. CASE CreateSession(r) \/ CreateSessionFails(r)
    <3>1. Step(r, "create", Idle)
      BY <2>5 DEF CreateSession, CreateSessionFails
    <3> QED BY <2>1, <3>1, NoToggleKept DEF Idle
  <2> QED BY <1>1, <2>2, <2>3, <2>4, <2>5 DEF Login
<1>2. ASSUME NEW r \in Requests, Middleware(r) PROVE MuteInv'
  <2>1. UNCHANGED <<muteRows, muted, apart>>
    BY <1>2 DEF Middleware, ReadSession, RenewSession, RenewSessionFails, store, history
  <2>2. CASE ReadSession(r)
    BY <2>1, <2>2, NoToggleKept DEF ReadSession
  <2>3. CASE RenewSession(r) \/ RenewSessionFails(r)
    <3>1. Step(r, "renew", Handler(req[r].for))
      BY <2>3 DEF RenewSession, RenewSessionFails
    <3>2. Handler(req[r].for).at \notin {"write", "memory"}
      BY DEF Handler, Idle
    <3> QED BY <2>1, <3>1, <3>2, NoToggleKept
  <2> QED BY <1>2, <2>2, <2>3 DEF Middleware
<1>3. ASSUME NEW r \in Requests, ToggleMute(r) PROVE MuteInv'
  BY <1>3, MuteReadStep, MuteWriteStep, MuteEndStep DEF ToggleMute
<1>4. CASE Refuse \/ Cleanup \/ Logout \/ DeleteExpiredSessions \/ Pass \/ UNCHANGED vars
  <2>1. UNCHANGED <<req, muteRows, muted, apart>>
    BY <1>4 DEF Refuse, Cleanup, Logout, DeleteExpiredSessions, Pass, vars, store, history
  <2> QED BY <2>1 DEF MuteInv, MuteInvAt, Toggling
<1>5. CASE Restart
  <2>1. \A name : Toggling(name)' = {}
    BY <1>5 DEF Restart, Toggling, Idle
  <2>2. muteRows' = muteRows
    BY <1>5 DEF Restart, store
  <2>3. \/ muted' = muteRows /\ apart' = {}
        \/ muted' = {} /\ apart' = muteRows
    BY <1>5 DEF Restart
  <2> QED BY <2>1, <2>2, <2>3 DEF MuteInv, MuteInvAt
<1> QED BY <1>1, <1>2, <1>3, <1>4, <1>5 DEF Next

\* The alerter mutes what the rows say (Handlers.ToggleMute), but in the middle of
\* a toggle, and for the names whose toggles met or that were not loaded.
THEOREM MutesAgreeAlways == Spec => []MutesAgree
PROOF
<1>1. MuteInv => MutesAgree
  BY DEF MuteInv, MuteInvAt, MutesAgree
<1> QED BY <1>1, CoreTypeCorrect, MuteInit, MuteStep, PTL DEF Spec

-----------------------------------------------------------------------------
\* The rate limit.

AttemptAges == 0..(2 * Window)
RecentAges == 0..(Window - 1)

LimiterType ==
  /\ attempts \in Seq(AttemptAges) /\ Len(attempts) <= Limit
  /\ failures \in 0..Threshold
  /\ lockedFor \in 0..Lockout
  /\ faults \in 0..MaxFaults
  /\ allowed \in Seq(RecentAges)
  /\ guesses \in 0..Threshold
  /\ lastGuess \in 0..Lockout
  /\ apart \subseteq Names

\* What was let through in the last window is what the record holds of it,
\* though the record is pruned now and then only, and holds more.
CountedInv == allowed = Recent(attempts, Window)

\* The record's failures are the guesses since the last login, and the lock
\* lasts as long as the last guess is recent.
LockInv ==
  /\ failures = guesses
  /\ guesses = Threshold => lockedFor + lastGuess >= Lockout

LimitInv == LimiterType /\ CountedInv /\ LockInv

LEMMA LimitAges ==
  /\ {Limit, Window, Threshold, Lockout} \subseteq Nat \ {0}
  /\ RecentAges \subseteq AttemptAges
  /\ 0 \in RecentAges /\ 0 \in AttemptAges
PROOF BY RestApiAssumption DEF RecentAges, AttemptAges

\* Pruning.
LEMMA RecentType ==
  ASSUME NEW ages \in Seq(AttemptAges)
  PROVE  /\ Recent(ages, Window) \in Seq(AttemptAges)
         /\ Recent(ages, Window) \in Seq(RecentAges)
         /\ Len(Recent(ages, Window)) <= Len(ages)
         /\ Len(ages) \in Nat /\ Len(Recent(ages, Window)) \in Nat
PROOF
<1> DEFINE kept == Recent(ages, Window)
<1>1. kept = Filter(ages, RecentAges)
  BY DEF Recent, RecentAges
<1>2. /\ kept \in Seq(AttemptAges) /\ Len(kept) <= Len(ages)
      /\ \A i \in 1..Len(kept) : kept[i] \in RecentAges
  BY <1>1, FilterType
<1> HIDE DEF kept
<1>3. kept \in [1..Len(kept) -> AttemptAges] /\ Len(kept) \in Nat /\ Len(ages) \in Nat
  BY <1>2, LenProperties
<1>4. kept \in [1..Len(kept) -> RecentAges]
  BY <1>2, <1>3
<1>5. kept \in Seq(RecentAges)
  BY <1>3, <1>4, SeqDef
<1> QED
  BY <1>2, <1>3, <1>5 DEF kept

LEMMA RecentTwice ==
  ASSUME NEW ages \in Seq(AttemptAges)
  PROVE  Recent(Recent(ages, Window), Window) = Recent(ages, Window)
PROOF BY FilterTwice DEF Recent

\* An attempt that is noted is recent.
LEMMA RecentAppend ==
  ASSUME NEW ages \in Seq(AttemptAges)
  PROVE  Recent(Append(ages, 0), Window) = Append(Recent(ages, Window), 0)
PROOF BY FilterAppend, LimitAges DEF Recent, RecentAges

\* Nothing recent where nothing of twice the window is.
LEMMA NoneRecent ==
  ASSUME NEW ages \in Seq(AttemptAges), Recent(ages, 2 * Window) = <<>>
  PROVE  Recent(ages, Window) = <<>>
PROOF
<1>1. 0..(Window - 1) \subseteq 0..(2 * Window - 1)
  BY LimitAges
<1>2. Filter(Filter(ages, 0..(2 * Window - 1)), 0..(Window - 1)) = Filter(ages, 0..(Window - 1))
  BY <1>1, FilterTwice
<1> QED
  BY <1>2, FilterEmpty DEF Recent

Aged(age) == IF age < 2 * Window THEN age + 1 ELSE age

LEMMA AgedType ==
  ASSUME NEW age \in AttemptAges
  PROVE  Aged(age) \in AttemptAges /\ (age \notin RecentAges => Aged(age) \notin RecentAges)
PROOF BY LimitAges DEF Aged, AttemptAges, RecentAges

LEMMA OlderType ==
  ASSUME NEW ages \in Seq(AttemptAges)
  PROVE  /\ Older(ages) \in Seq(AttemptAges)
         /\ Len(Older(ages)) = Len(ages)
         /\ \A i \in 1..Len(ages) : Older(ages)[i] = Aged(ages[i])
PROOF
<1>1. Len(ages) \in Nat /\ DOMAIN ages = 1..Len(ages)
  BY LenProperties
<1>2. \A i \in 1..Len(ages) : Older(ages)[i] = Aged(ages[i])
  BY <1>1 DEF Older, Aged
<1>3. \A i \in 1..Len(ages) : Aged(ages[i]) \in AttemptAges
  BY ElementOfSeq, AgedType
<1>4. Older(ages) \in [1..Len(ages) -> AttemptAges]
  BY <1>1, <1>3 DEF Older, Aged
<1> QED
  BY <1>1, <1>2, <1>4

LEMMA OlderAppend ==
  ASSUME NEW ages \in Seq(AttemptAges), NEW age \in AttemptAges
  PROVE  Older(Append(ages, age)) = Append(Older(ages), Aged(age))
PROOF
<1> DEFINE left == Older(Append(ages, age))
           right == Append(Older(ages), Aged(age))
<1>1. /\ Append(ages, age) \in Seq(AttemptAges) /\ Len(Append(ages, age)) = Len(ages) + 1
      /\ \A i \in 1..Len(ages) : Append(ages, age)[i] = ages[i]
      /\ Append(ages, age)[Len(ages) + 1] = age /\ Len(ages) \in Nat
  BY AppendProperties, LenProperties
<1>2. /\ left \in Seq(AttemptAges) /\ Len(left) = Len(ages) + 1
      /\ \A i \in 1..(Len(ages) + 1) : left[i] = Aged(Append(ages, age)[i])
  BY <1>1, OlderType
<1>3. /\ right \in Seq(AttemptAges) /\ Len(right) = Len(ages) + 1
      /\ \A i \in 1..Len(ages) : right[i] = Aged(ages[i])
      /\ right[Len(ages) + 1] = Aged(age)
  <2>1. /\ Older(ages) \in Seq(AttemptAges) /\ Len(Older(ages)) = Len(ages)
        /\ \A i \in 1..Len(ages) : Older(ages)[i] = Aged(ages[i])
        /\ Aged(age) \in AttemptAges
    BY OlderType, AgedType
  <2> QED
    BY <2>1, AppendProperties
<1> HIDE DEF left, right
<1>4. ASSUME NEW i \in 1..(Len(ages) + 1) PROVE left[i] = right[i]
  <2>1. CASE i \in 1..Len(ages)
    BY <1>1, <1>2, <1>3, <2>1
  <2>2. CASE i = Len(ages) + 1
    BY <1>1, <1>2, <1>3, <2>2
  <2> QED
    BY <1>1, <2>1, <2>2
<1>5. left = right
  BY <1>2, <1>3, <1>4, SeqEqual
<1> QED
  BY <1>5 DEF left, right

\* Pruning before and after time passes is pruning after.
LEMMA RecentOlder ==
  ASSUME NEW ages \in Seq(AttemptAges)
  PROVE  Recent(Older(Recent(ages, Window)), Window) = Recent(Older(ages), Window)
PROOF
<1> DEFINE Young(s) == Filter(s, RecentAges)
           P == {s \in Seq(AttemptAges) : Young(Older(Young(s))) = Young(Older(s))}
<1>1. <<>> \in P
  <2>1. <<>> \in Seq(AttemptAges) /\ Young(<<>>) = <<>>
    BY EmptySeq, FilterEmpty
  <2> QED
    BY <2>1
<1>2. ASSUME NEW s \in P, NEW age \in AttemptAges PROVE Append(s, age) \in P
  <2>1. Append(s, age) \in Seq(AttemptAges) /\ Young(s) \in Seq(AttemptAges)
    BY AppendProperties, FilterType
  <2>2. /\ Aged(age) \in AttemptAges /\ (age \notin RecentAges => Aged(age) \notin RecentAges)
        /\ Older(s) \in Seq(AttemptAges) /\ Older(Young(s)) \in Seq(AttemptAges)
    BY <2>1, AgedType, OlderType
  <2>3. Young(Older(Append(s, age))) =
          IF Aged(age) \in RecentAges THEN Append(Young(Older(s)), Aged(age)) ELSE Young(Older(s))
    <3>1. Older(Append(s, age)) = Append(Older(s), Aged(age))
      BY OlderAppend
    <3>2. Young(Append(Older(s), Aged(age))) =
            IF Aged(age) \in RecentAges THEN Append(Young(Older(s)), Aged(age)) ELSE Young(Older(s))
      BY <2>2, FilterAppend
    <3> QED
      BY <3>1, <3>2
  <2>4. CASE age \in RecentAges
    <3>1. Young(Append(s, age)) = Append(Young(s), age)
      BY <2>4, FilterAppend
    <3>2. Older(Append(Young(s), age)) = Append(Older(Young(s)), Aged(age))
      BY <2>1, OlderAppend
    <3>3. Young(Append(Older(Young(s)), Aged(age))) =
            IF Aged(age) \in RecentAges THEN Append(Young(Older(Young(s))), Aged(age))
            ELSE Young(Older(Young(s)))
      BY <2>2, FilterAppend
    <3>4. Young(Older(Young(s))) = Young(Older(s))
      OBVIOUS
    <3>5. Young(Older(Young(Append(s, age)))) = Young(Older(Append(s, age)))
      BY <2>3, <3>1, <3>2, <3>3, <3>4
    <3> QED
      BY <2>1, <3>5
  <2>5. CASE age \notin RecentAges
    <3>1. Young(Append(s, age)) = Young(s)
      BY <2>5, FilterAppend
    <3>2. Young(Older(Append(s, age))) = Young(Older(s))
      BY <2>2, <2>3, <2>5
    <3> QED
      BY <2>1, <3>1, <3>2
  <2> QED
    BY <2>4, <2>5
<1>3. P = Seq(AttemptAges)
  <2>1. P \in SUBSET Seq(AttemptAges)
    OBVIOUS
  <2> HIDE DEF P
  <2> QED
    BY <1>1, <1>2, <2>1, SeqSets
<1>4. Young(Older(Young(ages))) = Young(Older(ages))
  BY <1>3
<1> QED
  BY <1>4 DEF Recent, RecentAges

LEMMA LimitInit == Init => LimitInv
PROOF
<1> SUFFICES ASSUME Init PROVE LimitInv
  OBVIOUS
<1>1. attempts = <<>> /\ allowed = <<>> /\ Len(attempts) = 0 /\ Recent(<<>>, Window) = <<>>
  BY FilterEmpty DEF Init, Recent
<1>2. <<>> \in Seq(AttemptAges) /\ <<>> \in Seq(RecentAges)
  BY EmptySeq
<1>3. LimiterType
  BY <1>1, <1>2, RestApiAssumption DEF Init, LimiterType
<1>4. LockInv
  BY RestApiAssumption DEF Init, LockInv
<1> QED
  BY <1>1, <1>3, <1>4 DEF LimitInv, CountedInv

\* What a request that is no login, and no clock, leaves alone.
LEMMA LimitKept ==
  ASSUME LimitInv, UNCHANGED <<limiter, allowed, guesses, lastGuess>>,
         faults' \in 0..MaxFaults, apart' \subseteq Names
  PROVE  LimitInv'
PROOF
<1>1. UNCHANGED <<attempts, failures, lockedFor>>
  BY DEF limiter
<1> QED
  BY <1>1 DEF LimitInv, LimiterType, CountedInv, LockInv, Recent

LEMMA FaultType ==
  ASSUME faults \in 0..MaxFaults, Fault
  PROVE  faults' \in 0..MaxFaults
PROOF BY RestApiAssumption DEF Fault

LEMMA CountType ==
  ASSUME NEW n \in 0..Threshold
  PROVE  Count(n) \in 0..Threshold
PROOF BY LimitAges DEF Count

LEMMA LoginKeepsLimit ==
  ASSUME LimitInv, NEW r \in Requests, Login(r)
  PROVE  LimitInv'
PROOF
<1>0. LimiterType /\ CountedInv /\ LockInv /\ faults \in 0..MaxFaults /\ apart \subseteq Names
  BY DEF LimitInv, LimiterType
<1>1. CASE Allow(r)
  <2> DEFINE recent == Recent(attempts, Window)
  <2>1. /\ recent \in Seq(AttemptAges) /\ recent \in Seq(RecentAges)
        /\ Len(recent) \in Nat /\ Recent(recent, Window) = recent
    BY <1>0, RecentType, RecentTwice DEF LimiterType
  <2>2. /\ Len(recent) < Limit /\ attempts' = Append(recent, 0) /\ allowed' = Append(allowed, 0)
        /\ allowed = recent
        /\ UNCHANGED <<failures, lockedFor, faults, guesses, lastGuess, apart>>
    BY <1>0, <1>1 DEF Allow, MayTry, CountedInv
  <2> HIDE DEF recent
  <2>3. /\ attempts' \in Seq(AttemptAges) /\ Len(attempts') = Len(recent) + 1
        /\ allowed' \in Seq(RecentAges)
    BY <2>1, <2>2, LimitAges, AppendProperties
  <2>4. LimiterType'
    BY <1>0, <2>1, <2>2, <2>3, LimitAges DEF LimiterType
  <2>5. CountedInv'
    BY <2>1, <2>2, RecentAppend DEF CountedInv, Recent
  <2> QED
    BY <1>0, <2>2, <2>4, <2>5 DEF LimitInv, LockInv
<1>2. CASE RecordFailure(r)
  <2>1. /\ failures' = Count(failures) /\ guesses' = Count(guesses) /\ lastGuess' = 0
        /\ lockedFor' = (IF failures' >= Threshold THEN Lockout ELSE lockedFor)
        /\ UNCHANGED <<attempts, faults, allowed, apart>>
    BY <1>2 DEF RecordFailure
  <2>2. LimiterType'
    <3>1. failures' \in 0..Threshold /\ guesses' \in 0..Threshold
      BY <1>0, <2>1, CountType DEF LimiterType
    <3>2. lockedFor' \in 0..Lockout /\ lastGuess' \in 0..Lockout
      BY <1>0, <2>1, LimitAges DEF LimiterType
    <3> QED
      BY <1>0, <2>1, <3>1, <3>2 DEF LimiterType
  <2>3. LockInv'
    BY <1>0, <2>1, LimitAges DEF LockInv
  <2> QED
    BY <1>0, <2>1, <2>2, <2>3 DEF LimitInv, CountedInv, Recent
<1>3. CASE RecordSuccess(r)
  <2>1. /\ failures' = 0 /\ guesses' = 0 /\ lockedFor' = 0
        /\ UNCHANGED <<attempts, faults, allowed, lastGuess, apart>>
    BY <1>3 DEF RecordSuccess
  <2>2. LimiterType' /\ LockInv'
    BY <1>0, <2>1, LimitAges DEF LimiterType, LockInv
  <2> QED
    BY <1>0, <2>1, <2>2 DEF LimitInv, CountedInv, Recent
<1>4. CASE BadRequest(r) \/ CreateSession(r) \/ CreateSessionFails(r)
  <2>1. UNCHANGED <<limiter, allowed, guesses, lastGuess, apart>> /\ faults' \in 0..MaxFaults
    BY <1>0, <1>4, FaultType DEF BadRequest, CreateSession, CreateSessionFails, history
  <2> QED
    BY <1>0, <2>1, LimitKept
<1> QED
  BY <1>1, <1>2, <1>3, <1>4 DEF Login

LEMMA RefuseKeepsLimit ==
  ASSUME LimitInv, Refuse \/ Cleanup
  PROVE  LimitInv'
PROOF
<1>0. LimiterType /\ CountedInv /\ LockInv /\ attempts \in Seq(AttemptAges)
  BY DEF LimitInv, LimiterType
<1>1. UNCHANGED <<failures, lockedFor, faults, allowed, guesses, lastGuess, apart>>
  BY DEF Refuse, Cleanup, history
<1>2. /\ attempts' \in {attempts, Recent(attempts, Window), <<>>}
      /\ attempts' = <<>> => Recent(attempts, Window) = <<>>
  <2>1. CASE Refuse
    <3>1. attempts = <<>> => Recent(attempts, Window) = <<>>
      BY FilterEmpty DEF Recent
    <3> QED
      BY <2>1, <3>1 DEF Refuse
  <2>2. CASE Cleanup
    BY <1>0, <2>2, NoneRecent DEF Cleanup
  <2> QED
    BY <2>1, <2>2
<1>3. attempts' \in Seq(AttemptAges) /\ Len(attempts') <= Limit
  <2>1. Len(Recent(attempts, Window)) <= Limit /\ Len(<<>>) = 0 /\ 0 <= Limit
    BY <1>0, RecentType, LimitAges DEF LimiterType
  <2> QED
    BY <1>0, <1>2, <2>1, RecentType, EmptySeq DEF LimiterType
<1>4. Recent(attempts', Window) = Recent(attempts, Window)
  <2>1. Recent(<<>>, Window) = <<>>
    BY FilterEmpty DEF Recent
  <2> QED
    BY <1>0, <1>2, <2>1, RecentTwice
<1>5. LimiterType' /\ LockInv'
  BY <1>0, <1>1, <1>3 DEF LimiterType, LockInv
<1>6. CountedInv'
  BY <1>0, <1>1, <1>4 DEF CountedInv, Recent
<1> QED
  BY <1>5, <1>6 DEF LimitInv

LEMMA PassKeepsLimit ==
  ASSUME LimitInv, Pass
  PROVE  LimitInv'
PROOF
<1>0. LimiterType /\ CountedInv /\ LockInv /\ attempts \in Seq(AttemptAges)
  BY DEF LimitInv, LimiterType
<1>1. /\ attempts' = Older(attempts) /\ allowed' = Recent(Older(allowed), Window)
      /\ lockedFor' = (IF lockedFor > 0 THEN lockedFor - 1 ELSE 0)
      /\ lastGuess' = (IF lastGuess < Lockout THEN lastGuess + 1 ELSE Lockout)
      /\ UNCHANGED <<failures, faults, guesses, apart>>
  BY DEF Pass
<1>2. attempts' \in Seq(AttemptAges) /\ Len(attempts') = Len(attempts)
  BY <1>0, <1>1, OlderType
<1>3. allowed' = Recent(attempts', Window)
  BY <1>0, <1>1, RecentOlder DEF CountedInv
<1>4. allowed' \in Seq(RecentAges)
  BY <1>2, <1>3, RecentType
<1>5. LimiterType'
  BY <1>0, <1>1, <1>2, <1>4, LimitAges DEF LimiterType
<1>6. LockInv'
  BY <1>0, <1>1, LimitAges DEF LockInv, LimiterType
<1> QED
  BY <1>3, <1>5, <1>6 DEF LimitInv, CountedInv, Recent

LEMMA LimitStep == CoreType /\ LimitInv /\ [Next]_vars => LimitInv'
PROOF
<1> SUFFICES ASSUME CoreType, LimitInv, [Next]_vars PROVE LimitInv'
  OBVIOUS
<1>0. faults \in 0..MaxFaults /\ apart \subseteq Names
  BY DEF LimitInv, LimiterType
<1>1. ASSUME NEW r \in Requests, Middleware(r) PROVE LimitInv'
  <2>1. UNCHANGED <<limiter, allowed, guesses, lastGuess, apart>> /\ faults' \in 0..MaxFaults
    BY <1>0, <1>1, FaultType DEF Middleware, ReadSession, RenewSession, RenewSessionFails, history
  <2> QED
    BY <1>0, <2>1, LimitKept
<1>2. ASSUME NEW r \in Requests, ToggleMute(r) PROVE LimitInv'
  <2>1. UNCHANGED <<limiter, allowed, guesses, lastGuess>> /\ faults' \in 0..MaxFaults
    BY <1>0, <1>2, FaultType
       DEF ToggleMute, GetMutedNames, WriteMute, ToggleFails, TellAlerter, history
  <2>2. apart' \subseteq Names
    <3>1. CASE GetMutedNames(r)
      BY <1>0, <3>1, RequestFields DEF GetMutedNames
    <3>2. CASE TellAlerter(r)
      BY <1>0, <3>2 DEF TellAlerter
    <3>3. CASE WriteMute(r) \/ ToggleFails(r)
      BY <1>0, <3>3 DEF WriteMute, ToggleFails, history
    <3> QED
      BY <1>2, <3>1, <3>2, <3>3 DEF ToggleMute
  <2> QED
    BY <2>1, <2>2, LimitKept
<1>3. CASE Logout \/ DeleteExpiredSessions \/ UNCHANGED vars
  <2>1. UNCHANGED <<limiter, allowed, guesses, lastGuess, apart, faults>>
    BY <1>3 DEF Logout, DeleteExpiredSessions, vars, history
  <2> QED
    BY <1>0, <2>1, LimitKept
<1>4. CASE Restart
  <2>1. /\ attempts' = <<>> /\ failures' = 0 /\ lockedFor' = 0 /\ allowed' = <<>> /\ guesses' = 0
        /\ lastGuess' = lastGuess /\ apart' \in {{}, muteRows} /\ faults' \in 0..MaxFaults
    BY <1>0, <1>4, FaultType DEF Restart
  <2>2. <<>> \in Seq(AttemptAges) /\ <<>> \in Seq(RecentAges) /\ Len(<<>>) = 0
        /\ Recent(<<>>, Window) = <<>>
    BY EmptySeq, FilterEmpty DEF Recent
  <2>3. LimiterType' /\ LockInv'
    BY <2>1, <2>2, LimitAges DEF LimiterType, LockInv, LimitInv, CoreType
  <2> QED
    BY <2>1, <2>2, <2>3 DEF LimitInv, CountedInv, Recent
<1> QED
  BY <1>1, <1>2, <1>3, <1>4, LoginKeepsLimit, RefuseKeepsLimit, PassKeepsLimit DEF Next

\* Every variable keeps its type, and the record of attempts its bound.
THEOREM TypeCorrect == Spec => []TypeOK
PROOF
<1>1. CoreType /\ EndedInv /\ LimitInv => TypeOK
  BY DEF CoreType, EndedInv, LimitInv, LimiterType, TypeOK, AttemptAges, RecentAges
<1> QED
  BY <1>1, CoreTypeCorrect, CoreTypeInit, CoreTypeStep, EndedInit, EndedStep, LimitInit, LimitStep,
     PTL DEF Spec

\* No window sees more than Limit attempts, however the record is pruned; and
\* after Threshold failures none is let through until Lockout has passed.
THEOREM RateAlwaysLimited == Spec => []RateLimited
PROOF
<1>1. LimitInv => RateLimited
  <2> SUFFICES ASSUME LimitInv PROVE RateLimited
    OBVIOUS
  <2>1. Len(allowed) <= Limit
    <3>1. Len(Recent(attempts, Window)) <= Len(attempts) /\ Len(attempts) <= Limit
          /\ Len(attempts) \in Nat /\ Len(Recent(attempts, Window)) \in Nat
      BY RecentType DEF LimitInv, LimiterType
    <3> QED
      BY <3>1, LimitAges DEF LimitInv, CountedInv
  <2>2. guesses = Threshold /\ lastGuess < Lockout => ~MayTry
    BY LimitAges DEF LimitInv, LimiterType, LockInv, MayTry
  <2> QED
    BY <2>1, <2>2 DEF RateLimited
<1> QED
  BY <1>1, CoreTypeCorrect, LimitInit, LimitStep, PTL DEF Spec

=============================================================================
