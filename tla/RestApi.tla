-------------------------------- MODULE RestApi --------------------------------
(***************************************************************************)
(* The requests of the REST API that keep state of their own: login with   *)
(* its rate limit (internal/api/auth.go), the sessions and their sliding   *)
(* expiry (internal/api/middleware.go), logout, and the muting of alerts   *)
(* (Handlers.ToggleMute), whose rows in the database are kept a second     *)
(* time in the memory of the alerter.  Every request has a goroutine of    *)
(* its own; each call of the store, and each method of the rate limiter,   *)
(* which has a mutex, is a step.                                           *)
(*                                                                         *)
(* All logins come from one address.  Whether a password is right is not   *)
(* modelled: any check may go either way.  A session is a model value, and *)
(* its row says how many units of time it has left.                        *)
(***************************************************************************)
EXTENDS Integers, Sequences, FiniteSets, SeqFilter

CONSTANTS
  Requests,     \* bound: the requests that may be under way at a time
  Tokens,       \* bound: the sessions there are in all
  Names,        \* of monitors and agents
  Limit,        \* rateLimitPerMinute
  Window,       \* rateLimitWindow, in units of time
  Threshold,    \* lockoutThreshold
  Lockout,      \* lockoutDuration
  SessionTTL,   \* sessionTTL
  MaxFaults     \* bound: how many store calls fail and restarts there are, in all

ASSUME RestApiAssumption ==
  /\ IsFiniteSet(Requests) /\ IsFiniteSet(Tokens)
  /\ {Limit, Window, Threshold, Lockout, SessionTTL} \subseteq Nat \ {0}
  /\ MaxFaults \in Nat

VARIABLES
  req,        \* where the handler of each request is
  attempts,   \* loginRecord.attempts: the ages of the attempts
  failures,   \* loginRecord.failures, which is counted up to Threshold
  lockedFor,  \* the time left until loginRecord.lockedUntil
  sessions,   \* SQLite: the time that each session has left, or Gone
  issued,     \* history: the sessions there have been
  muteRows,   \* SQLite: the rows of alert_mutes
  muted,      \* the names that the alerter takes to be muted
  faults,     \* how much of MaxFaults is spent
  allowed,    \* history: the ages of the attempts that were let through
  guesses,    \* history: failed checks since the last login, up to Threshold
  lastGuess,  \* history: the age of the last failed check
  ended,      \* history: the sessions that were logged out or ran out
  apart       \* history: the names whose toggles overlapped or that were not loaded

limiter == <<attempts, failures, lockedFor>>
store == <<sessions, muteRows>>
history == <<issued, allowed, guesses, lastGuess, ended, apart>>
vars == <<req, limiter, store, muted, faults, history>>

Gone == -2
Expired == -1

\* What the handler does next: "check" the password, "create" the session;
\* "renew" the session that the middleware found valid, to go on with the
\* handler; read the rows for a "toggle", "write" the row, tell the "memory".
\* solo says that no other toggle of the name has been under way meanwhile.
RequestStates ==
  [at : {"idle", "check", "create"}]
  \cup [at : {"renew"}, token : Tokens, for : Names \cup {"other"}]
  \cup [at : {"toggle"}, name : Names]
  \cup [at : {"write", "memory"}, name : Names, mute : BOOLEAN, solo : BOOLEAN]

Idle == [at |-> "idle"]

\* A toggle that has read the rows.
Toggle(at, name, mute, solo) == [at |-> at, name |-> name, mute |-> mute, solo |-> solo]

\* The same toggle, not the only one any more; and with its row written.
Met(toggle) == Toggle(toggle.at, toggle.name, toggle.mute, FALSE)
Written(toggle) == Toggle("memory", toggle.name, toggle.mute, toggle.solo)

TypeOK ==
  /\ req \in [Requests -> RequestStates]
  /\ attempts \in Seq(0..(2 * Window)) /\ Len(attempts) <= Limit
  /\ failures \in 0..Threshold
  /\ lockedFor \in 0..Lockout
  /\ sessions \in [Tokens -> Gone..SessionTTL]
  /\ muteRows \subseteq Names
  /\ muted \subseteq Names
  /\ faults \in 0..MaxFaults
  /\ issued \subseteq Tokens
  /\ allowed \in Seq(0..(Window - 1))
  /\ guesses \in 0..Threshold
  /\ lastGuess \in 0..Lockout
  /\ ended \subseteq issued
  /\ apart \subseteq Names

Init ==
  /\ req = [r \in Requests |-> Idle]
  /\ attempts = <<>>
  /\ failures = 0
  /\ lockedFor = 0
  /\ sessions = [t \in Tokens |-> Gone]
  /\ muteRows \in SUBSET Names
  /\ muted = muteRows
  /\ faults = 0
  /\ issued = {}
  /\ allowed = <<>>
  /\ guesses = 0
  /\ lastGuess = Lockout
  /\ ended = {}
  /\ apart = {}

-----------------------------------------------------------------------------

Fault == faults < MaxFaults /\ faults' = faults + 1

Step(r, from, to) ==
  /\ req[r].at = from
  /\ req' = [req EXCEPT ![r] = to]

-----------------------------------------------------------------------------
\* Login.  LoginRateLimiter keeps a record only to say what an empty one says,
\* so that there being none is not told apart.

\* Attempts whose age is less than the window count.
Recent(ages, window) == Filter(ages, 0..(window - 1))

MayTry == lockedFor = 0 /\ Len(Recent(attempts, Window)) < Limit

\* Mutant: old attempts do not count, but are kept.
AllowKeepsOld(r) ==
  /\ MayTry
  /\ Step(r, "idle", [at |-> "check"])
  /\ attempts' = Append(attempts, 0)
  /\ allowed' = Append(allowed, 0)
  /\ UNCHANGED <<failures, lockedFor, store, muted, faults, issued, guesses, lastGuess, ended, apart>>

\* Allow: the request may go on.
Allow(r) ==
  /\ MayTry
  /\ Step(r, "idle", [at |-> "check"])
  /\ attempts' = Append(Recent(attempts, Window), 0)
  /\ allowed' = Append(allowed, 0)
  /\ UNCHANGED <<failures, lockedFor, store, muted, faults, issued, guesses, lastGuess, ended, apart>>

\* Too many attempts: 429.  When there is no lock, old attempts are dropped.
Refuse ==
  /\ ~MayTry
  /\ attempts' = IF lockedFor > 0 THEN attempts ELSE Recent(attempts, Window)
  /\ UNCHANGED <<req, failures, lockedFor, store, muted, faults, history>>

\* The body cannot be decoded: 400.
BadRequest(r) ==
  /\ Step(r, "check", Idle)
  /\ UNCHANGED <<limiter, store, muted, faults, history>>

Count(n) == IF n < Threshold THEN n + 1 ELSE Threshold

\* Mutant: the lock is set at the threshold, and not again after it.
RecordFailureOnce(r) ==
  /\ Step(r, "check", Idle)
  /\ failures' = Count(failures)
  /\ lockedFor' = IF failures = Threshold - 1 THEN Lockout ELSE lockedFor
  /\ guesses' = Count(guesses)
  /\ lastGuess' = 0
  /\ UNCHANGED <<attempts, store, muted, faults, issued, allowed, ended, apart>>

\* There is no such user, or the password is wrong, or the store fails: 401.
RecordFailure(r) ==
  /\ Step(r, "check", Idle)
  /\ failures' = Count(failures)
  /\ lockedFor' = IF failures' >= Threshold THEN Lockout ELSE lockedFor
  /\ guesses' = Count(guesses)
  /\ lastGuess' = 0
  /\ UNCHANGED <<attempts, store, muted, faults, issued, allowed, ended, apart>>

\* The password is right.  (Bound: there is a session left to create.)
RecordSuccess(r) ==
  /\ Cardinality({q \in Requests : req[q].at = "create"}) < Cardinality(Tokens \ issued)
  /\ Step(r, "check", [at |-> "create"])
  /\ failures' = 0
  /\ lockedFor' = 0
  /\ guesses' = 0
  /\ UNCHANGED <<attempts, store, muted, faults, issued, allowed, lastGuess, ended, apart>>

\* A token is drawn and its session created.
CreateSession(r) ==
  /\ Step(r, "create", Idle)
  /\ \E t \in Tokens \ issued :
       /\ sessions' = [sessions EXCEPT ![t] = SessionTTL]
       /\ issued' = issued \cup {t}
  /\ UNCHANGED <<limiter, muteRows, muted, faults, allowed, guesses, lastGuess, ended, apart>>

CreateSessionFails(r) ==
  /\ Step(r, "create", Idle)
  /\ Fault
  /\ UNCHANGED <<limiter, store, muted, history>>

\* Cleanup, which an hourly ticker calls, drops the record.
Cleanup ==
  /\ lockedFor = 0
  /\ failures = 0
  /\ Recent(attempts, 2 * Window) = <<>>
  /\ attempts' = <<>>
  /\ UNCHANGED <<req, failures, lockedFor, store, muted, faults, history>>

-----------------------------------------------------------------------------
\* Sessions.

\* NewAuthMiddleware: the session is there and has not expired.  The handler
\* after it is ToggleMute or another one, which does not matter here.
ReadSession(r) ==
  \E t \in issued, for \in Names \cup {"other"} :
    /\ sessions[t] > Expired
    /\ Step(r, "idle", [at |-> "renew", token |-> t, for |-> for])
    /\ UNCHANGED <<limiter, store, muted, faults, history>>

\* The handler that the middleware goes on to.
Handler(for) == IF for = "other" THEN Idle ELSE [at |-> "toggle", name |-> for]

\* Mutant: a session that is not there any more is inserted.
RenewSessionInserts(r) ==
  /\ req[r].at = "renew"
  /\ Step(r, "renew", Handler(req[r].for))
  /\ sessions' = [sessions EXCEPT ![req[r].token] = SessionTTL]
  /\ UNCHANGED <<limiter, muteRows, muted, faults, history>>

\* RenewSession is an UPDATE: it renews the row if there is one.
RenewSession(r) ==
  /\ req[r].at = "renew"
  /\ Step(r, "renew", Handler(req[r].for))
  /\ sessions' = [sessions EXCEPT ![req[r].token] = IF @ = Gone THEN Gone ELSE SessionTTL]
  /\ UNCHANGED <<limiter, muteRows, muted, faults, history>>

\* It fails, and the request goes on.
RenewSessionFails(r) ==
  /\ req[r].at = "renew"
  /\ Step(r, "renew", Handler(req[r].for))
  /\ Fault
  /\ UNCHANGED <<limiter, store, muted, history>>

\* Logout deletes the row of the cookie; an error is not looked at.
Logout ==
  \E t \in issued :
    /\ sessions[t] # Gone
    /\ sessions' = [sessions EXCEPT ![t] = Gone]
    /\ ended' = ended \cup {t}
    /\ UNCHANGED <<req, limiter, muteRows, muted, faults, issued, allowed, guesses, lastGuess, apart>>

\* The hourly ticker deletes the rows that have expired.
DeleteExpiredSessions ==
  /\ \E t \in Tokens : sessions[t] = Expired
  /\ sessions' = [t \in Tokens |-> IF sessions[t] = Expired THEN Gone ELSE sessions[t]]
  /\ UNCHANGED <<req, limiter, muteRows, muted, faults, history>>

-----------------------------------------------------------------------------
\* Mutes.

Toggling(name) == {r \in Requests : req[r].at \in {"write", "memory"} /\ req[r].name = name}

\* ToggleMute reads the rows, and is going to do the opposite.
GetMutedNames(r) ==
  /\ req[r].at = "toggle"
  /\ LET name == req[r].name
         others == Toggling(name)
     IN /\ req' = [q \in Requests |->
                     IF q = r THEN Toggle("write", name, name \notin muteRows, others = {})
                     ELSE IF q \in others THEN Met(req[q]) ELSE req[q]]
        /\ apart' = IF others = {} THEN apart ELSE apart \cup {name}
  /\ UNCHANGED <<limiter, store, muted, faults, issued, allowed, guesses, lastGuess, ended>>

\* SetMute or RemoveMute: the row is there, or is not, whatever was before.
WriteMute(r) ==
  /\ req[r].at = "write"
  /\ Step(r, "write", Written(req[r]))
  /\ muteRows' = IF req[r].mute THEN muteRows \cup {req[r].name} ELSE muteRows \ {req[r].name}
  /\ UNCHANGED <<limiter, sessions, muted, faults, history>>

\* Mutant: the memory is told although the row could not be written.
ToggleFailsLate(r) ==
  /\ req[r].at \in {"toggle", "write"}
  /\ req' = [req EXCEPT ![r] = IF req[r].at = "toggle" THEN Idle ELSE Written(@)]
  /\ Fault
  /\ UNCHANGED <<limiter, store, muted, history>>

\* The rows cannot be read or written: 500.
ToggleFails(r) ==
  /\ req[r].at \in {"toggle", "write"}
  /\ req' = [req EXCEPT ![r] = Idle]
  /\ Fault
  /\ UNCHANGED <<limiter, store, muted, history>>

\* MuteAlerts or UnmuteAlerts.  A toggle that met no other puts right what an
\* earlier one left.
TellAlerter(r) ==
  /\ req[r].at = "memory"
  /\ Step(r, "memory", Idle)
  /\ muted' = IF req[r].mute THEN muted \cup {req[r].name} ELSE muted \ {req[r].name}
  /\ apart' = IF req[r].solo THEN apart \ {req[r].name} ELSE apart
  /\ UNCHANGED <<limiter, store, faults, issued, allowed, guesses, lastGuess, ended>>

-----------------------------------------------------------------------------
\* The process and the clock.

\* What is in memory is lost: the requests, the limiter's records and the muted
\* names.  Hub.Run reads these again from the rows, or goes on without.
Restart ==
  /\ Fault
  /\ req' = [r \in Requests |-> Idle]
  /\ attempts' = <<>> /\ failures' = 0 /\ lockedFor' = 0
  /\ allowed' = <<>> /\ guesses' = 0 /\ UNCHANGED lastGuess
  /\ \/ muted' = muteRows /\ apart' = {}
     \/ muted' = {} /\ apart' = muteRows
  /\ ended' = ended \cup {t \in Tokens : sessions[t] = Expired}
  /\ UNCHANGED <<store, issued>>

\* A unit of time passes.  A session that runs out has ended, unless a request
\* that found it valid is still to renew it.
Older(ages) == [i \in DOMAIN ages |-> IF ages[i] < 2 * Window THEN ages[i] + 1 ELSE ages[i]]

Pass ==
  LET over == {t \in Tokens : /\ sessions[t] = 0
                              /\ \A r \in Requests : req[r].at = "renew" => req[r].token # t}
  IN /\ attempts' = Older(attempts)
     /\ allowed' = Recent(Older(allowed), Window)
     /\ lockedFor' = IF lockedFor > 0 THEN lockedFor - 1 ELSE 0
     /\ lastGuess' = IF lastGuess < Lockout THEN lastGuess + 1 ELSE Lockout
     /\ sessions' = [t \in Tokens |-> IF sessions[t] >= 0 THEN sessions[t] - 1 ELSE sessions[t]]
     /\ ended' = ended \cup over
     /\ UNCHANGED <<req, failures, muteRows, muted, faults, issued, guesses, apart>>

Login(r) ==
  \/ Allow(r) \/ BadRequest(r) \/ RecordFailure(r) \/ RecordSuccess(r)
  \/ CreateSession(r) \/ CreateSessionFails(r)

Middleware(r) == ReadSession(r) \/ RenewSession(r) \/ RenewSessionFails(r)

ToggleMute(r) == GetMutedNames(r) \/ WriteMute(r) \/ ToggleFails(r) \/ TellAlerter(r)

Next ==
  \/ \E r \in Requests : Login(r) \/ Middleware(r) \/ ToggleMute(r)
  \/ Refuse \/ Cleanup \/ Logout \/ DeleteExpiredSessions \/ Restart \/ Pass

Spec == Init /\ [][Next]_vars

-----------------------------------------------------------------------------
\* Safety.

\* In any window there are at most Limit attempts, whatever was cleaned up; and
\* after Threshold failed checks without a login none is let through until
\* Lockout has passed, although checks under way end in any order.
RateLimited ==
  /\ Len(allowed) <= Limit
  /\ guesses = Threshold /\ lastGuess < Lockout => ~MayTry

\* A session that was logged out, or ran out while no request was about to renew
\* it, never lets a request through again, whatever was under way meanwhile.
EndedStaysEnded == \A t \in ended : sessions[t] \in {Gone, Expired}

\* The alerter mutes the names that the rows say, but between the two writes of
\* a toggle; only toggles that overlap, or rows that could not be loaded, set
\* the two apart, until the next toggle of the name or restart.
MutesAgree ==
  \A name \in Names \ apart :
    (\A r \in Toggling(name) : req[r].at # "memory") => (name \in muteRows <=> name \in muted)

=============================================================================
