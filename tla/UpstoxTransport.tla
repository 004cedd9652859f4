--------------------------- MODULE UpstoxTransport ---------------------------
(***************************************************************************)
(* The authenticated HTTP client of the Upstox broker under concurrent     *)
(* calls (brokers/providers/upstox/auth): the breaker check, the attempts  *)
(* with their rate-limit wait, the proactive token refresh before a        *)
(* request and the refresh after a 401, the single-flight TOTP login with  *)
(* its cooldown, and what each outcome means to the retry loop and to the  *)
(* circuit breaker.  TOTP mode without its fallbacks, the interactive      *)
(* browser login and a refresh token.                                      *)
(*                                                                         *)
(* A token is known by what the code asks of it: whether the manager still *)
(* has its snapshot, how near its expiry is, and whether a 401 was already *)
(* seen for it.  The broker's answers are any the code tells apart.        *)
(***************************************************************************)
EXTENDS CircuitBreaker, FiniteSets

CONSTANTS
    Threads,       \* threads that call the broker
    Calls,         \* thread -> the categories of the URLs it calls
    Scheduler,     \* the threads of these that run the daily login
    BreakerOf,     \* category -> the circuit breaker given to the client for it
    MaxRetries     \* max_retries of the client

Kinds == {"read", "write"}
Breakers == {BreakerOf[k] : k \in Kinds}

ASSUME TransportAssumption ==
    /\ MaxRetries \in Nat /\ DOMAIN BreakerOf = Kinds
    /\ Calls \in [Threads -> SUBSET Kinds] /\ Scheduler \subseteq Threads

VARIABLES
    pc,            \* where each thread is
    kind,          \* the category of the URL it calls
    attempt,       \* attempt of the retry loop
    refreshed,     \* auth_refreshed: the call has used its one token refresh
    after,         \* where a token refresh returns to
    breaker,       \* the circuit breakers
    snapshot,      \* whether the token manager's _state is set
    age,           \* expiry of the holder's token: fresh, near, over
    seen401,       \* _last_401_token is the current token
    refreshDone,   \* the _refresh_done event
    cooling,       \* TotpCooldownGuard: the cooldown has not elapsed
    sent,          \* history: requests of the running call that went out, up to two
    logins,        \* history: TOTP logins since the cooldown last ended
    streak,        \* history: breaker -> failures since its last success
    probes         \* history: breaker -> successes since it began to probe

callVars == <<kind, attempt, refreshed, after>>
tokenVars == <<snapshot, age, seen401>>
breakerVars == <<breaker, streak, probes>>
loginVars == <<refreshDone, cooling, logins>>
vars == <<pc, callVars, breakerVars, tokenVars, loginVars, sent>>

-----------------------------------------------------------------------------
Init ==
    /\ pc = [t \in Threads |-> "idle"]
    /\ kind = [t \in Threads |-> "read"]
    /\ attempt = [t \in Threads |-> 0]
    /\ refreshed = [t \in Threads |-> FALSE]
    /\ after = [t \in Threads |-> "none"]
    /\ breaker = [k \in Breakers |-> NewBreaker]
    /\ snapshot = TRUE /\ age = "fresh" /\ seen401 = FALSE
    /\ refreshDone = TRUE /\ cooling = FALSE
    /\ sent = [t \in Threads |-> 0]
    /\ logins = 0
    /\ streak = [k \in Breakers |-> 0]
    /\ probes = [k \in Breakers |-> 0]

Goto(t, place) == pc' = [pc EXCEPT ![t] = place]

\* The thread's call is over: its locals are gone.
Leave(t) ==
    /\ Goto(t, "idle")
    /\ kind' = [kind EXCEPT ![t] = "read"]
    /\ attempt' = [attempt EXCEPT ![t] = 0]
    /\ refreshed' = [refreshed EXCEPT ![t] = FALSE]
    /\ after' = [after EXCEPT ![t] = "none"]
    /\ sent' = [sent EXCEPT ![t] = 0]

\* _request around _execute_request: on_success; on_failure for an error
\* without a status code or with a 5xx; nothing for any other.
Succeed(t) ==
    LET k == BreakerOf[kind[t]] IN
    /\ Leave(t)
    /\ breaker' = [breaker EXCEPT ![k] = OnSuccess(@)]
    /\ streak' = [streak EXCEPT ![k] = 0]
    /\ probes' = [probes EXCEPT ![k] =
                    IF breaker[k].state = "HALF_OPEN" THEN UpTo(SuccessThreshold, @ + 1) ELSE 0]

Fail(t) ==
    LET k == BreakerOf[kind[t]] IN
    /\ Leave(t)
    /\ breaker' = [breaker EXCEPT ![k] = OnFailure(@)]
    /\ streak' = [streak EXCEPT ![k] = UpTo(FailureThreshold, @ + 1)]
    /\ probes' = [probes EXCEPT ![k] = 0]

Refuse(t) == Leave(t) /\ UNCHANGED breakerVars

-----------------------------------------------------------------------------
(* A call.                                                                 *)

\* _request: reading the breaker's state may start its probing phase.
Begin(t, k) ==
    LET cb == BreakerOf[k]
        b == Observed(breaker[cb])
    IN
    /\ pc[t] = "idle"
    /\ b.state # "OPEN"
    /\ breaker' = [breaker EXCEPT ![cb] = b]
    /\ probes' = [probes EXCEPT ![cb] = IF b = breaker[cb] THEN @ ELSE 0]
    /\ Goto(t, "limit")
    /\ kind' = [kind EXCEPT ![t] = k]
    /\ UNCHANGED <<attempt, refreshed, after, tokenVars, loginVars, sent, streak>>

\* The rate limiter times out: an error without a status code.
RateLimitTimesOut(t) ==
    /\ pc[t] = "limit"
    /\ Fail(t)
    /\ UNCHANGED <<tokenVars, loginVars>>

Sent(t) ==
    /\ Goto(t, "sent")
    /\ after' = [after EXCEPT ![t] = "none"]
    /\ sent' = [sent EXCEPT ![t] = UpTo(2, @ + 1)]

\* The rate limiter lets the attempt through; _headers -> bearer_token ->
\* ensure_valid; the request goes out unless the token is to be refreshed.
StartAttempt(t) ==
    /\ pc[t] = "limit"
    /\ IF age = "fresh"
       THEN Sent(t)
       ELSE /\ Goto(t, "refresh")
            /\ after' = [after EXCEPT ![t] = "sent"]
            /\ UNCHANGED sent
    /\ UNCHANGED <<kind, attempt, refreshed, breakerVars, tokenVars, loginVars>>

\* A bug's shape: order writes are retried like every other call.
TotalAttemptsForAll(t) == MaxRetries + 2

\* _resolve_total_attempts
TotalAttempts(t) == IF kind[t] = "write" THEN 1 ELSE MaxRetries + 2

\* A bug's shape: a retry that does not use up an attempt.
AgainSameAttempt(t) ==
    IF attempt[t] + 1 < TotalAttempts(t)
    THEN Goto(t, "limit") /\ UNCHANGED <<callVars, breakerVars, sent>>
    ELSE Fail(t)

\* The loop's continue; falling out of it raises an error without a status.
Again(t) ==
    IF attempt[t] + 1 < TotalAttempts(t)
    THEN /\ Goto(t, "limit")
         /\ attempt' = [attempt EXCEPT ![t] = @ + 1]
         /\ UNCHANGED <<kind, refreshed, after, breakerVars, sent>>
    ELSE Fail(t)

\* 2xx, its body a success.
Answered(t) ==
    /\ pc[t] = "sent"
    /\ Succeed(t)
    /\ UNCHANGED <<tokenVars, loginVars>>

\* An answer that ends the call and leaves the breaker alone: 423 or another
\* 4xx, a 2xx whose body says failure, a 429 on the last attempt, or a 401
\* that no refresh helps.
Rejected(t) ==
    /\ pc[t] = "sent"
    /\ Refuse(t)
    /\ UNCHANGED <<tokenVars, loginVars>>

\* _parse_success_body cannot decode a 2xx: an error without a status, at once.
Garbled(t) ==
    /\ pc[t] = "sent"
    /\ Fail(t)
    /\ UNCHANGED <<tokenVars, loginVars>>

\* A transport error, a 5xx or a 429: retried while attempts are left.
Faulted(t) ==
    /\ pc[t] = "sent"
    /\ Again(t)
    /\ UNCHANGED <<tokenVars, loginVars>>

-----------------------------------------------------------------------------
(* A 401 or 403: _handle_auth_failure and try_refresh_on_401.              *)

\* First 401 of a token that has not expired: try the same token once more.
SoftRetry(t) ==
    /\ pc[t] = "sent" /\ ~refreshed[t]
    /\ snapshot /\ age # "over" /\ ~seen401
    /\ seen401' = TRUE
    /\ Goto(t, "again")
    /\ UNCHANGED <<callVars, breakerVars, snapshot, age, loginVars, sent>>

\* Otherwise forget the snapshot and log in again.
HardRefresh(t) ==
    /\ pc[t] = "sent" /\ ~refreshed[t]
    /\ ~ (snapshot /\ age # "over" /\ ~seen401)
    /\ snapshot' = FALSE /\ seen401' = FALSE
    /\ after' = [after EXCEPT ![t] = "again"]
    /\ Goto(t, "refresh")
    /\ UNCHANGED <<kind, attempt, refreshed, breakerVars, age, loginVars, sent>>

\* A token is there: the loop goes on with auth_refreshed set.
RetryWithToken(t) ==
    /\ pc[t] = "again"
    /\ IF attempt[t] + 1 < TotalAttempts(t)
       THEN /\ Goto(t, "limit")
            /\ attempt' = [attempt EXCEPT ![t] = @ + 1]
            /\ refreshed' = [refreshed EXCEPT ![t] = TRUE]
            /\ UNCHANGED <<kind, after, breakerVars, sent>>
       ELSE Fail(t)
    /\ UNCHANGED <<tokenVars, loginVars>>

-----------------------------------------------------------------------------
(* The single-flight login: _run_exclusive_refresh and bootstrap_totp.     *)

\* The scheduler's daily refresh, when the token is missing or near expiry.
ScheduledRefresh(t) ==
    /\ pc[t] = "idle" /\ t \in Scheduler
    /\ ~snapshot \/ age # "fresh"
    /\ after' = [after EXCEPT ![t] = "idle"]
    /\ Goto(t, "refresh")
    /\ UNCHANGED <<kind, attempt, refreshed, breakerVars, tokenVars, loginVars, sent>>

\* A bug's shape: every thread that wants a refresh performs it.
LeadsAlways(t) == TRUE

Leads(t) == refreshDone

ClaimRefresh(t) ==
    /\ pc[t] = "refresh"
    /\ Goto(t, IF Leads(t) THEN "check" ELSE "wait")
    /\ refreshDone' = FALSE
    /\ UNCHANGED <<callVars, breakerVars, tokenVars, cooling, logins, sent>>

\* A refresh is over; the thread goes on where it came from.
Resume(t) ==
    \/ after[t] = "idle" /\ Refuse(t)
    \/ after[t] = "sent" /\ Sent(t) /\ UNCHANGED <<kind, attempt, refreshed, breakerVars>>
    \/ /\ after[t] = "again"
       /\ Goto(t, "again")
       /\ after' = [after EXCEPT ![t] = "none"]
       /\ UNCHANGED <<kind, attempt, refreshed, breakerVars, sent>>

\* A follower waits for the leader, at most 30 seconds, and then uses the
\* token that is there, whatever became of the login.
WaitEnds(t) ==
    /\ pc[t] = "wait"
    /\ Resume(t)
    /\ UNCHANGED <<tokenVars, loginVars>>

\* generate_token: check_allowed, then record_attempt, then the login.
CheckAllowed(t) ==
    /\ pc[t] = "check" /\ ~cooling
    /\ Goto(t, "record")
    /\ UNCHANGED <<callVars, breakerVars, tokenVars, loginVars, sent>>

RecordAttempt(t) ==
    /\ pc[t] = "record"
    /\ cooling' = TRUE
    /\ logins' = logins + 1
    /\ Goto(t, "login")
    /\ UNCHANGED <<callVars, breakerVars, tokenVars, refreshDone, sent>>

LoggedIn(t) ==
    /\ pc[t] = "login"
    /\ cooling' = TRUE /\ refreshDone' = TRUE
    /\ snapshot' = TRUE /\ age' = "fresh" /\ seen401' = FALSE
    /\ Resume(t)
    /\ UNCHANGED logins

\* A bug's shape: the event is set only after a successful login.
SignalledOnSuccess == FALSE

\* The finally clause of the leader.
Signalled == TRUE

\* The login ends before its attempt is recorded, because the cooldown refuses
\* it or the configuration or the library is missing, or the broker refuses it.
\* Before a request the error ends the call without a status; after a 401 the
\* 401 is raised.
LoginFails(t) ==
    /\ pc[t] \in {"check", "login"}
    /\ refreshDone' = Signalled
    /\ IF after[t] = "sent" THEN Fail(t) ELSE Refuse(t)
    /\ UNCHANGED <<tokenVars, cooling, logins>>

-----------------------------------------------------------------------------
(* Time.                                                                   *)

TokenAges ==
    /\ age # "over"
    /\ age' = IF age = "fresh" THEN "near" ELSE "over"
    /\ UNCHANGED <<pc, callVars, breakerVars, snapshot, seen401, loginVars, sent>>

\* The cooldown is far longer than a login.
CooldownOver ==
    /\ cooling /\ \A t \in Threads : pc[t] # "login"
    /\ cooling' = FALSE /\ logins' = 0
    /\ UNCHANGED <<pc, callVars, breakerVars, tokenVars, refreshDone, sent>>

OpenDurationOver(k) ==
    /\ breaker[k].state = "OPEN" /\ ~breaker[k].elapsed
    /\ breaker' = [breaker EXCEPT ![k].elapsed = TRUE]
    /\ UNCHANGED <<pc, callVars, streak, probes, tokenVars, loginVars, sent>>

CallStep(t) ==
    \/ RateLimitTimesOut(t) \/ StartAttempt(t)
    \/ Answered(t) \/ Rejected(t) \/ Garbled(t) \/ Faulted(t)
    \/ SoftRetry(t) \/ HardRefresh(t) \/ RetryWithToken(t)
    \/ ClaimRefresh(t) \/ WaitEnds(t)
    \/ CheckAllowed(t) \/ RecordAttempt(t) \/ LoggedIn(t) \/ LoginFails(t)

Next ==
    \/ \E t \in Threads :
          (\E k \in Calls[t] : Begin(t, k)) \/ ScheduledRefresh(t) \/ CallStep(t)
    \/ TokenAges \/ CooldownOver
    \/ \E k \in Breakers : OpenDurationOver(k)

Spec == Init /\ [][Next]_vars

\* A started call is scheduled until it ends: every wait in it has a timeout
\* (the rate limiter's, the request's 15 s, the follower's 30 s).
FairSpec == Spec /\ \A t \in Threads : WF_vars(CallStep(t))

-----------------------------------------------------------------------------
(* The retry loop never starts an attempt past its last one, the breaker   *)
(* keeps one of its three states (_execute_request, CircuitBreaker).       *)
TypeOK ==
    /\ pc \in [Threads -> {"idle", "limit", "sent", "again",
                           "refresh", "wait", "check", "record", "login"}]
    /\ kind \in [Threads -> Kinds]
    /\ \A t \in Threads : attempt[t] \in 0 .. TotalAttempts(t) - 1
    /\ refreshed \in [Threads -> BOOLEAN]
    /\ after \in [Threads -> {"none", "sent", "again", "idle"}]
    /\ breaker \in [Breakers -> Breaker]
    /\ snapshot \in BOOLEAN /\ age \in {"fresh", "near", "over"} /\ seen401 \in BOOLEAN
    /\ refreshDone \in BOOLEAN /\ cooling \in BOOLEAN
    /\ sent \in [Threads -> 0 .. 2] /\ logins \in Nat

(* An order write goes out at most once per call: neither a transport      *)
(* error, a 5xx, a 401 with its token refresh nor a login in between sends *)
(* it again (_resolve_total_attempts, _is_ambiguous_write: "Order writes   *)
(* must not be auto-retried after ambiguous transport failure").           *)
WriteSentOnce == \A t \in Threads : kind[t] = "write" => sent[t] <= 1

(* Between the end of one cooldown and the end of the next there is at     *)
(* most one TOTP login, although the guard checks and records in two       *)
(* unlocked steps: only the single flight keeps two threads apart          *)
(* (_run_exclusive_refresh, TotpCooldownGuard).                            *)
OneLoginPerCooldown == logins <= 1

(* A closed breaker has seen fewer failures in a row than its threshold,   *)
(* and counts exactly that row, whatever calls end while it is open or     *)
(* probing (CircuitBreaker.on_success, on_failure).                        *)
OpensOnStreak ==
    \A k \in Breakers : breaker[k].state = "CLOSED" =>
        /\ breaker[k].failures = streak[k]
        /\ streak[k] < FailureThreshold

(* A probing breaker closes after its threshold of successes since it      *)
(* began to probe, not on successes of an earlier phase                    *)
(* (CircuitBreaker._transition_to).                                        *)
ClosesOnProbes ==
    \A k \in Breakers : breaker[k].state = "HALF_OPEN" =>
        /\ breaker[k].successes = probes[k]
        /\ probes[k] < SuccessThreshold

(* The types, and that the breaker's counters are about what they claim.   *)
BreakerCounts == TypeOK /\ OpensOnStreak /\ ClosesOnProbes

(* Every call ends, through any mix of faults, 401s and refreshes it has   *)
(* to lead or wait for (_execute_request, _run_exclusive_refresh).         *)
CallReturns == \A t \in Threads : pc[t] # "idle" ~> pc[t] = "idle"

(* A refresh in flight is always declared over, also when the login fails, *)
(* so a later 401 can lead a new one (_run_exclusive_refresh: finally).    *)
RefreshReopens == ~refreshDone ~> refreshDone
=============================================================================
