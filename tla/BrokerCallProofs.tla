-------------------------- MODULE BrokerCallProofs --------------------------
(***************************************************************************)
(* Proofs about the calls to a broker.                                     *)
(*                                                                         *)
(* UpstoxTransport, for any number of threads, any retry limit and any     *)
(* thresholds of the breaker: one login per cooldown, one sending of an    *)
(* order write per call, and a breaker that opens and closes on what it    *)
(* has seen.                                                               *)
(*                                                                         *)
(* QuotaScheduler, for any callers, chain of buckets and number of         *)
(* registrations: what is taken from a bucket and kept stays within what   *)
(* it has accrued, what its reserve lacks was taken by critical callers,   *)
(* and every token is accounted for (QuotaBalance). All three are about    *)
(* sums over callers, and rest on what an attempt holds while it climbs    *)
(* the chain (QuotaInd).                                                   *)
(***************************************************************************)
EXTENDS UpstoxTransport, QuotaScheduler, CollectionLemmas

(***************************************************************************)
(* One login per cooldown.                                                 *)
(***************************************************************************)
\* Where a thread goes that leaves a call or a login, and all places.
Outside == {"idle", "limit", "sent", "again", "refresh", "wait"}
Places == Outside \cup {"check", "record", "login"}

\* The single flight: from the claim to the end of its login a thread is alone.
LoggingIn(t) == pc[t] \in {"check", "record", "login"}

SingleFlight ==
    /\ pc \in [Threads -> Places]
    /\ \A t, u \in Threads : LoggingIn(t) /\ LoggingIn(u) => t = u
    /\ \A t \in Threads : LoggingIn(t) => ~refreshDone

\* A login is recorded while no cooldown runs, and starts one.
Counted ==
    /\ \A t \in Threads : pc[t] = "record" => ~cooling
    /\ cooling \/ logins = 0
    /\ logins \in {0, 1}

LoginInv == SingleFlight /\ Counted

\* However a call ends, its thread is outside the login.
LEMMA LeavesLogin ==
    ASSUME NEW t \in Threads, Refuse(t) \/ Fail(t) \/ Succeed(t) \/ Resume(t)
    PROVE  \E p \in Outside : pc' = [pc EXCEPT ![t] = p]
  BY DEF Refuse, Fail, Succeed, Resume, Leave, Sent, Goto, Outside

\* A step that moves a thread to a place outside the login keeps the invariant.
LEMMA MoveKeepsLogin ==
    ASSUME LoginInv, NEW t \in Threads, NEW p \in Outside,
           pc' = [pc EXCEPT ![t] = p],
           UNCHANGED <<cooling, logins>>,
           refreshDone' = refreshDone \/ LoggingIn(t)
    PROVE  LoginInv'
  BY DEF LoginInv, SingleFlight, Counted, LoggingIn, Outside, Places

\* Nobody is logging in at the start.
LEMMA LoginInit == Init => LoginInv
  BY DEF Init, LoginInv, SingleFlight, Counted, LoggingIn, Outside, Places

\* Every step keeps the single flight and its count.
LEMMA LoginStep == LoginInv /\ [Next]_vars => LoginInv'
<1> SUFFICES ASSUME LoginInv, [Next]_vars PROVE LoginInv'
  OBVIOUS
<1> USE DEF loginVars
<1>1. ASSUME NEW t \in Threads, NEW k \in Calls[t], Begin(t, k) PROVE LoginInv'
  BY <1>1, MoveKeepsLogin DEF Begin, Goto, Outside
<1>2. ASSUME NEW t \in Threads, ScheduledRefresh(t) PROVE LoginInv'
  BY <1>2, MoveKeepsLogin DEF ScheduledRefresh, Goto, Outside
<1>3. ASSUME NEW t \in Threads, CallStep(t) PROVE LoginInv'
  <2>1. CASE RateLimitTimesOut(t)
    BY <2>1, LeavesLogin, MoveKeepsLogin DEF RateLimitTimesOut
  <2>2. CASE StartAttempt(t)
    BY <2>2, MoveKeepsLogin DEF StartAttempt, Sent, Goto, Outside
  <2>3. CASE Answered(t)
    BY <2>3, LeavesLogin, MoveKeepsLogin DEF Answered
  <2>4. CASE Rejected(t)
    BY <2>4, LeavesLogin, MoveKeepsLogin DEF Rejected
  <2>5. CASE Garbled(t)
    BY <2>5, LeavesLogin, MoveKeepsLogin DEF Garbled
  <2>6. CASE Faulted(t)
    <3>1. \E p \in Outside : pc' = [pc EXCEPT ![t] = p]
      BY <2>6, LeavesLogin DEF Faulted, Again, Goto, Outside
    <3> QED BY <2>6, <3>1, MoveKeepsLogin DEF Faulted
  <2>7. CASE SoftRetry(t)
    BY <2>7, MoveKeepsLogin DEF SoftRetry, Goto, Outside
  <2>8. CASE HardRefresh(t)
    BY <2>8, MoveKeepsLogin DEF HardRefresh, Goto, Outside
  <2>9. CASE RetryWithToken(t)
    <3>1. \E p \in Outside : pc' = [pc EXCEPT ![t] = p]
      BY <2>9, LeavesLogin DEF RetryWithToken, Goto, Outside
    <3> QED BY <2>9, <3>1, MoveKeepsLogin DEF RetryWithToken
  <2>10. CASE ClaimRefresh(t)
    BY <2>10 DEF ClaimRefresh, Goto, Leads, LoginInv, SingleFlight, Counted, LoggingIn, Outside, Places
  <2>11. CASE WaitEnds(t)
    BY <2>11, LeavesLogin, MoveKeepsLogin DEF WaitEnds
  <2>12. CASE CheckAllowed(t)
    BY <2>12 DEF CheckAllowed, Goto, LoginInv, SingleFlight, Counted, LoggingIn, Outside, Places
  <2>13. CASE RecordAttempt(t)
    BY <2>13 DEF RecordAttempt, Goto, LoginInv, SingleFlight, Counted, LoggingIn, Outside, Places
  <2>14. CASE LoggedIn(t)
    <3>1. PICK p \in Outside : pc' = [pc EXCEPT ![t] = p]
      BY <2>14, LeavesLogin DEF LoggedIn
    <3> QED BY <2>14, <3>1 DEF LoggedIn, LoginInv, SingleFlight, Counted, LoggingIn, Outside, Places
  <2>15. CASE LoginFails(t)
    <3>1. PICK p \in Outside : pc' = [pc EXCEPT ![t] = p]
      BY <2>15, LeavesLogin DEF LoginFails
    <3>2. LoggingIn(t)
      BY <2>15 DEF LoginFails, LoggingIn
    <3> QED BY <2>15, <3>1, <3>2, MoveKeepsLogin DEF LoginFails
  <2> QED BY <1>3, <2>1, <2>2, <2>3, <2>4, <2>5, <2>6, <2>7, <2>8, <2>9,
             <2>10, <2>11, <2>12, <2>13, <2>14, <2>15 DEF CallStep
<1>4. CASE TokenAges
  BY <1>4 DEF TokenAges, LoginInv, SingleFlight, Counted, LoggingIn, Outside, Places
<1>5. CASE CooldownOver
  BY <1>5 DEF CooldownOver, LoginInv, SingleFlight, Counted, LoggingIn, Outside, Places
<1>6. ASSUME NEW k \in Breakers, OpenDurationOver(k) PROVE LoginInv'
  BY <1>6 DEF OpenDurationOver, LoginInv, SingleFlight, Counted, LoggingIn, Outside, Places
<1>7. CASE UNCHANGED vars
  BY <1>7 DEF vars, LoginInv, SingleFlight, Counted, LoggingIn, Outside, Places
<1> QED BY <1>1, <1>2, <1>3, <1>4, <1>5, <1>6, <1>7 DEF Next

\* Between the ends of two cooldowns there is at most one TOTP login, however
\* many threads meet a 401, an expiring token or the hour of the daily login
\* (_run_exclusive_refresh, TotpCooldownGuard).
THEOREM LoginsCoolDown == Spec => []OneLoginPerCooldown
<1>1. Spec => []LoginInv
  BY LoginInit, LoginStep, PTL DEF Spec
<1>2. LoginInv => OneLoginPerCooldown
  BY DEF LoginInv, Counted, OneLoginPerCooldown
<1> QED BY <1>1, <1>2, PTL

(***************************************************************************)
(* The call of a thread.                                                   *)
(***************************************************************************)
\* A call whose request has not gone out: before the attempt, or in a token
\* refresh that comes before the request.
Unsent(t) ==
    \/ pc[t] \in {"idle", "limit"}
    \/ /\ pc[t] \in {"refresh", "wait", "check", "record", "login"}
       /\ after[t] = "sent"

\* Attempts are counted from the start of a call, and a write has one, so it
\* does not come back to where a request is sent.
CallOk(t) ==
    /\ attempt[t] <= TotalAttempts(t) - 1
    /\ pc[t] = "idle" => kind[t] = "read" /\ attempt[t] = 0 /\ sent[t] = 0
    /\ kind[t] = "write" => sent[t] <= 1 /\ (Unsent(t) => sent[t] = 0)

CallInv ==
    /\ pc \in [Threads -> Places]
    /\ kind \in [Threads -> Kinds]
    /\ attempt \in [Threads -> Nat]
    /\ refreshed \in [Threads -> BOOLEAN]
    /\ after \in [Threads -> {"none", "sent", "again", "idle"}]
    /\ sent \in [Threads -> 0 .. 2]
    /\ \A t \in Threads : CallOk(t)

\* No call is under way at the start.
LEMMA CallInit == Init => CallInv
  BY TransportAssumption DEF Init, CallInv, CallOk, Unsent, TotalAttempts,
     Places, Outside, Kinds

\* A call that ends.
LEMMA LeaveKeepsCall ==
    ASSUME CallInv, NEW t \in Threads, Leave(t)
    PROVE  CallInv'
  BY TransportAssumption DEF Leave, Goto, CallInv, CallOk, Unsent,
     TotalAttempts, Places, Outside, Kinds

\* A request that goes out.
LEMMA SentKeepsCall ==
    ASSUME CallInv, NEW t \in Threads, Sent(t), Unsent(t), pc[t] # "idle",
           UNCHANGED <<kind, attempt, refreshed>>
    PROVE  CallInv'
  BY DEF Sent, Goto, UpTo, CallInv, CallOk, Unsent, TotalAttempts, Places,
     Outside, Kinds

\* A move inside a call that leaves its request where it is.
LEMMA MoveKeepsCall ==
    ASSUME CallInv, NEW t \in Threads, NEW p \in Places \ {"idle", "limit"},
           NEW a \in {"none", "sent", "again", "idle"},
           pc' = [pc EXCEPT ![t] = p], after' = [after EXCEPT ![t] = a],
           UNCHANGED <<kind, attempt, refreshed, sent>>,
           a = "sent" => Unsent(t)
    PROVE  CallInv'
  BY DEF CallInv, CallOk, Unsent, TotalAttempts, Places, Outside, Kinds

\* Another attempt: not of a write, which has only one.
LEMMA RetryKeepsCall ==
    ASSUME CallInv, NEW t \in Threads, pc[t] # "idle",
           attempt[t] + 1 < TotalAttempts(t),
           pc' = [pc EXCEPT ![t] = "limit"],
           attempt' = [attempt EXCEPT ![t] = @ + 1],
           refreshed' \in [Threads -> BOOLEAN],
           UNCHANGED <<kind, after, sent>>
    PROVE  CallInv'
<1>1. kind[t] = "read" /\ attempt[t] \in Nat
  BY DEF CallInv, TotalAttempts, Kinds
<1>2. attempt' \in [Threads -> Nat] /\ pc' \in [Threads -> Places]
  BY <1>1 DEF CallInv, Places, Outside
<1>3. ASSUME NEW u \in Threads PROVE CallOk(u)'
  <2>1. CASE u = t
    BY <1>1, <2>1, TransportAssumption
    DEF CallInv, CallOk, TotalAttempts
  <2>2. CASE u # t
    BY <2>2 DEF CallInv, CallOk, Unsent, TotalAttempts
  <2> QED BY <2>1, <2>2
<1> QED BY <1>2, <1>3 DEF CallInv

\* A call that goes on after a token refresh.
LEMMA ResumeKeepsCall ==
    ASSUME CallInv, NEW t \in Threads, Resume(t),
           pc[t] \in {"wait", "check", "login"}
    PROVE  CallInv'
<1>1. CASE after[t] = "idle" /\ Refuse(t)
  BY <1>1, LeaveKeepsCall DEF Refuse
<1>2. CASE /\ after[t] = "sent" /\ Sent(t)
           /\ UNCHANGED <<kind, attempt, refreshed, breakerVars>>
  BY <1>2, SentKeepsCall DEF Unsent
<1>3. CASE /\ after[t] = "again" /\ Goto(t, "again")
           /\ after' = [after EXCEPT ![t] = "none"]
           /\ UNCHANGED <<kind, attempt, refreshed, breakerVars, sent>>
  BY <1>3, MoveKeepsCall DEF Goto, Places, Outside
<1> QED BY <1>1, <1>2, <1>3 DEF Resume

\* A step of a call.
LEMMA CallStepKeepsCall ==
    ASSUME CallInv, NEW t \in Threads, CallStep(t)
    PROVE  CallInv'
<1> USE DEF callVars
<1>0. after[t] \in {"none", "sent", "again", "idle"} /\ pc[t] \in Places
  BY DEF CallInv
<1>1. CASE Fail(t) \/ Succeed(t) \/ Refuse(t)
  BY <1>1, LeaveKeepsCall DEF Fail, Succeed, Refuse
<1>2. CASE StartAttempt(t)
  <2>1. CASE age = "fresh"
    BY <1>2, <2>1, SentKeepsCall DEF StartAttempt, Unsent
  <2>2. CASE age # "fresh"
    BY <1>2, <2>2, MoveKeepsCall DEF StartAttempt, Goto, Unsent, Places, Outside
  <2> QED BY <2>1, <2>2
<1>3. CASE Faulted(t)
  <2>1. CASE attempt[t] + 1 < TotalAttempts(t)
    <3>1. /\ pc' = [pc EXCEPT ![t] = "limit"]
          /\ attempt' = [attempt EXCEPT ![t] = @ + 1]
          /\ UNCHANGED <<kind, refreshed, after, sent>> /\ pc[t] # "idle"
      BY <1>3, <2>1 DEF Faulted, Again, Goto
    <3> QED BY <2>1, <3>1, RetryKeepsCall DEF CallInv
  <2> QED BY <1>1, <1>3, <2>1 DEF Faulted, Again
<1>4. CASE SoftRetry(t)
  BY <1>4 DEF SoftRetry, Goto, CallInv, CallOk, Unsent, TotalAttempts, Places,
     Outside, Kinds
<1>5. CASE HardRefresh(t)
  BY <1>5, MoveKeepsCall DEF HardRefresh, Goto, Places, Outside
<1>6. CASE RetryWithToken(t)
  <2>1. CASE attempt[t] + 1 < TotalAttempts(t)
    <3>1. /\ pc' = [pc EXCEPT ![t] = "limit"]
          /\ attempt' = [attempt EXCEPT ![t] = @ + 1]
          /\ refreshed' = [refreshed EXCEPT ![t] = TRUE]
          /\ UNCHANGED <<kind, after, sent>> /\ pc[t] # "idle"
      BY <1>6, <2>1 DEF RetryWithToken, Goto
    <3>2. refreshed' \in [Threads -> BOOLEAN]
      BY <3>1 DEF CallInv
    <3> QED BY <2>1, <3>1, <3>2, RetryKeepsCall
  <2> QED BY <1>1, <1>6, <2>1 DEF RetryWithToken
<1>7. CASE ClaimRefresh(t) \/ CheckAllowed(t) \/ RecordAttempt(t)
  <2>1. PICK p \in {"check", "wait", "record", "login"} :
            pc' = [pc EXCEPT ![t] = p]
    BY <1>7 DEF ClaimRefresh, CheckAllowed, RecordAttempt, Goto
  <2>2. UNCHANGED <<kind, attempt, refreshed, after, sent>>
        /\ pc[t] \in {"refresh", "check", "record"}
    BY <1>7 DEF ClaimRefresh, CheckAllowed, RecordAttempt
  <2>3. after' = [after EXCEPT ![t] = after[t]]
    BY <2>2 DEF CallInv
  <2> QED BY <1>0, <2>1, <2>2, <2>3, MoveKeepsCall DEF Unsent, Places, Outside
<1>8. CASE WaitEnds(t) \/ LoggedIn(t)
  BY <1>8, ResumeKeepsCall DEF WaitEnds, LoggedIn
<1> QED BY <1>1, <1>2, <1>3, <1>4, <1>5, <1>6, <1>7, <1>8
        DEF CallStep, RateLimitTimesOut, Answered, Rejected, Garbled, LoginFails

\* Every step keeps what a call has sent within its budget.
LEMMA CallInvStep == CallInv /\ [Next]_vars => CallInv'
<1> SUFFICES ASSUME CallInv, [Next]_vars PROVE CallInv'
  OBVIOUS
<1> USE DEF callVars
<1>1. ASSUME NEW t \in Threads, NEW k \in Calls[t], Begin(t, k) PROVE CallInv'
  <2>1. k \in Kinds
    BY TransportAssumption
  <2> QED BY <1>1, <2>1, TransportAssumption DEF Begin, Goto, CallInv, CallOk,
             Unsent, TotalAttempts, Places, Outside, Kinds
<1>2. ASSUME NEW t \in Threads, ScheduledRefresh(t) PROVE CallInv'
  BY <1>2 DEF ScheduledRefresh, Goto, CallInv, CallOk, Unsent, TotalAttempts,
     Places, Outside, Kinds
<1>3. ASSUME NEW t \in Threads, CallStep(t) PROVE CallInv'
  BY <1>3, CallStepKeepsCall
<1>4. ASSUME UNCHANGED <<pc, callVars, sent>> PROVE CallInv'
  BY <1>4 DEF CallInv, CallOk, Unsent, TotalAttempts
<1> QED BY <1>1, <1>2, <1>3, <1>4
        DEF Next, TokenAges, CooldownOver, OpenDurationOver, vars

\* An order write goes out at most once in a call: neither a fault nor a 401,
\* a token refresh or a login in between sends it again
\* (_resolve_total_attempts).
THEOREM WritesGoOutOnce == Spec => []WriteSentOnce
<1>1. Spec => []CallInv
  BY CallInit, CallInvStep, PTL DEF Spec
<1>2. CallInv => WriteSentOnce
  BY DEF CallInv, CallOk, WriteSentOnce
<1> QED BY <1>1, <1>2, PTL

(***************************************************************************)
(* The breaker.                                                            *)
(***************************************************************************)
\* A breaker with the failures in a row and the successes of its probing that
\* it has seen.
Agrees(b, s, p) ==
    /\ b \in Breaker
    /\ s \in 0 .. FailureThreshold /\ p \in 0 .. SuccessThreshold
    /\ b.state = "CLOSED" => b.failures = s /\ s < FailureThreshold
    /\ b.state = "HALF_OPEN" => b.successes = p /\ p < SuccessThreshold

\* A new breaker has counted nothing.
LEMMA NewAgrees == Agrees(NewBreaker, 0, 0)
  BY ThresholdAssumption DEF Agrees, Breaker, NewBreaker

\* A transition resets what it ends.
LEMMA TransitionAgrees ==
    ASSUME NEW b \in Breaker, NEW new \in {"CLOSED", "OPEN", "HALF_OPEN"},
           b.state # new,
           NEW s \in 0 .. FailureThreshold, NEW p \in 0 .. SuccessThreshold,
           new = "CLOSED" => s = 0, new = "HALF_OPEN" => p = 0
    PROVE  Agrees(TransitionTo(b, new), s, p)
  BY ThresholdAssumption DEF Agrees, Breaker, TransitionTo

\* Looking at the state moves it no further than the clock does.
LEMMA ObservedAgrees ==
    ASSUME NEW b, NEW s, NEW p, Agrees(b, s, p)
    PROVE  Agrees(Observed(b), s, IF Observed(b) = b THEN p ELSE 0)
<1>1. CASE b.state = "OPEN" /\ b.elapsed
  <2>1. Agrees(TransitionTo(b, "HALF_OPEN"), s, 0)
    BY <1>1, TransitionAgrees, ThresholdAssumption DEF Agrees
  <2>2. TransitionTo(b, "HALF_OPEN") # b
    BY <1>1 DEF TransitionTo, Agrees, Breaker
  <2> QED BY <1>1, <2>1, <2>2 DEF Observed
<1>2. CASE ~(b.state = "OPEN" /\ b.elapsed)
  BY <1>2 DEF Observed
<1> QED BY <1>1, <1>2

\* A success is counted.
LEMMA SuccessAgrees ==
    ASSUME NEW b, NEW s, NEW p, Agrees(b, s, p)
    PROVE  Agrees(OnSuccess(b), 0,
                  IF b.state = "HALF_OPEN" THEN UpTo(SuccessThreshold, p + 1)
                                           ELSE 0)
<1> DEFINE counted == [b EXCEPT !.successes = UpTo(SuccessThreshold, @ + 1)]
<1>1. counted \in Breaker /\ counted.state = b.state
      /\ counted.failures = b.failures
      /\ counted.successes = UpTo(SuccessThreshold, b.successes + 1)
  BY ThresholdAssumption DEF Agrees, Breaker, UpTo
<1>2. CASE b.state = "OPEN"
  <2>1. OnSuccess(b) = b
    BY <1>2 DEF OnSuccess
  <2> QED BY <1>2, <2>1, ThresholdAssumption DEF Agrees
<1>3. CASE b.state = "CLOSED"
  <2>1. OnSuccess(b) = [counted EXCEPT !.failures = 0]
    BY <1>3 DEF OnSuccess
  <2> HIDE DEF counted
  <2>2. /\ OnSuccess(b) \in Breaker
        /\ OnSuccess(b).state = "CLOSED" /\ OnSuccess(b).failures = 0
    BY <1>1, <1>3, <2>1, ThresholdAssumption DEF Breaker
  <2> QED BY <1>3, <2>2, ThresholdAssumption DEF Agrees
<1>4. CASE b.state = "HALF_OPEN"
  <2>1. OnSuccess(b) = IF counted.successes >= SuccessThreshold
                       THEN TransitionTo(counted, "CLOSED") ELSE counted
    BY <1>4 DEF OnSuccess
  <2>2. /\ UpTo(SuccessThreshold, p + 1) \in 0 .. SuccessThreshold
        /\ counted.successes = UpTo(SuccessThreshold, p + 1)
    BY <1>1, <1>4, ThresholdAssumption DEF Agrees, UpTo
  <2> HIDE DEF counted
  <2>3. CASE counted.successes >= SuccessThreshold
    BY <1>1, <1>4, <2>1, <2>2, <2>3, TransitionAgrees, ThresholdAssumption
  <2>4. CASE ~(counted.successes >= SuccessThreshold)
    BY <1>1, <1>4, <2>1, <2>2, <2>4, ThresholdAssumption DEF Agrees
  <2> QED BY <2>3, <2>4
<1> QED BY <1>2, <1>3, <1>4 DEF Agrees, Breaker

\* A failure is counted.
LEMMA FailureAgrees ==
    ASSUME NEW b, NEW s, NEW p, Agrees(b, s, p)
    PROVE  Agrees(OnFailure(b), UpTo(FailureThreshold, s + 1), 0)
<1> DEFINE counted == [b EXCEPT !.failures = UpTo(FailureThreshold, @ + 1)]
<1>1. counted \in Breaker /\ counted.state = b.state
      /\ counted.failures = UpTo(FailureThreshold, b.failures + 1)
  BY ThresholdAssumption DEF Agrees, Breaker, UpTo
<1>2. UpTo(FailureThreshold, s + 1) \in 0 .. FailureThreshold
  BY ThresholdAssumption DEF Agrees, UpTo
<1>3. OnFailure(b) = IF \/ b.state = "HALF_OPEN"
                        \/ b.state = "CLOSED" /\ counted.failures >= FailureThreshold
                     THEN TransitionTo(counted, "OPEN") ELSE counted
  BY DEF OnFailure
<1>4. b.state = "CLOSED" => counted.failures = UpTo(FailureThreshold, s + 1)
  BY <1>1 DEF Agrees
<1> HIDE DEF counted
<1>5. CASE \/ b.state = "HALF_OPEN"
           \/ b.state = "CLOSED" /\ counted.failures >= FailureThreshold
  BY <1>1, <1>2, <1>3, <1>5, TransitionAgrees, ThresholdAssumption
<1>6. CASE ~(\/ b.state = "HALF_OPEN"
             \/ b.state = "CLOSED" /\ counted.failures >= FailureThreshold)
  BY <1>1, <1>2, <1>3, <1>4, <1>6, ThresholdAssumption DEF Agrees
<1> QED BY <1>5, <1>6

BreakersInv ==
    /\ breaker \in [Breakers -> Breaker]
    /\ streak \in [Breakers -> 0 .. FailureThreshold]
    /\ probes \in [Breakers -> 0 .. SuccessThreshold]
    /\ \A k \in Breakers : Agrees(breaker[k], streak[k], probes[k])

\* A step that gives one breaker and its counts other values that agree.
LEMMA SetKeepsBreakers ==
    ASSUME BreakersInv, NEW k \in Breakers, NEW b, NEW s, NEW p,
           breaker' = [breaker EXCEPT ![k] = b],
           streak' = [streak EXCEPT ![k] = s],
           probes' = [probes EXCEPT ![k] = p],
           Agrees(b, s, p)
    PROVE  BreakersInv'
<1>1. b \in Breaker /\ s \in 0 .. FailureThreshold /\ p \in 0 .. SuccessThreshold
  BY DEF Agrees
<1>2. /\ breaker' \in [Breakers -> Breaker]
      /\ streak' \in [Breakers -> 0 .. FailureThreshold]
      /\ probes' \in [Breakers -> 0 .. SuccessThreshold]
  BY <1>1 DEF BreakersInv
<1>3. ASSUME NEW x \in Breakers PROVE Agrees(breaker'[x], streak'[x], probes'[x])
  <2>1. CASE x = k
    BY <2>1 DEF BreakersInv
  <2>2. CASE x # k
    BY <2>2 DEF BreakersInv
  <2> QED BY <2>1, <2>2
<1> QED BY <1>2, <1>3 DEF BreakersInv, Breakers

\* An outcome is recorded on the breaker of its call alone.
LEMMA OutcomeKeepsBreakers ==
    ASSUME BreakersInv, CallInv, NEW t \in Threads, Succeed(t) \/ Fail(t)
    PROVE  BreakersInv'
<1> DEFINE k == BreakerOf[kind[t]]
<1>1. k \in Breakers
  BY DEF Breakers, CallInv
<1>2. Agrees(breaker[k], streak[k], probes[k])
  BY <1>1 DEF BreakersInv
<1>3. CASE Succeed(t)
  <2> DEFINE p == IF breaker[k].state = "HALF_OPEN"
                  THEN UpTo(SuccessThreshold, probes[k] + 1) ELSE 0
  <2>1. Agrees(OnSuccess(breaker[k]), 0, p)
    BY <1>2, SuccessAgrees
  <2>2. /\ breaker' = [breaker EXCEPT ![k] = OnSuccess(breaker[k])]
        /\ streak' = [streak EXCEPT ![k] = 0]
        /\ probes' = [probes EXCEPT ![k] = p]
    BY <1>3 DEF Succeed
  <2> HIDE DEF k, p
  <2> QED BY <1>1, <2>1, <2>2, SetKeepsBreakers
<1>4. CASE Fail(t)
  <2> DEFINE s == UpTo(FailureThreshold, streak[k] + 1)
  <2>1. Agrees(OnFailure(breaker[k]), s, 0)
    BY <1>2, FailureAgrees
  <2>2. /\ breaker' = [breaker EXCEPT ![k] = OnFailure(breaker[k])]
        /\ streak' = [streak EXCEPT ![k] = s]
        /\ probes' = [probes EXCEPT ![k] = 0]
    BY <1>4 DEF Fail
  <2> HIDE DEF k, s
  <2> QED BY <1>1, <2>1, <2>2, SetKeepsBreakers
<1> QED BY <1>3, <1>4

\* All breakers are new at the start.
LEMMA BreakersInit == Init => BreakersInv
  BY NewAgrees, ThresholdAssumption DEF Init, BreakersInv, Agrees

\* Every step keeps the breakers in agreement with what they saw.
LEMMA BreakersStep == BreakersInv /\ CallInv /\ [Next]_vars => BreakersInv'
<1> SUFFICES ASSUME BreakersInv, CallInv, [Next]_vars PROVE BreakersInv'
  OBVIOUS
<1>1. ASSUME UNCHANGED breakerVars PROVE BreakersInv'
  BY <1>1 DEF breakerVars, BreakersInv, Agrees
<1>2. ASSUME NEW t \in Threads, NEW k \in Calls[t], Begin(t, k)
      PROVE  BreakersInv'
  <2> DEFINE cb == BreakerOf[k]
             b == Observed(breaker[cb])
             p == IF b = breaker[cb] THEN probes[cb] ELSE 0
  <2>1. cb \in Breakers
    BY TransportAssumption DEF Breakers
  <2>2. Agrees(b, streak[cb], p)
    BY <2>1, ObservedAgrees DEF BreakersInv
  <2>3. /\ breaker' = [breaker EXCEPT ![cb] = b]
        /\ probes' = [probes EXCEPT ![cb] = p]
        /\ streak' = [streak EXCEPT ![cb] = streak[cb]]
    BY <1>2 DEF Begin, BreakersInv
  <2> HIDE DEF cb, b, p
  <2> QED BY <2>1, <2>2, <2>3, SetKeepsBreakers
<1>3. ASSUME NEW t \in Threads, ScheduledRefresh(t) PROVE BreakersInv'
  BY <1>1, <1>3 DEF ScheduledRefresh
<1>4. ASSUME NEW t \in Threads, CallStep(t) PROVE BreakersInv'
  <2>1. Succeed(t) \/ Fail(t) \/ UNCHANGED breakerVars
    BY <1>4 DEF CallStep, RateLimitTimesOut, StartAttempt, Answered, Rejected,
       Garbled, Faulted, Again, SoftRetry, HardRefresh, RetryWithToken,
       ClaimRefresh, WaitEnds, Resume, Refuse, CheckAllowed, RecordAttempt,
       LoggedIn, LoginFails
  <2> QED BY <1>1, <2>1, OutcomeKeepsBreakers
<1>5. ASSUME NEW k \in Breakers, OpenDurationOver(k) PROVE BreakersInv'
  <2> DEFINE b == [breaker[k] EXCEPT !.elapsed = TRUE]
  <2>1. Agrees(b, streak[k], probes[k])
    BY DEF BreakersInv, Agrees, Breaker
  <2>2. /\ breaker' = [breaker EXCEPT ![k] = b]
        /\ streak' = [streak EXCEPT ![k] = streak[k]]
        /\ probes' = [probes EXCEPT ![k] = probes[k]]
    BY <1>5 DEF OpenDurationOver, BreakersInv
  <2> HIDE DEF b
  <2> QED BY <2>1, <2>2, SetKeepsBreakers
<1>6. CASE TokenAges \/ CooldownOver
  BY <1>1, <1>6 DEF TokenAges, CooldownOver
<1>7. CASE UNCHANGED vars
  BY <1>1, <1>7 DEF vars
<1> QED BY <1>2, <1>3, <1>4, <1>5, <1>6, <1>7 DEF Next

(***************************************************************************)
(* The tokens, and the types of all of it.                                 *)
(***************************************************************************)
TokenInv ==
    /\ snapshot \in BOOLEAN /\ age \in {"fresh", "near", "over"}
    /\ seen401 \in BOOLEAN
    /\ refreshDone \in BOOLEAN /\ cooling \in BOOLEAN

\* The token at the start.
LEMMA TokenInit == Init => TokenInv
  BY DEF Init, TokenInv

\* Every step keeps the token.
LEMMA TokenStep == TokenInv /\ [Next]_vars => TokenInv'
<1> SUFFICES ASSUME TokenInv, [Next]_vars PROVE TokenInv'
  OBVIOUS
<1> USE DEF tokenVars, loginVars, TokenInv
<1>1. ASSUME NEW t \in Threads, CallStep(t) PROVE TokenInv'
  BY <1>1 DEF CallStep, RateLimitTimesOut, StartAttempt, Answered, Rejected,
     Garbled, Faulted, SoftRetry, HardRefresh, RetryWithToken, ClaimRefresh,
     WaitEnds, CheckAllowed, RecordAttempt, LoggedIn, LoginFails, Signalled
<1>2. ASSUME NEW t \in Threads, NEW k \in Calls[t], Begin(t, k) PROVE TokenInv'
  BY <1>2 DEF Begin
<1>3. ASSUME NEW t \in Threads, ScheduledRefresh(t) PROVE TokenInv'
  BY <1>3 DEF ScheduledRefresh
<1>4. CASE TokenAges
  BY <1>4 DEF TokenAges
<1>5. CASE CooldownOver
  BY <1>5 DEF CooldownOver
<1>6. ASSUME NEW k \in Breakers, OpenDurationOver(k) PROVE TokenInv'
  BY <1>6 DEF OpenDurationOver
<1>7. CASE UNCHANGED vars
  BY <1>7 DEF vars
<1> QED BY <1>1, <1>2, <1>3, <1>4, <1>5, <1>6, <1>7 DEF Next

\* A breaker that agrees with what it saw opens and closes on it.
LEMMA InvCounts ==
    CallInv /\ LoginInv /\ BreakersInv /\ TokenInv => BreakerCounts
<1> SUFFICES ASSUME CallInv, LoginInv, BreakersInv, TokenInv PROVE BreakerCounts
  OBVIOUS
<1>1. \A t \in Threads : attempt[t] \in 0 .. TotalAttempts(t) - 1
  BY TransportAssumption DEF CallInv, CallOk, TotalAttempts
<1>2. logins \in Nat
  BY DEF LoginInv, Counted
<1>3. TypeOK
  BY <1>1, <1>2 DEF TypeOK, CallInv, BreakersInv, TokenInv, Places, Outside
<1>4. OpensOnStreak /\ ClosesOnProbes
  BY DEF OpensOnStreak, ClosesOnProbes, BreakersInv, Agrees
<1> QED BY <1>3, <1>4 DEF BreakerCounts

\* The breaker is closed on fewer failures in a row than its threshold and
\* counts exactly these, and closes again on the successes of its probing
\* only, whichever calls end in which of its states (CircuitBreaker.on_success,
\* on_failure, _transition_to); every variable keeps its type.
THEOREM BreakerCountsAlways == Spec => []BreakerCounts
<1>1. Spec => [](CallInv /\ LoginInv /\ BreakersInv /\ TokenInv)
  BY CallInit, CallInvStep, LoginInit, LoginStep, BreakersInit, BreakersStep,
     TokenInit, TokenStep, PTL DEF Spec
<1> QED BY <1>1, InvCounts, PTL

(***************************************************************************)
(* The quota of a broker.                                                  *)
(***************************************************************************)
\* The buckets an attempt holds are consecutive ones of the chain, from the
\* first one while it is still climbing; each holds the token it paid.
Attempt(t) ==
    /\ Len(consumed[t]) < Len(Chain)
    /\ phase[t] \in {"idle", "sleeping"} => consumed[t] = <<>>
    /\ phase[t] = "trying" => \A j \in 1 .. Len(consumed[t]) : consumed[t][j][2] = j
    /\ \A j \in 1 .. Len(consumed[t]) : consumed[t][j][1] <= gen
                                      /\ used[consumed[t][j]][t] >= 1
    /\ \A i, j \in 1 .. Len(consumed[t]) :
          consumed[t][j][2] - consumed[t][i][2] = j - i

\* A registration to come has untouched buckets.
Untouched(b) == tokens[b] = Capacity(b) /\ \A t \in Callers : used[b][t] = 0

QuotaTypes ==
    /\ now \in 0 .. MaxTime /\ gen \in 1 .. MaxRegistered
    /\ born \in [1 .. MaxRegistered -> 0 .. MaxTime]
    /\ tokens \in [Buckets -> Nat] /\ \A b \in Buckets : tokens[b] <= Capacity(b)
    /\ last \in [Buckets -> Nat] /\ \A b \in Buckets : last[b] <= now
    /\ phase \in [Callers -> {"idle", "trying", "refused", "sleeping"}]
    /\ consumed \in [Callers -> Seq(Buckets)]
    /\ deadline \in [Callers -> Nat] /\ until \in [Callers -> Nat]
    /\ granted \in [Callers -> Nat]
    /\ used \in [Buckets -> [Callers -> Nat]]

QuotaInd ==
    /\ QuotaTypes
    /\ \A t \in Callers : Attempt(t)
    /\ \A b \in Buckets : b[1] > gen => Untouched(b)

\* What the assumption says of the constants.
LEMMA ChainConstants ==
    /\ Len(Chain) \in Nat /\ DOMAIN Chain = 1 .. Len(Chain) /\ Len(Chain) >= 1
    /\ Unit \in Nat /\ Unit >= 1 /\ Poll \in Nat
    /\ MaxRegistered \in Nat /\ MaxRegistered >= 1 /\ MaxTime \in Nat
    /\ MaxWait \in [Callers -> Nat]
    /\ Critical \subseteq Callers /\ IsFiniteSet(Callers) /\ IsFiniteSet(Critical)
    /\ \A b \in Buckets : /\ Capacity(b) \in Nat /\ Rate(b) \in Nat
                          /\ Reserved(b) \in Nat /\ Reserved(b) <= Capacity(b)
<1>1. Len(Chain) \in Nat /\ DOMAIN Chain = 1 .. Len(Chain)
  BY QuotaAssumption, LenProperties
<1>2. IsFiniteSet(Critical)
  BY QuotaAssumption, FS_Subset
<1>3. ASSUME NEW b \in Buckets
      PROVE  /\ Capacity(b) \in Nat /\ Rate(b) \in Nat
             /\ Reserved(b) \in Nat /\ Reserved(b) <= Capacity(b)
  <2>1. b[2] \in DOMAIN Chain
    BY DEF Buckets
  <2>2. Chain[b[2]] \in [rate : Nat, capacity : Nat, reserved : Nat]
    BY <1>1, <2>1, QuotaAssumption, ElementOfSeq
  <2> QED BY <2>1, <2>2, QuotaAssumption DEF Capacity, Rate, Reserved
<1> QED BY <1>1, <1>2, <1>3, QuotaAssumption

\* A bucket is a registration and a level of the chain.
LEMMA BucketParts ==
    ASSUME NEW b \in Buckets
    PROVE  /\ b[1] \in 1 .. MaxRegistered /\ b[1] \in Int
           /\ b[2] \in 1 .. Len(Chain) /\ b[2] \in Int
<1>1. DOMAIN Chain = 1 .. Len(Chain) /\ Len(Chain) \in Nat /\ MaxRegistered \in Nat
  BY ChainConstants
<1>2. b[1] \in 1 .. MaxRegistered /\ b[2] \in 1 .. Len(Chain)
  BY <1>1 DEF Buckets
<1> QED BY <1>1, <1>2

\* The counters are numbers.
LEMMA Counters ==
    ASSUME QuotaTypes
    PROVE  gen \in Int /\ now \in Nat /\ now \in Int
  BY ChainConstants DEF QuotaTypes

\* What accrues to a bucket is a natural number.
LEMMA Accrues ==
    ASSUME NEW r \in Nat, NEW d \in Nat
    PROVE  d * r \in Nat
  OBVIOUS

\* A refill gives what has accrued, up to the capacity.
LEMMA RefilledBounds ==
    ASSUME QuotaTypes, NEW b \in Buckets
    PROVE  /\ Refilled(b) \in Nat /\ tokens[b] <= Refilled(b)
           /\ Refilled(b) <= Capacity(b)
           /\ Refilled(b) <= tokens[b] + (now - last[b]) * Rate(b)
<1> DEFINE accrued == (now - last[b]) * Rate(b)
<1>1. now - last[b] \in Nat /\ Rate(b) \in Nat
  BY ChainConstants DEF QuotaTypes
<1>2. accrued \in Nat
  BY <1>1, Accrues
<1> HIDE DEF accrued
<1>3. tokens[b] \in Nat /\ tokens[b] <= Capacity(b) /\ Capacity(b) \in Nat
  BY ChainConstants DEF QuotaTypes
<1>4. Refilled(b) = Least(Capacity(b), tokens[b] + accrued)
  BY DEF Refilled, accrued
<1>5. /\ Refilled(b) \in Nat /\ tokens[b] <= Refilled(b)
      /\ Refilled(b) <= Capacity(b) /\ Refilled(b) <= tokens[b] + accrued
  BY <1>2, <1>3, <1>4 DEF Least
<1> QED BY <1>5 DEF accrued

\* The bucket an attempt comes to next.
LEMMA NextBucketOnChain ==
    ASSUME QuotaInd, NEW t \in Callers, phase[t] = "trying"
    PROVE  /\ NextBucket(t) \in Buckets /\ NextBucket(t)[1] <= gen
           /\ NextBucket(t)[2] = Len(consumed[t]) + 1
<1> DEFINE n == Len(consumed[t])
           g == IF n >= 2 THEN consumed[t][2][1] ELSE gen
<1>1. consumed[t] \in Seq(Buckets) /\ n \in Nat /\ n < Len(Chain)
      /\ gen \in 1 .. MaxRegistered
  BY LenProperties DEF QuotaInd, QuotaTypes, Attempt
<1>2. g \in 1 .. MaxRegistered /\ g <= gen
  <2>1. CASE n >= 2
    <3>1. 2 \in 1 .. n
      BY <1>1, <2>1
    <3>2. consumed[t][2] \in Buckets /\ consumed[t][2][1] <= gen
      BY <1>1, <3>1, ElementOfSeq DEF QuotaInd, Attempt
    <3> QED BY <1>1, <2>1, <3>2 DEF Buckets
  <2>2. CASE ~(n >= 2)
    BY <1>1, <2>2, ChainConstants
  <2> QED BY <2>1, <2>2
<1>3. NextBucket(t) = <<g, n + 1>>
  BY DEF NextBucket
<1>4. n + 1 \in DOMAIN Chain
  BY <1>1, ChainConstants
<1> HIDE DEF g, n
<1>5. NextBucket(t) \in Buckets
  BY <1>2, <1>3, <1>4 DEF Buckets
<1>6. NextBucket(t)[1] = g /\ NextBucket(t)[2] = n + 1
  BY <1>3
<1> QED BY <1>2, <1>5, <1>6 DEF n

\* Consecutive buckets of the chain are on levels of their own.
Climbing(c) == \A i, j \in 1 .. Len(c) : c[j][2] - c[i][2] = j - i
Holds(c, i) == \E j \in 1 .. Len(c) : c[j][2] = i

\* An attempt holds one bucket of a level, at most.
LEMMA OneBucketALevel ==
    ASSUME NEW c \in Seq(Buckets), Climbing(c), NEW i
    PROVE  Cardinality({j \in DOMAIN c : c[j][2] = i}) = IF Holds(c, i) THEN 1 ELSE 0
<1>1. DOMAIN c = 1 .. Len(c) /\ Len(c) \in Nat
  BY LenProperties
<1>2. CASE Holds(c, i)
  <2>1. PICK j \in 1 .. Len(c) : c[j][2] = i
    BY <1>2 DEF Holds
  <2>2. ASSUME NEW k \in 1 .. Len(c), c[k][2] = i PROVE k = j
    <3>1. c[k][2] - c[j][2] = k - j
      BY DEF Climbing
    <3>2. c[j] \in Buckets
      BY <1>1, ElementOfSeq
    <3>3. c[j][2] \in Int
      BY <3>2, BucketParts
    <3> QED BY <2>1, <2>2, <3>1, <3>3
  <2>3. {k \in DOMAIN c : c[k][2] = i} = {j}
    BY <1>1, <2>1, <2>2
  <2> QED BY <1>2, <2>3, FS_Singleton
<1>3. CASE ~Holds(c, i)
  <2>1. {k \in DOMAIN c : c[k][2] = i} = {}
    BY <1>1, <1>3 DEF Holds
  <2> QED BY <1>3, <2>1, FS_EmptySet
<1> QED BY <1>2, <1>3

\* Nobody is trying at the start.
LEMMA QuotaIndInit == QuotaInit => QuotaInd
<1> SUFFICES ASSUME QuotaInit PROVE QuotaInd
  OBVIOUS
<1>1. Len(<<>>) = 0 /\ <<>> \in Seq(Buckets)
  OBVIOUS
<1>2. QuotaTypes
  BY ChainConstants, <1>1 DEF QuotaInit, QuotaTypes
<1>3. \A t \in Callers : Attempt(t)
  BY ChainConstants, <1>1 DEF QuotaInit, Attempt
<1>4. \A b \in Buckets : Untouched(b)
  BY DEF QuotaInit, Untouched
<1> QED BY <1>2, <1>3, <1>4 DEF QuotaInd

\* A step that leaves the buckets, the registrations and what a caller holds
\* alone keeps the caller's part.
LEMMA AttemptKept ==
    ASSUME QuotaInd, NEW u \in Callers,
           consumed'[u] = consumed[u], gen <= gen', gen \in Int, gen' \in Int,
           \A b \in Buckets : used'[b][u] >= used[b][u] /\ used'[b][u] \in Int,
           phase'[u] = phase[u] \/ consumed[u] = <<>> \/ phase'[u] = "refused"
    PROVE  Attempt(u)'
<1>1. consumed[u] \in Seq(Buckets) /\ Len(consumed[u]) \in Nat
      /\ \A j \in 1 .. Len(consumed[u]) : consumed[u][j] \in Buckets
  BY LenProperties, ElementOfSeq DEF QuotaInd, QuotaTypes
<1>2. \A j \in 1 .. Len(consumed[u]) :
         consumed[u][j][1] \in Int /\ used[consumed[u][j]][u] \in Int
  <2>1. \A b \in Buckets : b[1] \in Int /\ used[b][u] \in Int
    BY BucketParts DEF QuotaInd, QuotaTypes
  <2> QED BY <1>1, <2>1
<1>3. Attempt(u)
  BY DEF QuotaInd
<1>4. ASSUME NEW j \in 1 .. Len(consumed[u])
      PROVE  consumed[u][j][1] <= gen' /\ used'[consumed[u][j]][u] >= 1
  <2>1. consumed[u][j][1] <= gen /\ used[consumed[u][j]][u] >= 1
    BY <1>3 DEF Attempt
  <2>2. /\ used'[consumed[u][j]][u] >= used[consumed[u][j]][u]
        /\ used'[consumed[u][j]][u] \in Int
    BY <1>1
  <2> QED BY <1>2, <2>1, <2>2
<1>5. phase'[u] = "trying" => \A j \in 1 .. Len(consumed[u]) : consumed[u][j][2] = j
  BY <1>1, <1>3 DEF Attempt
<1>6. phase'[u] \in {"idle", "sleeping"} => consumed[u] = <<>>
  BY <1>3 DEF Attempt
<1> QED BY <1>3, <1>4, <1>5, <1>6 DEF Attempt

\* A token is taken and the attempt climbs, or is granted.
LEMMA TakeKeepsQuota ==
    ASSUME QuotaInd, NEW t \in Callers, Take(t)
    PROVE  QuotaInd'
<1> DEFINE b == NextBucket(t)
<1>1. /\ b \in Buckets /\ b[1] <= gen /\ b[2] = Len(consumed[t]) + 1
  BY NextBucketOnChain DEF Take
<1>2. Refilled(b) \in Nat /\ Refilled(b) <= Capacity(b)
  BY <1>1, RefilledBounds DEF QuotaInd
<1>3. /\ phase[t] = "trying" /\ Available(t, b) >= Unit
      /\ tokens' = [tokens EXCEPT ![b] = Refilled(b) - Unit]
      /\ last' = [last EXCEPT ![b] = now]
      /\ used' = [used EXCEPT ![b][t] = @ + 1]
      /\ UNCHANGED <<now, gen, born>>
  BY DEF Take, RefillTime
<1>4. \/ b[2] = Len(Chain) /\ Return(t) /\ granted' = [granted EXCEPT ![t] = @ + 1]
      \/ /\ b[2] # Len(Chain) /\ consumed' = [consumed EXCEPT ![t] = Append(@, b)]
         /\ UNCHANGED <<phase, deadline, until, granted>>
  BY DEF Take
<1>5. /\ consumed[t] \in Seq(Buckets) /\ Len(consumed[t]) \in Nat
      /\ \A j \in 1 .. Len(consumed[t]) : consumed[t][j] \in Buckets
      /\ Attempt(t)
  BY LenProperties, ElementOfSeq DEF QuotaInd, QuotaTypes
<1> HIDE DEF b
<1>6. Refilled(b) - Unit \in Nat /\ Refilled(b) - Unit <= Capacity(b)
  <2>1. Reserved(b) \in Nat /\ Unit \in Nat /\ Capacity(b) \in Nat
    BY <1>1, ChainConstants
  <2> QED BY <1>2, <1>3, <2>1 DEF Available
<1> DEFINE c == Append(consumed[t], b)
<1>7. /\ c \in Seq(Buckets) /\ Len(c) = Len(consumed[t]) + 1
      /\ \A j \in 1 .. Len(consumed[t]) : c[j] = consumed[t][j]
      /\ c[Len(consumed[t]) + 1] = b
  BY <1>1, <1>5, AppendProperties
<1> HIDE DEF c
<1>8. /\ consumed' \in [Callers -> Seq(Buckets)]
      /\ \A u \in Callers : u # t => consumed'[u] = consumed[u] /\ phase'[u] = phase[u]
      /\ \/ consumed'[t] = <<>> /\ phase'[t] = "idle"
         \/ consumed'[t] = c /\ phase'[t] = phase[t] /\ b[2] # Len(Chain)
  <2>1. <<>> \in Seq(Buckets) /\ consumed \in [Callers -> Seq(Buckets)]
        /\ phase \in [Callers -> {"idle", "trying", "refused", "sleeping"}]
    BY DEF QuotaInd, QuotaTypes
  <2> QED BY <1>4, <1>7, <2>1 DEF Return, c
<1>9. /\ used' \in [Buckets -> [Callers -> Nat]]
      /\ used'[b][t] = used[b][t] + 1
      /\ \A d \in Buckets, u \in Callers : d # b \/ u # t => used'[d][u] = used[d][u]
      /\ \A d \in Buckets, u \in Callers : used'[d][u] >= used[d][u]
  <2>1. used \in [Buckets -> [Callers -> Nat]]
    BY DEF QuotaInd, QuotaTypes
  <2>2. \A d \in Buckets, u \in Callers : used[d][u] \in Nat
    BY <2>1
  <2>3. \A d \in Buckets, u \in Callers :
           used'[d][u] = IF d = b /\ u = t THEN used[d][u] + 1 ELSE used[d][u]
    BY <1>1, <1>3, <2>1
  <2>4. used' \in [Buckets -> [Callers -> Nat]]
    BY <1>1, <1>3, <2>1
  <2> QED BY <1>1, <2>2, <2>3, <2>4
<1>10. QuotaTypes'
  <2>1. /\ tokens' \in [Buckets -> Nat] /\ \A d \in Buckets : tokens'[d] <= Capacity(d)
    BY <1>1, <1>3, <1>6 DEF QuotaInd, QuotaTypes
  <2>2. last' \in [Buckets -> Nat] /\ \A d \in Buckets : last'[d] <= now
    <3>1. now \in Nat /\ last \in [Buckets -> Nat] /\ \A d \in Buckets : last[d] <= now
      BY ChainConstants DEF QuotaInd, QuotaTypes
    <3> QED BY <1>1, <1>3, <3>1
  <2>3. /\ phase' \in [Callers -> {"idle", "trying", "refused", "sleeping"}]
        /\ deadline' \in [Callers -> Nat] /\ until' \in [Callers -> Nat]
        /\ granted' \in [Callers -> Nat]
    <3>1. /\ phase \in [Callers -> {"idle", "trying", "refused", "sleeping"}]
          /\ deadline \in [Callers -> Nat] /\ until \in [Callers -> Nat]
          /\ granted \in [Callers -> Nat]
      BY DEF QuotaInd, QuotaTypes
    <3>2. CASE Return(t) /\ granted' = [granted EXCEPT ![t] = @ + 1]
      BY <3>1, <3>2 DEF Return
    <3>3. CASE UNCHANGED <<phase, deadline, until, granted>>
      BY <3>1, <3>3
    <3> QED BY <1>4, <3>2, <3>3
  <2>4. \A d \in Buckets : Capacity(d)' = Capacity(d)
    BY DEF Capacity
  <2>5. UNCHANGED Buckets
    BY DEF Buckets
  <2> QED BY <1>3, <1>8, <1>9, <2>1, <2>2, <2>3, <2>4, <2>5 DEF QuotaInd, QuotaTypes
<1>11. ASSUME NEW u \in Callers PROVE Attempt(u)'
  <2>0. gen \in Nat /\ gen' = gen
    BY <1>3, ChainConstants DEF QuotaInd, QuotaTypes
  <2>1. CASE u # t
    BY <1>8, <1>9, <2>0, <2>1, AttemptKept
  <2>2. CASE u = t /\ consumed'[t] = <<>> /\ phase'[t] = "idle"
    <3>1. Len(<<>>) = 0
      OBVIOUS
    <3> QED BY <2>2, <3>1, ChainConstants DEF Attempt
  <2>3. CASE u = t /\ consumed'[t] = c /\ phase'[t] = phase[t] /\ b[2] # Len(Chain)
    <3> DEFINE n == Len(consumed[t])
    <3>1. n + 1 < Len(Chain)
      <4>1. b[2] = n + 1 /\ b[2] \in 1 .. Len(Chain) /\ b[2] # Len(Chain)
        BY <1>1, <2>3, BucketParts
      <4>2. Len(Chain) \in Nat
        BY ChainConstants
      <4> QED BY <4>1, <4>2
    <3>2. \A j \in 1 .. n : consumed[t][j][2] = j
      BY <1>3, <1>5 DEF Attempt
    <3>3. \A j \in 1 .. n + 1 : c[j][2] = j
      BY <1>1, <1>5, <1>7, <3>2
    <3>4. ASSUME NEW j \in 1 .. n + 1
          PROVE  c[j][1] <= gen /\ used'[c[j]][t] >= 1
      <4>1. CASE j = n + 1
        <5>1. c[j] = b
          BY <1>7, <4>1
        <5>2. used[b][t] \in Nat
          BY <1>1 DEF QuotaInd, QuotaTypes
        <5> QED BY <1>1, <1>9, <5>1, <5>2
      <4>2. CASE j # n + 1
        <5>1. j \in 1 .. n /\ c[j] = consumed[t][j]
          BY <1>5, <1>7, <4>2
        <5>2. consumed[t][j] \in Buckets
          BY <1>5, <5>1
        <5>3. used[consumed[t][j]][t] >= 1 /\ consumed[t][j][1] <= gen
          BY <1>5, <5>1 DEF Attempt
        <5>4. /\ used'[consumed[t][j]][t] \in Nat /\ used[consumed[t][j]][t] \in Nat
              /\ used'[consumed[t][j]][t] >= used[consumed[t][j]][t]
          BY <1>9, <5>2 DEF QuotaInd, QuotaTypes
        <5> QED BY <5>1, <5>3, <5>4
      <4> QED BY <4>1, <4>2
    <3>5. \A i, j \in 1 .. n + 1 : c[j][2] - c[i][2] = j - i
      BY <3>3
    <3>6. phase'[t] \notin {"idle", "sleeping"}
      BY <1>3, <2>3
    <3> HIDE DEF n
    <3>7. Len(c) = n + 1
      BY <1>7 DEF n
    <3> QED BY <2>0, <2>3, <3>1, <3>3, <3>4, <3>5, <3>6, <3>7 DEF Attempt
  <2> QED BY <1>8, <2>1, <2>2, <2>3
<1>12. ASSUME NEW d \in Buckets, d[1] > gen' PROVE Untouched(d)'
  <2>1. d # b /\ d[1] > gen
    <3>1. b[1] \in Int /\ d[1] \in Int /\ gen \in Int /\ gen' = gen
      BY <1>1, <1>3, BucketParts, Counters DEF QuotaInd
    <3> QED BY <1>1, <1>12, <3>1
  <2>2. tokens'[d] = tokens[d]
    BY <1>3, <2>1 DEF QuotaInd, QuotaTypes
  <2> QED BY <1>9, <2>1, <2>2 DEF Untouched, QuotaInd, Capacity
<1>13. UNCHANGED Buckets
  BY DEF Buckets
<1> QED BY <1>10, <1>11, <1>12, <1>13 DEF QuotaInd

\* A token is given back.
LEMMA RefundKeepsQuota ==
    ASSUME QuotaInd, NEW t \in Callers, Refund(t)
    PROVE  QuotaInd'
<1> DEFINE b == Head(consumed[t])
           c == Tail(consumed[t])
           n == Len(consumed[t])
<1>1. /\ phase[t] = "refused" /\ consumed[t] # <<>>
      /\ tokens' = [tokens EXCEPT ![b] = Refunded(b)]
      /\ used' = [used EXCEPT ![b][t] = @ - 1]
      /\ consumed' = [consumed EXCEPT ![t] = c]
      /\ UNCHANGED <<now, gen, born, last, phase, deadline, until, granted>>
  BY DEF Refund
<1>2. /\ consumed[t] \in Seq(Buckets) /\ n \in Nat /\ Attempt(t)
      /\ \A j \in 1 .. n : consumed[t][j] \in Buckets
  BY LenProperties, ElementOfSeq DEF QuotaInd, QuotaTypes
<1>3. /\ b = consumed[t][1] /\ b \in Buckets /\ n >= 1
      /\ c \in Seq(Buckets) /\ Len(c) = n - 1
      /\ \A j \in 1 .. n - 1 : c[j] = consumed[t][j + 1]
  BY <1>1, <1>2, HeadTailProperties, EmptySeq
<1> HIDE DEF b, c, n
<1>4. b[1] <= gen /\ used[b][t] >= 1
  <2>1. 1 \in 1 .. n
    BY <1>2, <1>3
  <2> QED BY <1>2, <1>3, <2>1 DEF Attempt, n
<1>5. /\ used \in [Buckets -> [Callers -> Nat]]
      /\ \A d \in Buckets, u \in Callers : used[d][u] \in Nat
  BY DEF QuotaInd, QuotaTypes
<1>6. /\ used' \in [Buckets -> [Callers -> Nat]]
      /\ used'[b][t] = used[b][t] - 1
      /\ \A d \in Buckets, u \in Callers : d # b \/ u # t => used'[d][u] = used[d][u]
  <2>1. used[b][t] - 1 \in Nat
    BY <1>3, <1>4, <1>5
  <2> QED BY <1>1, <1>3, <1>5, <2>1
<1>7. Refunded(b) \in Nat /\ Refunded(b) <= Capacity(b)
  <2>1. Capacity(b) \in Nat /\ Unit \in Nat /\ tokens[b] \in Nat
    BY <1>3, ChainConstants DEF QuotaInd, QuotaTypes
  <2> QED BY <2>1 DEF Refunded, Least
<1>8. QuotaTypes'
  <2>1. /\ tokens' \in [Buckets -> Nat] /\ \A d \in Buckets : tokens'[d] <= Capacity(d)
    BY <1>1, <1>3, <1>7 DEF QuotaInd, QuotaTypes
  <2>2. consumed' \in [Callers -> Seq(Buckets)]
    BY <1>1, <1>3 DEF QuotaInd, QuotaTypes
  <2>3. UNCHANGED Buckets /\ \A d \in Buckets : Capacity(d)' = Capacity(d)
    BY DEF Buckets, Capacity
  <2> QED BY <1>1, <1>6, <2>1, <2>2, <2>3 DEF QuotaInd, QuotaTypes
<1>9. consumed'[t] = c /\ \A u \in Callers : u # t => consumed'[u] = consumed[u]
  BY <1>1 DEF QuotaInd, QuotaTypes
<1>10. ASSUME NEW u \in Callers PROVE Attempt(u)'
  <2>1. CASE u # t
    <3>1. \A d \in Buckets : used'[d][u] >= used[d][u] /\ used'[d][u] \in Int
      BY <1>5, <1>6, <2>1
    <3>2. gen \in Int /\ gen' = gen /\ gen <= gen'
      BY <1>1, Counters DEF QuotaInd
    <3> QED BY <1>1, <1>9, <2>1, <3>1, <3>2, AttemptKept
  <2>2. CASE u = t
    <3>1. n < Len(Chain) /\ Len(c) < Len(Chain)
      <4>1. n < Len(Chain) /\ Len(Chain) \in Nat
        BY <1>2, ChainConstants DEF Attempt, n
      <4> QED BY <1>2, <1>3, <4>1
    <3>2. \A i, j \in 1 .. n : consumed[t][j][2] - consumed[t][i][2] = j - i
      BY <1>2 DEF Attempt, n
    <3>3. ASSUME NEW i \in 1 .. n - 1, NEW j \in 1 .. n - 1
          PROVE  c[j][2] - c[i][2] = j - i
      <4>1. i + 1 \in 1 .. n /\ j + 1 \in 1 .. n /\ (j + 1) - (i + 1) = j - i
        BY <1>2
      <4> QED BY <1>3, <3>2, <4>1
    <3>4. ASSUME NEW j \in 1 .. n - 1
          PROVE  c[j][1] <= gen /\ used'[c[j]][t] >= 1
      <4>1. j + 1 \in 1 .. n /\ 1 \in 1 .. n /\ c[j] = consumed[t][j + 1]
        BY <1>2, <1>3
      <4>2. c[j] \in Buckets /\ c[j][1] <= gen /\ used[c[j]][t] >= 1
        BY <1>2, <4>1 DEF Attempt, n
      <4>3. c[j] # b
        <5>1. c[j][2] - b[2] = (j + 1) - 1
          BY <1>3, <3>2, <4>1
        <5>2. b[2] \in Int
          BY <1>3, BucketParts
        <5> QED BY <5>1, <5>2
      <4> QED BY <1>6, <4>2, <4>3
    <3>5. phase'[t] = "refused"
      BY <1>1
    <3>6. consumed'[u] = c /\ Len(consumed'[u]) = n - 1 /\ gen' = gen
      BY <1>1, <1>3, <1>9, <2>2
    <3> HIDE <1>1
    <3> QED BY <1>3, <2>2, <3>1, <3>3, <3>4, <3>5, <3>6 DEF Attempt
  <2> QED BY <2>1, <2>2
<1>11. ASSUME NEW d \in Buckets, d[1] > gen' PROVE Untouched(d)'
  <2>1. d # b /\ d[1] > gen
    <3>1. b[1] \in Int /\ d[1] \in Int /\ gen \in Int /\ gen' = gen
      BY <1>1, <1>3, BucketParts, Counters DEF QuotaInd
    <3> QED BY <1>4, <1>11, <3>1
  <2>2. tokens'[d] = tokens[d]
    BY <1>1, <2>1 DEF QuotaInd, QuotaTypes
  <2> QED BY <1>6, <2>1, <2>2 DEF Untouched, QuotaInd, Capacity
<1>12. UNCHANGED Buckets
  BY DEF Buckets
<1> QED BY <1>8, <1>10, <1>11, <1>12 DEF QuotaInd

\* A bucket has too little.
LEMMA MissKeepsQuota ==
    ASSUME QuotaInd, NEW t \in Callers, Miss(t)
    PROVE  QuotaInd'
<1> DEFINE b == NextBucket(t)
<1>1. b \in Buckets /\ b[1] <= gen /\ b[2] = Len(consumed[t]) + 1
  BY NextBucketOnChain DEF Miss
<1>2. Refilled(b) \in Nat /\ Refilled(b) <= Capacity(b)
  BY <1>1, RefilledBounds DEF QuotaInd
<1>3. /\ phase[t] = "trying"
      /\ tokens' = [tokens EXCEPT ![b] = Refilled(b)]
      /\ last' = [last EXCEPT ![b] = now]
      /\ phase' = [phase EXCEPT ![t] = "refused"]
      /\ UNCHANGED <<now, gen, born, used, consumed, deadline, until, granted>>
  BY DEF Miss, RefillTime
<1> HIDE DEF b
<1>4. QuotaTypes'
  <2>1. /\ tokens' \in [Buckets -> Nat] /\ \A d \in Buckets : tokens'[d] <= Capacity(d)
    BY <1>1, <1>2, <1>3 DEF QuotaInd, QuotaTypes
  <2>2. last' \in [Buckets -> Nat] /\ \A d \in Buckets : last'[d] <= now
    <3>1. now \in Nat /\ last \in [Buckets -> Nat] /\ \A d \in Buckets : last[d] <= now
      BY ChainConstants DEF QuotaInd, QuotaTypes
    <3> QED BY <1>1, <1>3, <3>1
  <2>3. phase' \in [Callers -> {"idle", "trying", "refused", "sleeping"}]
    BY <1>3 DEF QuotaInd, QuotaTypes
  <2>4. UNCHANGED Buckets /\ \A d \in Buckets : Capacity(d)' = Capacity(d)
    BY DEF Buckets, Capacity
  <2> QED BY <1>3, <2>1, <2>2, <2>3, <2>4 DEF QuotaInd, QuotaTypes
<1>5. ASSUME NEW u \in Callers PROVE Attempt(u)'
  <2>1. /\ gen \in Int
        /\ \A d \in Buckets : used'[d][u] >= used[d][u] /\ used'[d][u] \in Int
    BY <1>3, Counters DEF QuotaInd, QuotaTypes
  <2>2. phase'[u] = phase[u] \/ phase'[u] = "refused"
    BY <1>3 DEF QuotaInd, QuotaTypes
  <2> QED BY <1>3, <2>1, <2>2, AttemptKept
<1>6. ASSUME NEW d \in Buckets, d[1] > gen' PROVE Untouched(d)'
  <2>1. d # b /\ d[1] > gen
    <3>1. b[1] \in Int /\ d[1] \in Int /\ gen \in Int /\ gen' = gen
      BY <1>1, <1>3, BucketParts, Counters DEF QuotaInd
    <3> QED BY <1>1, <1>6, <3>1
  <2>2. tokens'[d] = tokens[d]
    BY <1>3, <2>1 DEF QuotaInd, QuotaTypes
  <2> QED BY <1>3, <2>1, <2>2 DEF Untouched, QuotaInd, Capacity
<1>7. UNCHANGED Buckets
  BY DEF Buckets
<1> QED BY <1>4, <1>5, <1>6, <1>7 DEF QuotaInd

\* A step of the polling loop touches no bucket.
LEMMA PollingKeepsQuota ==
    ASSUME QuotaInd, NEW t \in Callers,
           Acquire(t) \/ Exhausted(t) \/ Sleep(t) \/ Wake(t)
    PROVE  QuotaInd'
<1>1. UNCHANGED <<now, gen, born, bucketVars, granted>>
  BY DEF Acquire, Exhausted, Sleep, Wake
<1>2. /\ consumed \in [Callers -> Seq(Buckets)]
      /\ phase \in [Callers -> {"idle", "trying", "refused", "sleeping"}]
      /\ deadline \in [Callers -> Nat] /\ until \in [Callers -> Nat]
      /\ now \in Nat /\ Poll \in Nat /\ MaxWait[t] \in Nat /\ gen \in Int
  BY Counters, ChainConstants DEF QuotaInd, QuotaTypes
<1>3. consumed[t] = <<>>
  BY DEF QuotaInd, Attempt, Acquire, Exhausted, Sleep, Wake
<1>4. consumed' = consumed
  BY <1>2, <1>3 DEF Acquire, Exhausted, Sleep, Wake, Return
<1>5. /\ \E p \in {"idle", "trying", "refused", "sleeping"} : phase' = [phase EXCEPT ![t] = p]
      /\ \E d \in Nat : deadline' = [deadline EXCEPT ![t] = d]
      /\ \E d \in Nat : until' = [until EXCEPT ![t] = d]
  <2>1. CASE Acquire(t)
    <3>1. now + MaxWait[t] \in Nat /\ until[t] \in Nat /\ until' = [until EXCEPT ![t] = until[t]]
      BY <1>2, <2>1 DEF Acquire
    <3> QED BY <2>1, <3>1 DEF Acquire
  <2>2. CASE Exhausted(t)
    BY <2>2 DEF Exhausted, Return
  <2>3. CASE Sleep(t)
    <3>1. Least(now + Poll, deadline[t]) \in Nat /\ deadline[t] \in Nat
      BY <1>2 DEF Least
    <3>2. deadline' = [deadline EXCEPT ![t] = deadline[t]]
      BY <1>2, <2>3 DEF Sleep
    <3> QED BY <2>3, <3>1, <3>2 DEF Sleep
  <2>4. CASE Wake(t)
    <3>1. deadline[t] \in Nat
      BY <1>2
    <3> QED BY <2>4, <3>1 DEF Wake, DeadlineOf
  <2> QED BY <2>1, <2>2, <2>3, <2>4
<1>6. /\ phase' \in [Callers -> {"idle", "trying", "refused", "sleeping"}]
      /\ deadline' \in [Callers -> Nat] /\ until' \in [Callers -> Nat]
      /\ \A u \in Callers : u # t => phase'[u] = phase[u]
  BY <1>2, <1>5
<1>7. UNCHANGED Buckets /\ \A d \in Buckets : Capacity(d)' = Capacity(d)
  BY DEF Buckets, Capacity
<1>8. QuotaTypes'
  BY <1>1, <1>4, <1>6, <1>7 DEF QuotaInd, QuotaTypes, bucketVars
<1>9. ASSUME NEW u \in Callers PROVE Attempt(u)'
  <2>1. \A d \in Buckets : used'[d][u] >= used[d][u] /\ used'[d][u] \in Int
    BY <1>1 DEF QuotaInd, QuotaTypes, bucketVars
  <2>2. gen' = gen /\ gen <= gen'
    BY <1>1, <1>2
  <2>3. phase'[u] = phase[u] \/ consumed[u] = <<>>
    BY <1>3, <1>6
  <2> QED BY <1>2, <1>4, <2>1, <2>2, <2>3, AttemptKept
<1>10. \A d \in Buckets : d[1] > gen' => Untouched(d)'
  BY <1>1, <1>7 DEF QuotaInd, Untouched, bucketVars
<1> QED BY <1>7, <1>8, <1>9, <1>10 DEF QuotaInd

\* A registration brings the first use of its buckets.
LEMMA RegisterKeepsQuota ==
    ASSUME QuotaInd, Register
    PROVE  QuotaInd'
<1>1. /\ gen < MaxRegistered /\ gen' = gen + 1
      /\ born' = [born EXCEPT ![gen + 1] = now]
      /\ last' = [b \in Buckets |-> IF b[1] = gen + 1 THEN now ELSE last[b]]
      /\ UNCHANGED <<now, tokens, used, phase, consumed, deadline, until, granted>>
  BY DEF Register, attemptVars
<1>2. /\ gen \in Int /\ now \in Nat /\ MaxRegistered \in Nat /\ gen \in 1 .. MaxRegistered
      /\ last \in [Buckets -> Nat] /\ \A b \in Buckets : last[b] <= now
  BY Counters, ChainConstants DEF QuotaInd, QuotaTypes
<1>3. gen' \in 1 .. MaxRegistered /\ gen <= gen' /\ gen' \in Int
  BY <1>1, <1>2
<1>4. last' \in [Buckets -> Nat] /\ \A b \in Buckets : last'[b] <= now
  BY <1>1, <1>2
<1>5. UNCHANGED Buckets /\ \A d \in Buckets : Capacity(d)' = Capacity(d)
  BY DEF Buckets, Capacity
<1>6. QuotaTypes'
  BY <1>1, <1>3, <1>4, <1>5 DEF QuotaInd, QuotaTypes
<1>7. ASSUME NEW u \in Callers PROVE Attempt(u)'
  <2>1. \A d \in Buckets : used'[d][u] >= used[d][u] /\ used'[d][u] \in Int
    BY <1>1 DEF QuotaInd, QuotaTypes
  <2> QED BY <1>1, <1>2, <1>3, <2>1, AttemptKept
<1>8. ASSUME NEW d \in Buckets, d[1] > gen' PROVE Untouched(d)'
  <2>1. d[1] > gen
    BY <1>1, <1>2, <1>8, BucketParts
  <2> QED BY <1>1, <1>5, <2>1 DEF QuotaInd, Untouched
<1> QED BY <1>5, <1>6, <1>7, <1>8 DEF QuotaInd

\* Time passes.
LEMMA TickKeepsQuota ==
    ASSUME QuotaInd, Tick
    PROVE  QuotaInd'
<1>1. /\ now < MaxTime /\ now' = now + 1
      /\ UNCHANGED <<gen, born, tokens, last, used, phase, consumed, deadline, until, granted>>
  BY DEF Tick, bucketVars, attemptVars
<1>2. now \in Nat /\ MaxTime \in Nat /\ gen \in Int
      /\ \A b \in Buckets : last[b] \in Nat /\ last[b] <= now
  BY Counters, ChainConstants DEF QuotaInd, QuotaTypes
<1>3. now' \in 0 .. MaxTime /\ \A b \in Buckets : last[b] <= now'
  BY <1>1, <1>2
<1>4. UNCHANGED Buckets /\ \A d \in Buckets : Capacity(d)' = Capacity(d)
  BY DEF Buckets, Capacity
<1>5. QuotaTypes'
  BY <1>1, <1>3, <1>4 DEF QuotaInd, QuotaTypes
<1>6. ASSUME NEW u \in Callers PROVE Attempt(u)'
  BY <1>1 DEF QuotaInd, Attempt
<1>7. \A d \in Buckets : d[1] > gen' => Untouched(d)'
  BY <1>1, <1>4 DEF QuotaInd, Untouched
<1> QED BY <1>4, <1>5, <1>6, <1>7 DEF QuotaInd

\* Every step keeps what an attempt holds.
LEMMA QuotaIndStep == QuotaInd /\ [QuotaNext]_quotaVars => QuotaInd'
<1> SUFFICES ASSUME QuotaInd, [QuotaNext]_quotaVars PROVE QuotaInd'
  OBVIOUS
<1>1. ASSUME NEW t \in Callers, Take(t) PROVE QuotaInd'
  BY <1>1, TakeKeepsQuota
<1>2. ASSUME NEW t \in Callers, Miss(t) PROVE QuotaInd'
  BY <1>2, MissKeepsQuota
<1>3. ASSUME NEW t \in Callers, Refund(t) PROVE QuotaInd'
  BY <1>3, RefundKeepsQuota
<1>4. ASSUME NEW t \in Callers, Acquire(t) \/ Exhausted(t) \/ Sleep(t) \/ Wake(t)
      PROVE  QuotaInd'
  BY <1>4, PollingKeepsQuota
<1>5. CASE Register
  BY <1>5, RegisterKeepsQuota
<1>6. CASE Tick
  BY <1>6, TickKeepsQuota
<1>7. CASE UNCHANGED quotaVars
  <2>1. UNCHANGED Buckets /\ (\A d \in Buckets : Capacity(d)' = Capacity(d) /\ Untouched(d)' = Untouched(d))
    BY <1>7 DEF Buckets, Capacity, Untouched, quotaVars
  <2> QED BY <1>7, <2>1 DEF quotaVars, QuotaInd, QuotaTypes, Attempt
<1> QED BY <1>1, <1>2, <1>3, <1>4, <1>5, <1>6, <1>7 DEF QuotaNext, Step

\* So an attempt always holds what it paid.
LEMMA QuotaIndHolds == QuotaSpec => []QuotaInd
  BY QuotaIndInit, QuotaIndStep, PTL DEF QuotaSpec

\* What a caller paid a bucket in a step is added to what all callers, or all
\* critical callers, have paid.
LEMMA UsedByGroup ==
    ASSUME QuotaInd, NEW C \in SUBSET Callers, NEW t \in Callers, NEW b \in Buckets,
           used' \in [Buckets -> [Callers -> Nat]],
           \A d \in Buckets, u \in Callers : d # b \/ u # t => used'[d][u] = used[d][u]
    PROVE  /\ \A d \in Buckets : /\ SumFunctionOnSet(used[d], C) \in Nat
                                 /\ SumFunctionOnSet(used'[d], C) \in Nat
           /\ \A d \in Buckets : d # b =>
                 SumFunctionOnSet(used'[d], C) = SumFunctionOnSet(used[d], C)
           /\ t \in C => SumFunctionOnSet(used'[b], C)
                           = SumFunctionOnSet(used[b], C) + (used'[b][t] - used[b][t])
           /\ t \notin C => SumFunctionOnSet(used'[b], C) = SumFunctionOnSet(used[b], C)
<1>1. IsFiniteSet(C)
  BY ChainConstants, FS_Subset
<1>2. \A d \in Buckets, u \in Callers : used[d][u] \in Nat /\ used'[d][u] \in Nat
  BY DEF QuotaInd, QuotaTypes
<1>3. ASSUME NEW d \in Buckets
      PROVE  SumFunctionOnSet(used[d], C) \in Nat /\ SumFunctionOnSet(used'[d], C) \in Nat
  BY <1>1, <1>2, SumType
<1>4. ASSUME NEW d \in Buckets, d # b
      PROVE  SumFunctionOnSet(used'[d], C) = SumFunctionOnSet(used[d], C)
  <2>1. \A u \in C : used[d][u] \in Int /\ used'[d][u] = used[d][u]
    BY <1>2, <1>4
  <2> QED BY <1>1, <2>1, SumOfSameTerms
<1>5. CASE t \in C
  <2>1. /\ \A u \in C : used[b][u] \in Int /\ used'[b][u] \in Int
        /\ \A u \in C : u # t => used'[b][u] = used[b][u]
    BY <1>2
  <2>2. SumFunctionOnSet(used'[b], C)
          = SumFunctionOnSet(used[b], C) + (used'[b][t] - used[b][t])
    BY <1>1, <1>5, <2>1, SumOfChanged
  <2> QED BY <1>3, <1>4, <1>5, <2>2
<1>6. CASE t \notin C
  <2>1. \A u \in C : used[b][u] \in Int /\ used'[b][u] = used[b][u]
    BY <1>2, <1>6
  <2>2. SumFunctionOnSet(used'[b], C) = SumFunctionOnSet(used[b], C)
    BY <1>1, <2>1, SumOfSameTerms
  <2> QED BY <1>3, <1>4, <1>6, <2>2
<1> QED BY <1>5, <1>6

\* The steps that change a bucket, and how.
LEMMA BucketSteps ==
    ASSUME QuotaInd, [QuotaNext]_quotaVars
    PROVE  \/ UNCHANGED <<tokens, last, used, born>>
           \/ Register
           \/ \E t \in Callers, b \in Buckets :
                 /\ UNCHANGED born
                 /\ \A d \in Buckets : d # b => tokens'[d] = tokens[d] /\ last'[d] = last[d]
                 /\ used' \in [Buckets -> [Callers -> Nat]]
                 /\ \A d \in Buckets, u \in Callers :
                       d # b \/ u # t => used'[d][u] = used[d][u]
                 /\ \/ /\ Available(t, b) >= Unit
                       /\ tokens'[b] = Refilled(b) - Unit /\ last'[b] = now
                       /\ used'[b][t] = used[b][t] + 1
                    \/ /\ tokens'[b] = Refilled(b) /\ last'[b] = now
                       /\ used'[b][t] = used[b][t]
                    \/ /\ tokens'[b] = Refunded(b) /\ last'[b] = last[b]
                       /\ used'[b][t] = used[b][t] - 1
<1>1. /\ used \in [Buckets -> [Callers -> Nat]]
      /\ tokens \in [Buckets -> Nat] /\ last \in [Buckets -> Nat]
      /\ \A d \in Buckets, u \in Callers : used[d][u] \in Nat
  BY DEF QuotaInd, QuotaTypes
<1>2. used' \in [Buckets -> [Callers -> Nat]]
  <2>1. QuotaInd'
    BY QuotaIndStep
  <2>2. UNCHANGED Buckets
    BY DEF Buckets
  <2> QED BY <2>1, <2>2 DEF QuotaInd, QuotaTypes
<1>3. ASSUME NEW t \in Callers, Take(t)
      PROVE  \E b \in Buckets :
                 /\ UNCHANGED born
                 /\ \A d \in Buckets : d # b => tokens'[d] = tokens[d] /\ last'[d] = last[d]
                 /\ \A d \in Buckets, u \in Callers :
                       d # b \/ u # t => used'[d][u] = used[d][u]
                 /\ Available(t, b) >= Unit
                 /\ tokens'[b] = Refilled(b) - Unit /\ last'[b] = now
                 /\ used'[b][t] = used[b][t] + 1
  <2> DEFINE b == NextBucket(t)
  <2>1. b \in Buckets
    BY <1>3, NextBucketOnChain DEF Take
  <2>2. /\ Available(t, b) >= Unit /\ UNCHANGED born
        /\ tokens' = [tokens EXCEPT ![b] = Refilled(b) - Unit]
        /\ last' = [last EXCEPT ![b] = now]
        /\ used' = [used EXCEPT ![b][t] = @ + 1]
    BY <1>3 DEF Take, RefillTime
  <2> HIDE DEF b
  <2> QED BY <1>1, <2>1, <2>2
<1>4. ASSUME NEW t \in Callers, Miss(t)
      PROVE  \E b \in Buckets :
                 /\ UNCHANGED born
                 /\ \A d \in Buckets : d # b => tokens'[d] = tokens[d] /\ last'[d] = last[d]
                 /\ \A d \in Buckets, u \in Callers : used'[d][u] = used[d][u]
                 /\ tokens'[b] = Refilled(b) /\ last'[b] = now
  <2> DEFINE b == NextBucket(t)
  <2>1. b \in Buckets
    BY <1>4, NextBucketOnChain DEF Miss
  <2>2. /\ UNCHANGED <<born, used>>
        /\ tokens' = [tokens EXCEPT ![b] = Refilled(b)]
        /\ last' = [last EXCEPT ![b] = now]
    BY <1>4 DEF Miss, RefillTime
  <2> HIDE DEF b
  <2> QED BY <1>1, <2>1, <2>2
<1>5. ASSUME NEW t \in Callers, Refund(t)
      PROVE  \E b \in Buckets :
                 /\ UNCHANGED born
                 /\ \A d \in Buckets : d # b => tokens'[d] = tokens[d] /\ last'[d] = last[d]
                 /\ \A d \in Buckets, u \in Callers :
                       d # b \/ u # t => used'[d][u] = used[d][u]
                 /\ tokens'[b] = Refunded(b) /\ last'[b] = last[b]
                 /\ used'[b][t] = used[b][t] - 1
  <2> DEFINE b == Head(consumed[t])
  <2>1. b \in Buckets
    BY <1>5, HeadTailProperties DEF Refund, QuotaInd, QuotaTypes
  <2>2. /\ UNCHANGED <<born, last>>
        /\ tokens' = [tokens EXCEPT ![b] = Refunded(b)]
        /\ used' = [used EXCEPT ![b][t] = @ - 1]
    BY <1>5 DEF Refund
  <2> HIDE DEF b
  <2> QED BY <1>1, <2>1, <2>2
<1>6. ASSUME NEW t \in Callers, Acquire(t) \/ Exhausted(t) \/ Sleep(t) \/ Wake(t)
      PROVE  UNCHANGED <<tokens, last, used, born>>
  BY <1>6 DEF Acquire, Exhausted, Sleep, Wake, bucketVars
<1>7. Tick \/ UNCHANGED quotaVars => UNCHANGED <<tokens, last, used, born>>
  BY DEF Tick, bucketVars, quotaVars
<1>8. CASE Register \/ Tick \/ UNCHANGED quotaVars
  BY <1>7, <1>8
<1>9. CASE \E t \in Callers : Acquire(t) \/ Exhausted(t) \/ Sleep(t) \/ Wake(t)
  BY <1>6, <1>9
<1>10. CASE \E t \in Callers : Take(t)
  <2>1. PICK t \in Callers : Take(t)
    BY <1>10
  <2> QED BY <1>2, <1>3, <2>1
<1>11. CASE \E t \in Callers : Miss(t)
  <2>1. PICK t \in Callers : Miss(t)
    BY <1>11
  <2> QED BY <1>2, <1>4, <2>1
<1>12. CASE \E t \in Callers : Refund(t)
  <2>1. PICK t \in Callers : Refund(t)
    BY <1>12
  <2> QED BY <1>2, <1>5, <2>1
<1> QED BY <1>8, <1>9, <1>10, <1>11, <1>12 DEF QuotaNext, Step

\* Products of integers.
LEMMA Product ==
    ASSUME NEW r \in Int, NEW a \in Int, NEW c \in Int
    PROVE  r * (a + c) = r * a + r * c /\ r * a \in Int /\ a * r = r * a
  OBVIOUS

\* Every step changes what was spent from a bucket by what it gave or took.
LEMMA SpentStep ==
    ASSUME QuotaInd, SpentWithinQuota, [QuotaNext]_quotaVars
    PROVE  SpentWithinQuota'
<1> DEFINE Spent(d)   == Unit * UsedOf(d)
           Accrued(d) == Rate(d) * (last[d] - born[d[1]])
<1>1. \A d \in Buckets : tokens[d] + Spent(d) <= Capacity(d) + Accrued(d)
  BY DEF SpentWithinQuota
<1>2. UNCHANGED Buckets /\ \A d \in Buckets : Capacity(d)' = Capacity(d) /\ Rate(d)' = Rate(d)
  BY DEF Buckets, Capacity, Rate
<1>3. ASSUME NEW d \in Buckets
      PROVE  /\ tokens[d] \in Nat /\ Capacity(d) \in Nat /\ Rate(d) \in Nat
             /\ last[d] \in Int /\ born[d[1]] \in Int /\ now \in Int /\ Unit \in Int
             /\ now - last[d] \in Nat
             /\ UsedOf(d) = SumFunctionOnSet(used[d], Callers)
  <2>1. d[1] \in 1 .. MaxRegistered
    BY BucketParts
  <2> QED BY <2>1, ChainConstants DEF QuotaInd, QuotaTypes, UsedOf
<1>4. CASE UNCHANGED <<tokens, last, used, born>>
  BY <1>2, <1>4 DEF SpentWithinQuota, UsedOf
<1>5. CASE Register
  <2>1. /\ gen' = gen + 1 /\ born' = [born EXCEPT ![gen + 1] = now]
        /\ last' = [d \in Buckets |-> IF d[1] = gen + 1 THEN now ELSE last[d]]
        /\ UNCHANGED <<tokens, used>>
    BY <1>5 DEF Register
  <2>2. gen \in Int /\ born \in [1 .. MaxRegistered -> 0 .. MaxTime] /\ gen + 1 \in 1 .. MaxRegistered
    BY <1>5, Counters, ChainConstants DEF QuotaInd, QuotaTypes, Register
  <2>3. ASSUME NEW d \in Buckets
        PROVE  tokens'[d] + Unit * UsedOf(d)' <= Capacity(d) + Rate(d) * (last'[d] - born'[d[1]])
    <3>1. UsedOf(d)' = UsedOf(d) /\ tokens'[d] = tokens[d] /\ d[1] \in 1 .. MaxRegistered
          /\ d[1] \in Int
      BY <2>1, BucketParts DEF UsedOf
    <3>2. CASE d[1] = gen + 1
      <4>1. Untouched(d)
        BY <2>2, <3>2 DEF QuotaInd
      <4>2. UsedOf(d) = 0
        <5>1. \A u \in Callers : used[d][u] = 0
          BY <4>1 DEF Untouched
        <5>2. IsFiniteSet(Callers)
          BY ChainConstants
        <5> QED BY <5>1, <5>2, SumOfNothing DEF UsedOf
      <4>3. last'[d] = now /\ born'[d[1]] = now
        BY <2>1, <2>2, <3>2
      <4>4. tokens[d] = Capacity(d)
        BY <4>1 DEF Untouched
      <4>5. last'[d] - born'[d[1]] = 0
        BY <1>3, <4>3
      <4>6. Rate(d) * 0 = 0 /\ Unit * 0 = 0
        BY <1>3
      <4> QED BY <1>3, <3>1, <4>2, <4>4, <4>5, <4>6
    <3>3. CASE d[1] # gen + 1
      <4>1. last'[d] = last[d] /\ born'[d[1]] = born[d[1]]
        BY <2>1, <2>2, <3>1, <3>3
      <4> QED BY <1>1, <3>1, <4>1
    <3> QED BY <3>2, <3>3
  <2> QED BY <1>2, <2>3 DEF SpentWithinQuota
<1>6. ASSUME NEW t \in Callers, NEW b \in Buckets,
             UNCHANGED born,
             \A d \in Buckets : d # b => tokens'[d] = tokens[d] /\ last'[d] = last[d],
             used' \in [Buckets -> [Callers -> Nat]],
             \A d \in Buckets, u \in Callers : d # b \/ u # t => used'[d][u] = used[d][u],
             \/ /\ tokens'[b] = Refilled(b) - Unit /\ last'[b] = now
                /\ used'[b][t] = used[b][t] + 1
             \/ /\ tokens'[b] = Refilled(b) /\ last'[b] = now
                /\ used'[b][t] = used[b][t]
             \/ /\ tokens'[b] = Refunded(b) /\ last'[b] = last[b]
                /\ used'[b][t] = used[b][t] - 1
      PROVE  SpentWithinQuota'
  <2>1. /\ \A d \in Buckets : UsedOf(d) \in Nat /\ UsedOf(d)' \in Nat
        /\ \A d \in Buckets : d # b => UsedOf(d)' = UsedOf(d)
        /\ UsedOf(b)' = UsedOf(b) + (used'[b][t] - used[b][t])
    <3>1. Callers \in SUBSET Callers
      OBVIOUS
    <3>2. /\ \A d \in Buckets : /\ SumFunctionOnSet(used[d], Callers) \in Nat
                                /\ SumFunctionOnSet(used'[d], Callers) \in Nat
          /\ \A d \in Buckets : d # b =>
                SumFunctionOnSet(used'[d], Callers) = SumFunctionOnSet(used[d], Callers)
          /\ SumFunctionOnSet(used'[b], Callers)
               = SumFunctionOnSet(used[b], Callers) + (used'[b][t] - used[b][t])
      BY <1>6, <3>1, UsedByGroup
    <3> QED BY <3>2 DEF UsedOf
  <2>2. used[b][t] \in Int
    BY DEF QuotaInd, QuotaTypes
  <2> DEFINE r     == Rate(b)
             gone  == now - last[b]
             lived == last[b] - born[b[1]]
             paid  == UsedOf(b)
             cap   == Capacity(b)
             x     == tokens[b]
             y     == Refilled(b)
  <2>3. /\ r \in Int /\ gone \in Nat /\ lived \in Int /\ paid \in Int /\ cap \in Int
        /\ Unit \in Int /\ x \in Nat /\ now - born[b[1]] = lived + gone
    BY <1>3, <2>1
  <2>4. y \in Nat /\ y <= x + gone * r
    BY RefilledBounds DEF QuotaInd
  <2>5. x + Unit * paid <= cap + r * lived
    BY <1>1
  <2>6. Refunded(b) \in Int /\ Refunded(b) <= x + Unit
    BY <2>3 DEF Refunded, Least
  <2> HIDE DEF r, gone, lived, paid, cap, x, y
  <2>7. /\ r * (lived + gone) = r * lived + r * gone /\ gone * r = r * gone
        /\ r * lived \in Int /\ r * gone \in Int
    BY <2>3, Product
  <2>8. /\ Unit * (paid + 1) = Unit * paid + Unit /\ Unit * (paid - 1) = Unit * paid - Unit
        /\ Unit * paid \in Int
    <3>1. Unit * 1 = Unit /\ Unit * (-1) = -Unit /\ paid - 1 = paid + (-1)
      BY <2>3
    <3>2. /\ Unit * (paid + 1) = Unit * paid + Unit * 1
          /\ Unit * (paid + (-1)) = Unit * paid + Unit * (-1) /\ Unit * paid \in Int
      BY <2>3, Product
    <3> QED BY <2>3, <3>1, <3>2
  <2>9. tokens'[b] + Unit * UsedOf(b)' <= cap + r * (last'[b] - born[b[1]])
    <3>1. CASE tokens'[b] = y - Unit /\ last'[b] = now /\ used'[b][t] = used[b][t] + 1
      <4>1. UsedOf(b)' = paid + 1
        BY <2>1, <2>2, <3>1 DEF paid
      <4>2. (y - Unit) + Unit * (paid + 1) <= cap + r * (lived + gone)
        BY <2>3, <2>4, <2>5, <2>7, <2>8
      <4> QED BY <2>3, <3>1, <4>1, <4>2
    <3>2. CASE tokens'[b] = y /\ last'[b] = now /\ used'[b][t] = used[b][t]
      <4>1. UsedOf(b)' = paid
        BY <2>1, <2>2, <3>2 DEF paid
      <4>2. y + Unit * paid <= cap + r * (lived + gone)
        BY <2>3, <2>4, <2>5, <2>7, <2>8
      <4> QED BY <2>3, <3>2, <4>1, <4>2
    <3>3. CASE tokens'[b] = Refunded(b) /\ last'[b] = last[b] /\ used'[b][t] = used[b][t] - 1
      <4>1. UsedOf(b)' = paid - 1
        BY <2>1, <2>2, <3>3 DEF paid
      <4>2. Refunded(b) + Unit * (paid - 1) <= cap + r * lived
        BY <2>3, <2>5, <2>6, <2>7, <2>8
      <4> QED BY <2>3, <3>3, <4>1, <4>2 DEF lived
    <3> QED BY <1>6, <3>1, <3>2, <3>3 DEF y
  <2>10. \A d \in Buckets :
            tokens'[d] + Unit * UsedOf(d)' <= Capacity(d) + Rate(d) * (last'[d] - born'[d[1]])
    <3> SUFFICES ASSUME NEW d \in Buckets
                 PROVE  tokens'[d] + Unit * UsedOf(d)'
                          <= Capacity(d) + Rate(d) * (last'[d] - born'[d[1]])
      OBVIOUS
    <3>1. CASE d = b
      BY <1>6, <2>9, <3>1 DEF cap, r
    <3>2. CASE d # b
      BY <1>1, <1>6, <2>1, <3>2
    <3> QED BY <3>1, <3>2
  <2> QED BY <1>2, <2>10 DEF SpentWithinQuota
<1> HIDE DEF Spent, Accrued
<1> QED BY <1>4, <1>5, <1>6, BucketSteps

\* Nothing is spent at the start.
LEMMA SpentInit == QuotaInit => SpentWithinQuota
<1> SUFFICES ASSUME QuotaInit, NEW b \in Buckets
             PROVE  tokens[b] + Unit * UsedOf(b)
                      <= Capacity(b) + Rate(b) * (last[b] - born[b[1]])
  BY DEF SpentWithinQuota
<1>1. UsedOf(b) = 0
  <2>1. \A u \in Callers : used[b][u] = 0
    BY DEF QuotaInit
  <2>2. IsFiniteSet(Callers)
    BY ChainConstants
  <2> QED BY <2>1, <2>2, SumOfNothing DEF UsedOf
<1>2. tokens[b] = Capacity(b) /\ last[b] = 0 /\ born[b[1]] = 0
  BY BucketParts DEF QuotaInit
<1>3. Capacity(b) \in Nat /\ Rate(b) \in Nat /\ Unit \in Nat
  BY ChainConstants
<1>4. Rate(b) * 0 = 0 /\ Unit * 0 = 0
  BY <1>3
<1> QED BY <1>1, <1>2, <1>3, <1>4

\* What callers took from a bucket and kept never exceeds its capacity and what
\* it has accrued, for every number of callers, buckets and registrations
\* (_TokenBucket._refill, try_acquire, refund).
THEOREM SpentWithinQuotaHolds == QuotaSpec => []SpentWithinQuota
  BY SpentInit, SpentStep, QuotaIndHolds, PTL DEF QuotaSpec

\* What callers of lower priority may take leaves the reserve alone.
LEMMA ReserveStep ==
    ASSUME QuotaInd, ReserveForCritical, [QuotaNext]_quotaVars
    PROVE  ReserveForCritical'
<1> DEFINE Paid(d) == SumFunctionOnSet(used[d], Critical)
<1>1. \A d \in Buckets : tokens[d] + Unit * Paid(d) >= Reserved(d)
  BY DEF ReserveForCritical
<1>2. UNCHANGED Buckets /\ \A d \in Buckets : Reserved(d)' = Reserved(d)
  BY DEF Buckets, Reserved
<1>3. CASE UNCHANGED <<tokens, last, used, born>> \/ Register
  <2>1. UNCHANGED <<tokens, used>>
    BY <1>3 DEF Register
  <2> QED BY <1>2, <2>1 DEF ReserveForCritical
<1>4. ASSUME NEW t \in Callers, NEW b \in Buckets,
             \A d \in Buckets : d # b => tokens'[d] = tokens[d] /\ last'[d] = last[d],
             used' \in [Buckets -> [Callers -> Nat]],
             \A d \in Buckets, u \in Callers : d # b \/ u # t => used'[d][u] = used[d][u],
             \/ /\ Available(t, b) >= Unit
                /\ tokens'[b] = Refilled(b) - Unit /\ last'[b] = now
                /\ used'[b][t] = used[b][t] + 1
             \/ /\ tokens'[b] = Refilled(b) /\ last'[b] = now
                /\ used'[b][t] = used[b][t]
             \/ /\ tokens'[b] = Refunded(b) /\ last'[b] = last[b]
                /\ used'[b][t] = used[b][t] - 1
      PROVE  ReserveForCritical'
  <2> DEFINE New(d) == SumFunctionOnSet(used'[d], Critical)
             paid   == Paid(b)
             new    == New(b)
             cap    == Capacity(b)
             kept   == Reserved(b)
             x      == tokens[b]
             y      == Refilled(b)
  <2>1. /\ \A d \in Buckets : d # b => New(d) = Paid(d)
        /\ paid \in Nat /\ new \in Nat
        /\ t \in Critical => new = paid + (used'[b][t] - used[b][t])
        /\ t \notin Critical => new = paid
    <3>1. /\ used' \in [Buckets -> [Callers -> Nat]]
          /\ \A d \in Buckets, u \in Callers :
                d # b \/ u # t => used'[d][u] = used[d][u]
      BY <1>4
    <3>2. Critical \in SUBSET Callers
      BY ChainConstants
    <3> QED BY <3>1, <3>2, UsedByGroup
  <2>2. used[b][t] \in Int
    BY DEF QuotaInd, QuotaTypes
  <2>3. /\ cap \in Nat /\ kept \in Nat /\ kept <= cap /\ Unit \in Nat /\ x \in Nat
    BY ChainConstants DEF QuotaInd, QuotaTypes
  <2>4. y \in Nat /\ y >= x
    BY RefilledBounds DEF QuotaInd
  <2>5. Available(t, b) = IF t \in Critical THEN y ELSE y - kept
    BY DEF Available
  <2>6. Refunded(b) = Least(cap, x + Unit)
    BY DEF Refunded
  <2>7. x + Unit * paid >= kept
    BY <1>1
  <2> HIDE DEF paid, new, cap, kept, x, y, New
  <2>8. /\ Unit * (paid + 1) = Unit * paid + Unit /\ Unit * (paid - 1) = Unit * paid - Unit
        /\ Unit * paid \in Nat /\ Unit * new \in Nat
    <3>1. Unit * 1 = Unit /\ Unit * (-1) = -Unit /\ paid - 1 = paid + (-1)
      BY <2>1, <2>3
    <3>2. /\ Unit * (paid + 1) = Unit * paid + Unit * 1
          /\ Unit * (paid + (-1)) = Unit * paid + Unit * (-1)
      BY <2>1, <2>3, Product
    <3>3. Unit * paid \in Nat /\ Unit * new \in Nat
      BY <2>1, <2>3, Accrues
    <3> QED BY <3>1, <3>2, <3>3
  <2>9. tokens'[b] + Unit * new >= kept
    <3>1. CASE /\ Available(t, b) >= Unit /\ tokens'[b] = y - Unit
               /\ used'[b][t] = used[b][t] + 1
      <4>1. CASE t \in Critical
        <5>1. new = paid + 1
          BY <2>1, <2>2, <3>1, <4>1
        <5> QED BY <2>3, <2>4, <2>7, <2>8, <3>1, <5>1
      <4>2. CASE t \notin Critical
        BY <2>3, <2>4, <2>5, <2>8, <3>1, <4>2
      <4> QED BY <4>1, <4>2
    <3>2. CASE tokens'[b] = y /\ used'[b][t] = used[b][t]
      <4>1. new = paid
        BY <2>1, <2>2, <3>2
      <4> QED BY <2>3, <2>4, <2>7, <2>8, <3>2, <4>1
    <3>3. CASE tokens'[b] = Refunded(b) /\ used'[b][t] = used[b][t] - 1
      <4>1. new = paid - 1 \/ new = paid
        BY <2>1, <2>2, <3>3
      <4>2. tokens'[b] = cap \/ tokens'[b] = x + Unit
        BY <2>6, <3>3 DEF Least
      <4> QED BY <2>3, <2>7, <2>8, <4>1, <4>2
    <3> QED BY <1>4, <3>1, <3>2, <3>3 DEF y
  <2>10. ASSUME NEW d \in Buckets
         PROVE  tokens'[d] + Unit * New(d) >= Reserved(d)
    <3>1. CASE d = b
      BY <2>9, <3>1 DEF new, kept
    <3>2. CASE d # b
      BY <1>1, <1>4, <2>1, <3>2
    <3> QED BY <3>1, <3>2
  <2> QED BY <1>2, <2>10 DEF ReserveForCritical, New
<1> HIDE DEF Paid
<1> QED BY <1>3, <1>4, BucketSteps

\* Every bucket is full at the start.
LEMMA ReserveInit == QuotaInit => ReserveForCritical
<1> SUFFICES ASSUME QuotaInit, NEW b \in Buckets
             PROVE  tokens[b] + Unit * SumFunctionOnSet(used[b], Critical) >= Reserved(b)
  BY DEF ReserveForCritical
<1>1. SumFunctionOnSet(used[b], Critical) = 0
  <2>1. IsFiniteSet(Critical) /\ \A u \in Critical : used[b][u] = 0
    BY ChainConstants DEF QuotaInit
  <2> QED BY <2>1, SumOfNothing
<1>2. tokens[b] = Capacity(b) /\ Unit * 0 = 0
  BY ChainConstants DEF QuotaInit
<1>3. Reserved(b) <= Capacity(b) /\ Reserved(b) \in Nat /\ Capacity(b) \in Nat
  BY ChainConstants
<1> QED BY <1>1, <1>2, <1>3

\* Whatever is missing from a bucket's reserve was taken by critical callers
\* (_TokenBucket.try_acquire, reserved_headroom).
THEOREM ReserveHolds == QuotaSpec => []ReserveForCritical
  BY ReserveInit, ReserveStep, QuotaIndHolds, PTL DEF QuotaSpec

\* What a caller paid at a level of the chain, to the buckets of every
\* registration.
Paid(t, i) == SumFunction([g \in 1 .. MaxRegistered |-> used[<<g, i>>][t]])

\* A step that changes what one caller paid one bucket.
LEMMA PaidAtLevel ==
    ASSUME QuotaInd, NEW t \in Callers, NEW b \in Buckets,
           used' \in [Buckets -> [Callers -> Nat]],
           \A d \in Buckets, u \in Callers : d # b \/ u # t => used'[d][u] = used[d][u]
    PROVE  /\ \A u \in Callers, i \in DOMAIN Chain : Paid(u, i) \in Int
           /\ \A u \in Callers, i \in DOMAIN Chain :
                 u # t \/ i # b[2] => Paid(u, i)' = Paid(u, i)
           /\ \A i \in DOMAIN Chain : i = b[2] =>
                 Paid(t, i)' = Paid(t, i) + (used'[b][t] - used[b][t])
<1> DEFINE G == 1 .. MaxRegistered
           Old(u, i) == [g \in G |-> used[<<g, i>>][u]]
           New(u, i) == [g \in G |-> used'[<<g, i>>][u]]
<1>1. IsFiniteSet(G)
  BY ChainConstants, FS_Interval
<1>2. ASSUME NEW u \in Callers, NEW i \in DOMAIN Chain
      PROVE  /\ Paid(u, i) = SumFunctionOnSet(Old(u, i), G)
             /\ Paid(u, i)' = SumFunctionOnSet(New(u, i), G)
             /\ \A g \in G : Old(u, i)[g] = used[<<g, i>>][u] /\ Old(u, i)[g] \in Int
             /\ \A g \in G : New(u, i)[g] = used'[<<g, i>>][u] /\ New(u, i)[g] \in Int
             /\ Paid(u, i) \in Int
  <2>1. \A g \in G : <<g, i>> \in Buckets
    BY DEF Buckets
  <2>2. /\ \A g \in G : Old(u, i)[g] = used[<<g, i>>][u] /\ Old(u, i)[g] \in Int
        /\ \A g \in G : New(u, i)[g] = used'[<<g, i>>][u] /\ New(u, i)[g] \in Int
    <3>1. \A d \in Buckets : used[d][u] \in Int /\ used'[d][u] \in Int
      BY DEF QuotaInd, QuotaTypes
    <3>2. \A g \in G : used[<<g, i>>][u] \in Int /\ used'[<<g, i>>][u] \in Int
      BY <2>1, <3>1
    <3> QED BY <3>2
  <2>3. /\ DOMAIN Old(u, i) = G /\ DOMAIN New(u, i) = G
        /\ Paid(u, i) = SumFunction(Old(u, i)) /\ Paid(u, i)' = SumFunction(New(u, i))
    BY DEF Paid
  <2> DEFINE f == Old(u, i)
             h == New(u, i)
  <2> HIDE DEF Old, New, G, f, h
  <2>4. SumFunction(f) = SumFunctionOnSet(f, G) /\ SumFunction(h) = SumFunctionOnSet(h, G)
    <3>1. DOMAIN f = G /\ DOMAIN h = G
      BY <2>3 DEF f, h
    <3> QED BY <3>1 DEF SumFunction, SumFunctionOnSet, FoldFunction
  <2>5. SumFunctionOnSet(f, G) \in Int
    BY <1>1, <2>2, SumType DEF f
  <2> QED BY <2>2, <2>3, <2>4, <2>5 DEF f, h
<1>3. ASSUME NEW u \in Callers, NEW i \in DOMAIN Chain, u # t \/ i # b[2]
      PROVE  Paid(u, i)' = Paid(u, i)
  <2> DEFINE f == Old(u, i)
             h == New(u, i)
  <2>1. \A g \in G : h[g] = f[g] /\ f[g] \in Int
    <3>1. \A g \in G : <<g, i>> \in Buckets /\ (<<g, i>> # b \/ u # t)
      BY <1>3 DEF Buckets
    <3>2. \A g \in G : used'[<<g, i>>][u] = used[<<g, i>>][u]
      BY <3>1
    <3> QED BY <1>2, <3>2
  <2>2. Paid(u, i) = SumFunctionOnSet(f, G) /\ Paid(u, i)' = SumFunctionOnSet(h, G)
    BY <1>2
  <2> HIDE DEF f, h, G
  <2>3. SumFunctionOnSet(h, G) = SumFunctionOnSet(f, G)
    BY <1>1, <2>1, SumOfSameTerms
  <2> QED BY <2>2, <2>3
<1>4. ASSUME NEW i \in DOMAIN Chain, i = b[2]
      PROVE  Paid(t, i)' = Paid(t, i) + (used'[b][t] - used[b][t])
  <2> DEFINE f == Old(t, i)
             h == New(t, i)
             x == b[1]
  <2>1. x \in G /\ <<x, i>> = b
    BY <1>4, BucketParts DEF Buckets
  <2>2. /\ \A g \in G : f[g] \in Int /\ h[g] \in Int
        /\ \A g \in G : g # x => h[g] = f[g]
    <3>1. \A g \in G : <<g, i>> \in Buckets /\ (g # x => <<g, i>> # b)
      BY <1>4, <2>1 DEF Buckets
    <3>2. \A g \in G : g # x => used'[<<g, i>>][t] = used[<<g, i>>][t]
      BY <3>1
    <3> QED BY <1>2, <3>2
  <2>3. /\ Paid(t, i) = SumFunctionOnSet(f, G) /\ Paid(t, i)' = SumFunctionOnSet(h, G)
        /\ f[x] = used[b][t] /\ h[x] = used'[b][t]
    BY <1>2, <2>1
  <2> HIDE DEF f, h, G, x
  <2>4. x \in G
    BY <2>1
  <2>5. SumFunctionOnSet(h, G) = SumFunctionOnSet(f, G) + (h[x] - f[x])
    BY <1>1, <2>2, <2>4, SumOfChanged
  <2> QED BY <2>3, <2>5
<1> QED BY <1>2, <1>3, <1>4

\* What is neither granted nor held was given back.
Balanced(t, i) ==
    Paid(t, i) = granted[t] + (IF Holds(consumed[t], i) THEN 1 ELSE 0)

\* The buckets an attempt holds at a level are one or none.
LEMMA LeakIsBalance ==
    ASSUME QuotaInd, NEW t \in Callers, NEW i \in DOMAIN Chain
    PROVE  Cardinality({j \in DOMAIN consumed[t] : consumed[t][j][2] = i})
             = IF Holds(consumed[t], i) THEN 1 ELSE 0
<1>1. consumed[t] \in Seq(Buckets) /\ Climbing(consumed[t])
  BY DEF QuotaInd, QuotaTypes, Attempt, Climbing
<1> QED BY <1>1, OneBucketALevel

\* A step that leaves what was taken, held and granted.
LEMMA BalanceKept ==
    ASSUME \A t \in Callers, i \in DOMAIN Chain : Balanced(t, i),
           UNCHANGED <<used, consumed, granted>>
    PROVE  \A t \in Callers, i \in DOMAIN Chain : Balanced(t, i)'
  BY DEF Balanced, Paid

\* A token taken is held, or granted with the others.
LEMMA TakeBalanced ==
    ASSUME QuotaInd, \A t \in Callers, i \in DOMAIN Chain : Balanced(t, i),
           NEW t \in Callers, Take(t)
    PROVE  \A u \in Callers, i \in DOMAIN Chain : Balanced(u, i)'
<1> DEFINE b == NextBucket(t)
           n == Len(consumed[t])
           c == Append(consumed[t], b)
<1>1. /\ b \in Buckets /\ b[2] = n + 1 /\ n \in Nat
      /\ consumed[t] \in Seq(Buckets) /\ \A j \in 1 .. n : consumed[t][j][2] = j
  BY NextBucketOnChain, LenProperties DEF Take, QuotaInd, QuotaTypes, Attempt
<1>2. /\ used' = [used EXCEPT ![b][t] = @ + 1]
      /\ \/ /\ b[2] = Len(Chain) /\ consumed' = [consumed EXCEPT ![t] = <<>>]
            /\ granted' = [granted EXCEPT ![t] = @ + 1]
         \/ /\ b[2] # Len(Chain) /\ consumed' = [consumed EXCEPT ![t] = c]
            /\ granted' = granted
  BY DEF Take, Return
<1>3. Len(c) = n + 1 /\ (\A j \in 1 .. n : c[j] = consumed[t][j]) /\ c[n + 1] = b
  BY <1>1, AppendProperties
<1>4. /\ used \in [Buckets -> [Callers -> Nat]] /\ granted \in [Callers -> Nat]
      /\ consumed \in [Callers -> Seq(Buckets)]
      /\ DOMAIN Chain = 1 .. Len(Chain) /\ Len(Chain) \in Nat
  BY ChainConstants DEF QuotaInd, QuotaTypes
<1> HIDE DEF b, n, c
<1>5. /\ used' \in [Buckets -> [Callers -> Nat]]
      /\ used'[b][t] - used[b][t] = 1
      /\ \A d \in Buckets, u \in Callers : d # b \/ u # t => used'[d][u] = used[d][u]
  <2>1. used[b][t] \in Nat /\ used[b][t] + 1 \in Nat
    BY <1>1, <1>4
  <2>2. used'[b][t] = used[b][t] + 1
    BY <1>1, <1>2, <1>4
  <2>3. used' \in [Buckets -> [Callers -> Nat]]
    BY <1>1, <1>2, <1>4, <2>1
  <2>4. \A d \in Buckets, u \in Callers : d # b \/ u # t => used'[d][u] = used[d][u]
    BY <1>1, <1>2, <1>4
  <2> QED BY <2>1, <2>2, <2>3, <2>4
<1>6. /\ \A u \in Callers, i \in DOMAIN Chain : Paid(u, i) \in Int
      /\ \A u \in Callers, i \in DOMAIN Chain : u # t \/ i # b[2] => Paid(u, i)' = Paid(u, i)
      /\ \A i \in DOMAIN Chain : i = b[2] => Paid(t, i)' = Paid(t, i) + 1
  <2>1. /\ \A u \in Callers, i \in DOMAIN Chain : Paid(u, i) \in Int
        /\ \A u \in Callers, i \in DOMAIN Chain :
              u # t \/ i # b[2] => Paid(u, i)' = Paid(u, i)
        /\ \A i \in DOMAIN Chain : i = b[2] =>
              Paid(t, i)' = Paid(t, i) + (used'[b][t] - used[b][t])
    BY <1>1, <1>5, PaidAtLevel
  <2> QED BY <1>5, <2>1
<1>7. \A i \in DOMAIN Chain : Holds(consumed[t], i) <=> i \in 1 .. n
  BY <1>1 DEF Holds, n
<1>8. ASSUME NEW i \in DOMAIN Chain PROVE Balanced(t, i)'
  <2>1. Paid(t, i) = granted[t] + (IF i \in 1 .. n THEN 1 ELSE 0)
    BY <1>7 DEF Balanced
  <2>2. granted[t] \in Nat /\ i \in Int
    BY <1>4
  <2>3. CASE b[2] = Len(Chain) /\ consumed' = [consumed EXCEPT ![t] = <<>>]
             /\ granted' = [granted EXCEPT ![t] = @ + 1]
    <3>1. ~Holds(consumed'[t], i)
      BY <1>4, <2>3 DEF Holds
    <3>2. granted'[t] = granted[t] + 1 /\ (i = n + 1 \/ i \in 1 .. n)
      BY <1>1, <1>4, <2>3
    <3>3. Paid(t, i)' = granted[t] + 1
      BY <1>1, <1>6, <2>1, <2>2, <3>2
    <3> QED BY <2>2, <3>1, <3>2, <3>3 DEF Balanced
  <2>4. CASE b[2] # Len(Chain) /\ consumed' = [consumed EXCEPT ![t] = c] /\ granted' = granted
    <3>1. consumed'[t] = c /\ granted'[t] = granted[t]
      BY <1>4, <2>4
    <3>2. \A j \in 1 .. n + 1 : c[j][2] = j
      BY <1>1, <1>3
    <3>3. Holds(c, i) <=> i \in 1 .. n + 1
      BY <1>3, <3>2 DEF Holds
    <3>4. Paid(t, i)' = granted[t] + (IF i \in 1 .. n + 1 THEN 1 ELSE 0)
      BY <1>1, <1>6, <2>1, <2>2
    <3> QED BY <3>1, <3>3, <3>4 DEF Balanced
  <2> QED BY <1>2, <2>3, <2>4
<1>9. ASSUME NEW u \in Callers, NEW i \in DOMAIN Chain, u # t PROVE Balanced(u, i)'
  <2>1. consumed'[u] = consumed[u] /\ granted'[u] = granted[u]
    BY <1>2, <1>4, <1>9
  <2>2. Paid(u, i)' = Paid(u, i)
    BY <1>6, <1>9
  <2> QED BY <2>1, <2>2 DEF Balanced
<1> QED BY <1>8, <1>9

\* A token given back is neither.
LEMMA RefundBalanced ==
    ASSUME QuotaInd, \A t \in Callers, i \in DOMAIN Chain : Balanced(t, i),
           NEW t \in Callers, Refund(t)
    PROVE  \A u \in Callers, i \in DOMAIN Chain : Balanced(u, i)'
<1> DEFINE h == consumed[t]
           b == Head(h)
           c == Tail(h)
<1>1. /\ h \in Seq(Buckets) /\ h # <<>> /\ Climbing(h)
  BY DEF Refund, QuotaInd, QuotaTypes, Attempt, Climbing
<1>2. /\ used' = [used EXCEPT ![b][t] = @ - 1]
      /\ consumed' = [consumed EXCEPT ![t] = c] /\ granted' = granted
  BY DEF Refund
<1>3. /\ Len(h) \in Nat /\ Len(h) >= 1 /\ Len(c) = Len(h) - 1 /\ b = h[1]
      /\ \A j \in 1 .. Len(h) - 1 : c[j] = h[j + 1]
      /\ \A j \in 1 .. Len(h) : h[j] \in Buckets
  BY <1>1, HeadTailProperties, LenProperties, EmptySeq, ElementOfSeq
<1>4. /\ used \in [Buckets -> [Callers -> Nat]] /\ granted \in [Callers -> Nat]
      /\ consumed \in [Callers -> Seq(Buckets)]
  BY DEF QuotaInd, QuotaTypes
<1>5. used[b][t] >= 1
  <2>1. 1 \in 1 .. Len(consumed[t]) /\ consumed[t][1] = b
    BY <1>3
  <2> QED BY <2>1 DEF QuotaInd, Attempt
<1>6. h = consumed[t]
  OBVIOUS
<1> HIDE DEF h, b, c
<1>7. b \in Buckets /\ b[2] \in Int
  BY <1>3, BucketParts
<1>8. /\ used' \in [Buckets -> [Callers -> Nat]]
      /\ used'[b][t] - used[b][t] = -1
      /\ \A d \in Buckets, u \in Callers : d # b \/ u # t => used'[d][u] = used[d][u]
  <2>1. used[b][t] \in Nat
    BY <1>4, <1>7
  <2>2. used'[b][t] = used[b][t] - 1 /\ used[b][t] - 1 \in Nat
    BY <1>2, <1>4, <1>5, <1>7, <2>1
  <2>3. \A d \in Buckets, u \in Callers : d # b \/ u # t => used'[d][u] = used[d][u]
    BY <1>2, <1>4, <1>7
  <2>4. used' \in [Buckets -> [Callers -> Nat]]
    BY <1>2, <1>4, <1>7, <2>2
  <2> QED BY <2>1, <2>2, <2>3, <2>4
<1>9. /\ \A u \in Callers, i \in DOMAIN Chain : Paid(u, i) \in Int
      /\ \A u \in Callers, i \in DOMAIN Chain : u # t \/ i # b[2] => Paid(u, i)' = Paid(u, i)
      /\ \A i \in DOMAIN Chain : i = b[2] => Paid(t, i)' = Paid(t, i) + (-1)
  <2>1. /\ \A u \in Callers, i \in DOMAIN Chain : Paid(u, i) \in Int
        /\ \A u \in Callers, i \in DOMAIN Chain :
              u # t \/ i # b[2] => Paid(u, i)' = Paid(u, i)
        /\ \A i \in DOMAIN Chain : i = b[2] =>
              Paid(t, i)' = Paid(t, i) + (used'[b][t] - used[b][t])
    BY <1>7, <1>8, PaidAtLevel
  <2> QED BY <1>8, <2>1
<1>10. Holds(h, b[2]) /\ ~Holds(c, b[2])
  <2>1. 1 \in 1 .. Len(h)
    BY <1>3
  <2>2. ASSUME NEW j \in 1 .. Len(h) - 1 PROVE c[j][2] # b[2]
    <3>1. h[j + 1][2] - h[1][2] = (j + 1) - 1
      BY <1>1, <1>3, <2>1 DEF Climbing
    <3>2. h[j + 1][2] \in Int
      BY <1>3, BucketParts
    <3> QED BY <1>3, <1>7, <3>1, <3>2
  <2> QED BY <1>3, <2>1, <2>2 DEF Holds
<1>11. \A i \in DOMAIN Chain : i # b[2] => (Holds(c, i) <=> Holds(h, i))
  <2> SUFFICES ASSUME NEW i \in DOMAIN Chain, i # b[2] PROVE Holds(c, i) <=> Holds(h, i)
    OBVIOUS
  <2>1. ASSUME Holds(c, i) PROVE Holds(h, i)
    <3>1. PICK j \in 1 .. Len(h) - 1 : c[j][2] = i
      BY <1>3, <2>1 DEF Holds
    <3>2. h[j + 1][2] = i /\ j + 1 \in 1 .. Len(h)
      BY <1>3, <3>1
    <3> QED BY <3>2 DEF Holds
  <2>2. ASSUME Holds(h, i) PROVE Holds(c, i)
    <3>1. PICK j \in 1 .. Len(h) : h[j][2] = i
      BY <2>2 DEF Holds
    <3>2. j # 1
      BY <1>3, <3>1
    <3>3. j - 1 \in 1 .. Len(h) - 1 /\ c[j - 1] = h[(j - 1) + 1] /\ (j - 1) + 1 = j
      BY <1>3, <3>2
    <3> QED BY <1>3, <3>1, <3>3 DEF Holds
  <2> QED BY <2>1, <2>2
<1>12. ASSUME NEW u \in Callers, NEW i \in DOMAIN Chain, u # t PROVE Balanced(u, i)'
  <2>1. consumed'[u] = consumed[u] /\ granted'[u] = granted[u]
    BY <1>2, <1>4, <1>12
  <2>2. Paid(u, i)' = Paid(u, i)
    BY <1>9, <1>12
  <2> QED BY <2>1, <2>2 DEF Balanced
<1>13. ASSUME NEW i \in DOMAIN Chain PROVE Balanced(t, i)'
  <2>1. consumed'[t] = c /\ granted'[t] = granted[t] /\ granted[t] \in Nat
    BY <1>2, <1>4
  <2>2. Paid(t, i) = granted[t] + (IF Holds(h, i) THEN 1 ELSE 0)
    BY <1>6 DEF Balanced
  <2>3. CASE i = b[2]
    <3>1. Paid(t, i)' = Paid(t, i) + (-1) /\ Holds(h, i) /\ ~Holds(c, i)
      BY <1>9, <1>10, <2>3
    <3> QED BY <2>1, <2>2, <3>1 DEF Balanced
  <2>4. CASE i # b[2]
    <3>1. Paid(t, i)' = Paid(t, i) /\ (Holds(h, i) <=> Holds(c, i))
      BY <1>9, <1>11, <2>4
    <3> QED BY <2>1, <2>2, <3>1 DEF Balanced
  <2> QED BY <2>3, <2>4
<1> QED BY <1>12, <1>13

QuotaBalance == \A t \in Callers, i \in DOMAIN Chain : Balanced(t, i)

\* Every step keeps the accounts.
LEMMA BalanceStep ==
    ASSUME QuotaInd, QuotaBalance, [QuotaNext]_quotaVars
    PROVE  QuotaBalance'
<1>1. ASSUME NEW t \in Callers, Take(t) PROVE QuotaBalance'
  BY <1>1, TakeBalanced DEF QuotaBalance
<1>2. ASSUME NEW t \in Callers, Refund(t) PROVE QuotaBalance'
  BY <1>2, RefundBalanced DEF QuotaBalance
<1>3. ASSUME NEW t \in Callers,
             Acquire(t) \/ Miss(t) \/ Exhausted(t) \/ Sleep(t) \/ Wake(t)
      PROVE  QuotaBalance'
  <2>1. consumed \in [Callers -> Seq(Buckets)]
    BY DEF QuotaInd, QuotaTypes
  <2>2. Exhausted(t) => consumed' = consumed
    BY <2>1 DEF Exhausted, Return
  <2>3. UNCHANGED <<used, consumed, granted>>
    BY <1>3, <2>2 DEF Acquire, Miss, Exhausted, Sleep, Wake, bucketVars
  <2> QED BY <2>3, BalanceKept DEF QuotaBalance
<1>4. CASE Register \/ Tick \/ UNCHANGED quotaVars
  <2>1. UNCHANGED <<used, consumed, granted>>
    BY <1>4 DEF Register, Tick, quotaVars, bucketVars, attemptVars
  <2> QED BY <2>1, BalanceKept DEF QuotaBalance
<1> QED BY <1>1, <1>2, <1>3, <1>4 DEF QuotaNext, Step

\* The accounts are empty at the start.
LEMMA BalanceInit == QuotaInit => QuotaBalance
<1> SUFFICES ASSUME QuotaInit, NEW t \in Callers, NEW i \in DOMAIN Chain
             PROVE  Balanced(t, i)
  BY DEF QuotaBalance
<1> DEFINE G == 1 .. MaxRegistered
           f == [g \in G |-> used[<<g, i>>][t]]
<1>1. \A g \in G : f[g] = 0
  <2>1. \A g \in G : <<g, i>> \in Buckets
    BY DEF Buckets
  <2> QED BY <2>1 DEF QuotaInit
<1>2. IsFiniteSet(G) /\ DOMAIN f = G
  BY ChainConstants, FS_Interval
<1>3. Paid(t, i) = SumFunction(f)
  BY DEF Paid
<1> HIDE DEF f, G
<1>4. SumFunction(f) = SumFunctionOnSet(f, G)
  BY <1>2 DEF SumFunction, SumFunctionOnSet, FoldFunction
<1>5. SumFunctionOnSet(f, G) = 0
  BY <1>1, <1>2, SumOfNothing
<1>6. granted[t] = 0 /\ ~Holds(consumed[t], i)
  BY DEF QuotaInit, Holds
<1> QED BY <1>3, <1>4, <1>5, <1>6 DEF Balanced

\* What the invariants say of a state is what the model states.
LEMMA QuotaMeaning == QuotaInd /\ QuotaBalance => QuotaInv
<1> SUFFICES ASSUME QuotaInd, QuotaBalance PROVE QuotaInv
  OBVIOUS
<1>1. QuotaTypeOK
  <2>1. \A b \in Buckets : tokens[b] \in 0 .. Capacity(b) /\ last[b] \in 0 .. now
    <3>1. \A b \in Buckets : Capacity(b) \in Nat /\ now \in Nat
      BY ChainConstants, Counters DEF QuotaInd
    <3> QED BY <3>1 DEF QuotaInd, QuotaTypes
  <2>2. ASSUME NEW t \in Callers
        PROVE  /\ \A i \in DOMAIN consumed[t] : consumed[t][i] \in Buckets
               /\ Len(consumed[t]) < Len(Chain)
    <3>1. consumed[t] \in Seq(Buckets)
      BY DEF QuotaInd, QuotaTypes
    <3>2. DOMAIN consumed[t] = 1 .. Len(consumed[t])
      BY <3>1, LenProperties
    <3> QED BY <3>1, <3>2, ElementOfSeq DEF QuotaInd, Attempt
  <2> QED BY <2>1, <2>2 DEF QuotaInd, QuotaTypes, QuotaTypeOK
<1>2. NoTokenLeak
  <2> SUFFICES ASSUME NEW t \in Callers, NEW i \in DOMAIN Chain
               PROVE  Paid(t, i) = granted[t]
                        + Cardinality({j \in DOMAIN consumed[t] : consumed[t][j][2] = i})
    BY DEF NoTokenLeak, Paid
  <2> QED BY LeakIsBalance DEF QuotaBalance, Balanced
<1> QED BY <1>1, <1>2 DEF QuotaInv

\* Buckets stay between empty and full, and every token taken was paid for a
\* grant, is held by a running attempt or was given back
\* (_try_acquire_composite, refund).
THEOREM QuotaInvHolds == QuotaSpec => []QuotaInv
<1>1. QuotaInit => QuotaBalance
  BY BalanceInit
<1>2. QuotaInd /\ QuotaBalance /\ [QuotaNext]_quotaVars => QuotaBalance'
  BY BalanceStep
<1> QED BY <1>1, <1>2, QuotaIndHolds, QuotaMeaning, PTL DEF QuotaSpec
=============================================================================
