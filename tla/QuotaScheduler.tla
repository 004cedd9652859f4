--------------------------- MODULE QuotaScheduler ---------------------------
(***************************************************************************)
(* The API quota of one (broker, endpoint class) pair, shared by every     *)
(* thread that calls the broker: application/scheduling/quota_scheduler.py *)
(*                                                                         *)
(* A call takes one token from the primary bucket and one from each window *)
(* bucket, each under that bucket's own lock, and gives back what it took  *)
(* when a later bucket is empty; it polls until its priority's deadline.   *)
(* Tokens are counted in units (Unit units make a token) because refills   *)
(* and the reserve are fractions of one.  Opening another session of the   *)
(* broker registers its profile again in the shared scheduler, which makes *)
(* new, full buckets while calls may still hold tokens of the old ones.    *)
(***************************************************************************)
EXTENDS Integers, Sequences, FiniteSets, Functions

CONSTANTS
    Callers,      \* the calling threads
    Critical,     \* those that ask with EXECUTION_CRITICAL
    MaxWait,      \* caller -> how long its priority waits
    Chain,        \* the primary bucket and the windows: rate, capacity, reserved
    Unit,         \* units per token
    Poll,         \* the polling interval of a waiting call
    MaxRegistered,\* bound: how often the profile is registered
    MaxTime       \* bound on the clock

ASSUME QuotaAssumption ==
    /\ IsFiniteSet(Callers) /\ Critical \subseteq Callers
    /\ MaxWait \in [Callers -> Nat]
    /\ Chain \in Seq([rate : Nat, capacity : Nat, reserved : Nat])
    /\ Len(Chain) >= 1
    /\ \A i \in DOMAIN Chain : Chain[i].reserved <= Chain[i].capacity
    /\ Unit \in Nat \ {0} /\ Poll \in Nat \ {0}
    /\ MaxRegistered \in Nat \ {0} /\ MaxTime \in Nat

VARIABLES
    now,        \* time.monotonic()
    gen,        \* how often register_profile ran: the buckets now in the dicts
    born,       \* when the buckets of each registration were made
    tokens,     \* _tokens of each bucket
    last,       \* _last_refill of each bucket
    phase,      \* what each caller is doing
    consumed,   \* the buckets its attempt has taken a token from
    deadline,   \* when it gives up
    until,      \* when its sleep ends
    granted,    \* history: calls that got their QuotaToken
    used        \* history: tokens each caller took from a bucket and kept

quotaVars == <<now, gen, born, tokens, last, phase, consumed, deadline, until, granted, used>>
bucketVars == <<tokens, last, used>>
attemptVars == <<phase, consumed, deadline, until>>

Buckets == (1 .. MaxRegistered) \X DOMAIN Chain
Capacity(b) == Chain[b[2]].capacity
Rate(b) == Chain[b[2]].rate
Reserved(b) == Chain[b[2]].reserved
Least(a, b) == IF a <= b THEN a ELSE b

-----------------------------------------------------------------------------
(* One bucket: _TokenBucket.                                               *)

Refilled(b) == Least(Capacity(b), tokens[b] + (now - last[b]) * Rate(b))

RefillTimeKept(b) == last[b]
RefillTime(b) == now

AvailableToAll(t, b) == Refilled(b)

\* try_acquire: what is open to the caller after the refill.
Available(t, b) ==
    IF t \in Critical THEN Refilled(b) ELSE Refilled(b) - Reserved(b)

Refunded(b) == Least(Capacity(b), tokens[b] + Unit)

-----------------------------------------------------------------------------
QuotaInit ==
    /\ now = 0 /\ gen = 1
    /\ born = [g \in 1 .. MaxRegistered |-> 0]
    /\ tokens = [b \in Buckets |-> Capacity(b)]
    /\ last = [b \in Buckets |-> 0]
    /\ phase = [t \in Callers |-> "idle"]
    /\ consumed = [t \in Callers |-> << >>]
    /\ deadline = [t \in Callers |-> 0]
    /\ until = [t \in Callers |-> 0]
    /\ granted = [t \in Callers |-> 0]
    /\ used = [b \in Buckets |-> [t \in Callers |-> 0]]

\* register_profile, for the next session of the same broker: new buckets
\* replace the old ones in both dicts; a running attempt keeps what it holds.
Register ==
    /\ gen < MaxRegistered
    /\ gen' = gen + 1
    /\ born' = [born EXCEPT ![gen + 1] = now]
    /\ last' = [b \in Buckets |-> IF b[1] = gen + 1 THEN now ELSE last[b]]
    /\ UNCHANGED <<now, tokens, used, attemptVars, granted>>

\* acquire: the deadline is fixed before the first attempt.  The guard bounds
\* the clock: a call starts only if it can reach its deadline.
Acquire(t) ==
    /\ phase[t] = "idle"
    /\ now + MaxWait[t] <= MaxTime
    /\ phase' = [phase EXCEPT ![t] = "trying"]
    /\ deadline' = [deadline EXCEPT ![t] = now + MaxWait[t]]
    /\ UNCHANGED <<now, gen, born, bucketVars, consumed, until, granted>>

\* The bucket an attempt comes to next.  The primary is looked up at every
\* attempt, the list of windows once the primary's token is taken.
NextBucket(t) ==
    LET n == Len(consumed[t]) IN
        << IF n >= 2 THEN consumed[t][2][1] ELSE gen, n + 1 >>

Return(t) ==
    /\ phase' = [phase EXCEPT ![t] = "idle"]
    /\ consumed' = [consumed EXCEPT ![t] = << >>]
    /\ deadline' = [deadline EXCEPT ![t] = 0]
    /\ until' = [until EXCEPT ![t] = 0]

\* A bucket of the chain has a token; with the last one the call returns its
\* QuotaToken.
Take(t) ==
    LET b == NextBucket(t) IN
    /\ phase[t] = "trying"
    /\ Available(t, b) >= Unit
    /\ tokens' = [tokens EXCEPT ![b] = Refilled(b) - Unit]
    /\ last' = [last EXCEPT ![b] = RefillTime(b)]
    /\ used' = [used EXCEPT ![b][t] = @ + 1]
    /\ IF b[2] = Len(Chain)
       THEN Return(t) /\ granted' = [granted EXCEPT ![t] = @ + 1]
       ELSE /\ consumed' = [consumed EXCEPT ![t] = Append(@, b)]
            /\ UNCHANGED <<phase, deadline, until, granted>>
    /\ UNCHANGED <<now, gen, born>>

\* It has none: the attempt fails and must give back what it took.
Miss(t) ==
    LET b == NextBucket(t) IN
    /\ phase[t] = "trying"
    /\ Available(t, b) < Unit
    /\ tokens' = [tokens EXCEPT ![b] = Refilled(b)]
    /\ last' = [last EXCEPT ![b] = RefillTime(b)]
    /\ phase' = [phase EXCEPT ![t] = "refused"]
    /\ UNCHANGED <<now, gen, born, used, consumed, deadline, until, granted>>

\* A bug's shape: the rollback stops after the primary bucket.
RefundPrimary(t) ==
    LET b == Head(consumed[t]) IN
    /\ phase[t] = "refused" /\ consumed[t] # << >>
    /\ tokens' = [tokens EXCEPT ![b] = Refunded(b)]
    /\ used' = [used EXCEPT ![b][t] = @ - 1]
    /\ consumed' = [consumed EXCEPT ![t] = << >>]
    /\ UNCHANGED <<now, gen, born, last, phase, deadline, until, granted>>

\* refund, bucket after bucket, without the scheduler's lock.
Refund(t) ==
    LET b == Head(consumed[t]) IN
    /\ phase[t] = "refused" /\ consumed[t] # << >>
    /\ tokens' = [tokens EXCEPT ![b] = Refunded(b)]
    /\ used' = [used EXCEPT ![b][t] = @ - 1]
    /\ consumed' = [consumed EXCEPT ![t] = Tail(@)]
    /\ UNCHANGED <<now, gen, born, last, phase, deadline, until, granted>>

\* The deadline has passed: QuotaExhaustedError.
Exhausted(t) ==
    /\ phase[t] = "refused" /\ consumed[t] = << >>
    /\ deadline[t] <= now
    /\ Return(t)
    /\ UNCHANGED <<now, gen, born, bucketVars, granted>>

DeadlineFromNow(t) == now + MaxWait[t]
DeadlineOf(t) == deadline[t]

Sleep(t) ==
    /\ phase[t] = "refused" /\ consumed[t] = << >>
    /\ deadline[t] > now
    /\ phase' = [phase EXCEPT ![t] = "sleeping"]
    /\ until' = [until EXCEPT ![t] = Least(now + Poll, deadline[t])]
    /\ UNCHANGED <<now, gen, born, bucketVars, consumed, deadline, granted>>

Wake(t) ==
    /\ phase[t] = "sleeping"
    /\ now >= until[t]
    /\ phase' = [phase EXCEPT ![t] = "trying"]
    /\ until' = [until EXCEPT ![t] = 0]
    /\ deadline' = [deadline EXCEPT ![t] = DeadlineOf(t)]
    /\ UNCHANGED <<now, gen, born, bucketVars, consumed, granted>>

Tick ==
    /\ now < MaxTime
    /\ now' = now + 1
    /\ UNCHANGED <<gen, born, bucketVars, attemptVars, granted>>

Step(t) ==
    \/ Take(t) \/ Miss(t) \/ Refund(t)
    \/ Exhausted(t) \/ Sleep(t) \/ Wake(t)

QuotaNext ==
    \/ Register
    \/ \E t \in Callers : Acquire(t) \/ Step(t)
    \/ Tick

QuotaSpec == QuotaInit /\ [][QuotaNext]_quotaVars

\* The clock runs and a running call is scheduled again and again: no step of
\* it waits for anything but a bucket's lock, held for a few statements.
Fairness == WF_quotaVars(Tick) /\ \A t \in Callers : WF_quotaVars(Step(t))
FairQuotaSpec == QuotaSpec /\ Fairness

-----------------------------------------------------------------------------
(* No bucket holds less than nothing or more than its capacity, whatever   *)
(* interleaving of refills, attempts and refunds it goes through           *)
(* (_TokenBucket.try_acquire, refund).                                     *)
QuotaTypeOK ==
    /\ now \in 0 .. MaxTime /\ gen \in 1 .. MaxRegistered
    /\ born \in [1 .. MaxRegistered -> 0 .. MaxTime]
    /\ \A b \in Buckets : tokens[b] \in 0 .. Capacity(b) /\ last[b] \in 0 .. now
    /\ phase \in [Callers -> {"idle", "trying", "refused", "sleeping"}]
    /\ \A t \in Callers :
          /\ \A i \in DOMAIN consumed[t] : consumed[t][i] \in Buckets
          /\ Len(consumed[t]) < Len(Chain)
    /\ deadline \in [Callers -> Nat]
    /\ until \in [Callers -> Nat]
    /\ granted \in [Callers -> Nat]
    /\ used \in [Buckets -> [Callers -> Nat]]

UsedOf(b) == SumFunctionOnSet(used[b], Callers)

(* What callers took from a bucket and did not give back never exceeds its *)
(* capacity and what it has accrued since it was made, so a burst and its  *)
(* refunds cannot mint quota (_refill, try_acquire, refund).               *)
SpentWithinQuota ==
    \A b \in Buckets :
        tokens[b] + Unit * UsedOf(b)
            <= Capacity(b) + Rate(b) * (last[b] - born[b[1]])

(* Callers of lower priority leave the reserve of every bucket alone: what *)
(* is missing from it was taken by critical callers, even while attempts   *)
(* fail half-way and are rolled back (try_acquire, reserved_headroom).     *)
ReserveForCritical ==
    \A b \in Buckets :
        tokens[b] + Unit * SumFunctionOnSet(used[b], Critical) >= Reserved(b)

(* Each granted call paid one token at every level of the chain, and a     *)
(* failed attempt leaves nothing behind: what is neither granted nor being *)
(* rolled back was given back, whichever registration it came from         *)
(* (_try_acquire_composite: "rather than a slow token leak").              *)
NoTokenLeak ==
    \A t \in Callers, i \in DOMAIN Chain :
        SumFunction([g \in 1 .. MaxRegistered |-> used[<<g, i>>][t]])
            = granted[t] + Cardinality({j \in DOMAIN consumed[t] : consumed[t][j][2] = i})

(* Buckets stay between empty and full, and no token is lost or made.      *)
QuotaInv == QuotaTypeOK /\ NoTokenLeak

(* A call ends: it gets its token or raises once its deadline is over, for *)
(* every priority and however the other callers compete (acquire).         *)
AcquireReturns == \A t \in Callers : phase[t] # "idle" ~> phase[t] = "idle"
=============================================================================
