--------------------------- MODULE CircuitBreaker ---------------------------
(***************************************************************************)
(* The circuit breaker of infrastructure/resilience/circuit_breaker.py as  *)
(* functions on its state; each runs under the breaker's lock.  The counts *)
(* matter only up to their thresholds and are cut there.  elapsed says     *)
(* that open_duration_ms have passed since the breaker opened.             *)
(***************************************************************************)
EXTENDS Integers

CONSTANTS FailureThreshold, SuccessThreshold

ASSUME ThresholdAssumption ==
    FailureThreshold \in Nat \ {0} /\ SuccessThreshold \in Nat \ {0}

Breaker == [state : {"CLOSED", "OPEN", "HALF_OPEN"},
            failures : 0 .. FailureThreshold,
            successes : 0 .. SuccessThreshold,
            elapsed : BOOLEAN]

NewBreaker == [state |-> "CLOSED", failures |-> 0, successes |-> 0, elapsed |-> FALSE]

UpTo(limit, n) == IF n < limit THEN n ELSE limit

\* A bug's shape: a probing breaker starts with the successes of earlier.
TransitionToKeeping(b, new) ==
    IF b.state = new THEN b
    ELSE [state     |-> new,
          failures  |-> IF new = "CLOSED" THEN 0 ELSE b.failures,
          successes |-> IF new = "CLOSED" THEN 0 ELSE b.successes,
          elapsed   |-> FALSE]

TransitionTo(b, new) ==
    IF b.state = new THEN b
    ELSE [state     |-> new,
          failures  |-> IF new = "CLOSED" THEN 0 ELSE b.failures,
          successes |-> IF new \in {"CLOSED", "HALF_OPEN"} THEN 0 ELSE b.successes,
          elapsed   |-> FALSE]

\* The state property: reading it moves a breaker that was open long enough.
Observed(b) ==
    IF b.state = "OPEN" /\ b.elapsed THEN TransitionTo(b, "HALF_OPEN") ELSE b

OnSuccess(b) ==
    LET counted == [b EXCEPT !.successes = UpTo(SuccessThreshold, @ + 1)] IN
    CASE b.state = "OPEN" -> b
      [] b.state = "CLOSED" -> [counted EXCEPT !.failures = 0]
      [] b.state = "HALF_OPEN" ->
            IF counted.successes >= SuccessThreshold
            THEN TransitionTo(counted, "CLOSED") ELSE counted

OnFailure(b) ==
    LET counted == [b EXCEPT !.failures = UpTo(FailureThreshold, @ + 1)] IN
    IF \/ b.state = "HALF_OPEN"
       \/ b.state = "CLOSED" /\ counted.failures >= FailureThreshold
    THEN TransitionTo(counted, "OPEN")
    ELSE counted
=============================================================================
