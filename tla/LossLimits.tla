---------------------------- MODULE LossLimits ----------------------------
(***************************************************************************)
(* The loss limits of the risk engine: LossCircuitBreaker and              *)
(* DailyPnlTracker (src/application/oms/_internal/), the session feed that *)
(* drives them (TradingContext._feed_daily_pnl), the midnight scheduler    *)
(* and the operator.                                                       *)
(*                                                                         *)
(* A feeding thread computes the equity before it takes the risk lock, so  *)
(* feeds of two threads may be applied in the other order.  Times are      *)
(* ages: what has passed since a sample was recorded or a cooldown began,  *)
(* counted up to where the code stops telling them apart.  Equity is       *)
(* relative to _session_open_equity, which stays what it was at start.     *)
(***************************************************************************)
EXTENDS Integers, Sequences, FiniteSets, Functions

CONSTANTS Feeders,       \* threads that deliver position events
          Moves,         \* changes of the equity between two observations
          Capitals,      \* what the capital provider may answer
          ThresholdPct,  \* loss_threshold_pct
          DailyPct,      \* max_daily_loss_pct
          Window,        \* window_seconds
          Cooldown,      \* cooldown_seconds
          MaxSamples, MaxMoves, MaxDays,  \* bounds
          None

ASSUME LossAssumption ==
    /\ Moves \subseteq Int /\ Capitals \subseteq Int
    /\ {ThresholdPct, DailyPct, Window, Cooldown} \subseteq Nat \ {0}
    /\ {MaxSamples, MaxMoves, MaxDays} \subseteq Nat
    /\ None \notin Int

VARIABLES
    state,        \* LossCircuitBreaker._state
    samples,      \* _samples, each with its age
    lastCapital,  \* the capital of the latest sample
    cooling,      \* time since _cooldown_started_at
    dailyPnl,     \* DailyPnlTracker._daily_pnl
    resetToday,   \* _last_reset_at is of today
    rolloverDue,  \* the scheduler has a rollover to act on
    equity,       \* _compute_equity() - _session_open_equity
    read,         \* the delta a feeding thread has computed
    capital,      \* what the capital provider answers now
    moves, days,
    \* History: the equity has not moved since midnight, the time since the last
    \* trip, and whether the operator cleared it.
    quiet, sinceTrip, cleared

breaker == <<state, samples, lastCapital, cooling, sinceTrip, cleared>>
tracker == <<dailyPnl, resetToday>>
world == <<rolloverDue, equity, capital, moves, days, quiet>>
vars == <<breaker, tracker, world, read>>

States == {"CLOSED", "OPEN", "COOLDOWN"}

TypeOK ==
    /\ state \in States
    /\ samples \in Seq([age : 0 .. Window + 1, loss : Int, before : Int])
    /\ Len(samples) <= MaxSamples
    /\ \A i, j \in DOMAIN samples : i < j => samples[i].age >= samples[j].age
    /\ cooling \in 0 .. Cooldown
    /\ dailyPnl \in Int /\ equity \in Int
    /\ {resetToday, rolloverDue, quiet, cleared} \subseteq BOOLEAN
    /\ read \in [Feeders -> Int \cup {None}]
    /\ capital \in Capitals /\ lastCapital \in Capitals \cup {0}
    /\ sinceTrip \in 0 .. Cooldown
    /\ moves \in 0 .. MaxMoves /\ days \in 0 .. MaxDays

\* TradingContext.__init__ freezes the session's opening equity and resets.
Init ==
    /\ state = "CLOSED" /\ samples = <<>> /\ cooling = 0 /\ lastCapital = 0
    /\ dailyPnl = 0 /\ resetToday = TRUE /\ rolloverDue = FALSE
    /\ equity = 0 /\ quiet = TRUE
    /\ read = [f \in Feeders |-> None]
    /\ capital \in Capitals
    /\ moves = 0 /\ days = 0
    /\ sinceTrip = Cooldown /\ cleared = FALSE

(***************************************************************************)
(* LossCircuitBreaker.                                                     *)
(***************************************************************************)
\* Mutant: an old start of a cooldown is kept.
CoolingKept(new) == cooling

\* _transition_to: only a change of state restarts the cooldown.
Cooling(new) == IF new = "COOLDOWN" /\ state # "COOLDOWN" THEN 0 ELSE cooling

Transition(new) ==
    /\ state' = new
    /\ cooling' = Cooling(new)
    /\ sinceTrip' = IF new = "OPEN" /\ state # "OPEN" THEN 0 ELSE sinceTrip

Cumulative(ss) ==
    SumFunctionOnSet([i \in DOMAIN ss |-> ss[i].loss], DOMAIN ss)

\* The cumulative loss reaches the threshold, for a positive capital.
Exceeds(ss, c) == c > 0 /\ -Cumulative(ss) * 100 >= ThresholdPct * c
Recovered(ss, c) == c > 0 /\ -Cumulative(ss) * 100 < ThresholdPct * c

\* The samples that are young enough are kept.  They are in the order of their
\* times, so these are the last ones.
Young(ss) == {i \in DOMAIN ss : ss[i].age <= Window}
Purged(ss) == SubSeq(ss, Len(ss) - Cardinality(Young(ss)) + 1, Len(ss))

\* A sample, with the total it moved away from.
Sample(delta) == [age |-> 0, loss |-> delta, before |-> dailyPnl]

Recorded(delta) == Append(Purged(samples), Sample(delta))

\* record_loss: append, purge, and the transition the state calls for; a
\* sample in COOLDOWN changes nothing.
RecordLoss(delta) ==
    LET ss == Recorded(delta)
    IN /\ Len(ss) <= MaxSamples
       /\ samples' = ss /\ lastCapital' = capital
       /\ cleared' = (cleared /\ ~(state = "CLOSED" /\ Exceeds(ss, capital)))
       /\ Transition(CASE state = "CLOSED" /\ Exceeds(ss, capital) -> "OPEN"
                       [] state = "OPEN" /\ Recovered(ss, capital) -> "COOLDOWN"
                       [] OTHER -> state)

\* Mutant: a cooldown is only ever ended by the operator.
AfterAllowCooling ==
    IF /\ state = "OPEN" /\ samples # <<>>
       /\ Recovered(samples, lastCapital) THEN "COOLDOWN" ELSE state

\* allow_trading: a cooldown that has passed closes, an open circuit whose
\* samples no longer add up to the threshold cools down.  Nothing is purged.
AfterAllow ==
    CASE state = "COOLDOWN" /\ cooling >= Cooldown -> "CLOSED"
      [] /\ state = "OPEN" /\ samples # <<>>
         /\ Recovered(samples, lastCapital) -> "COOLDOWN"
      [] OTHER -> state

\* reset_loss_circuit_breaker, by the operator.
OperatorReset ==
    /\ state # "CLOSED"
    /\ Transition(IF state = "OPEN" THEN "COOLDOWN" ELSE "CLOSED")
    /\ cleared' = (cleared \/ state = "COOLDOWN")
    /\ UNCHANGED <<samples, lastCapital, tracker, world, read>>

(***************************************************************************)
(* The feed.                                                               *)
(***************************************************************************)
\* _feed_daily_pnl computes the session delta ...
ReadEquity(f) ==
    /\ read[f] = None
    /\ read' = [read EXCEPT ![f] = equity]
    /\ UNCHANGED <<breaker, tracker, world>>

\* Mutant: the change is taken after the new value was stored.
DeltaAfter(pnl) == 0

Delta(pnl) == pnl - dailyPnl

\* ... and update_daily_pnl stores it and records the change, under the lock.
Update(f) ==
    /\ read[f] # None
    /\ dailyPnl' = read[f]
    /\ RecordLoss(Delta(read[f]))
    /\ read' = [read EXCEPT ![f] = None]
    /\ UNCHANGED <<resetToday, world>>

(***************************************************************************)
(* check_order, as far as losses go.                                       *)
(***************************************************************************)
\* A reset of an earlier day makes the check reset the total itself.
CheckedPnl == IF resetToday THEN dailyPnl ELSE 0

OrderAllowed ==
    /\ AfterAllow = "CLOSED"
    /\ capital > 0
    /\ CheckedPnl < 0 => -CheckedPnl * 100 < DailyPct * capital

\* A limit before the daily loss may refuse, and then nothing resets the total.
CheckOrder ==
    /\ Transition(AfterAllow)
    /\ \/ UNCHANGED tracker
       \/ /\ AfterAllow = "CLOSED" /\ capital > 0
          /\ dailyPnl' = CheckedPnl /\ resetToday' = TRUE
    /\ UNCHANGED <<samples, lastCapital, cleared, world, read>>

(***************************************************************************)
(* Midnight, the scheduler, the market and time.                           *)
(***************************************************************************)
Midnight ==
    /\ days < MaxDays /\ days' = days + 1
    /\ resetToday' = FALSE /\ rolloverDue' = TRUE
    /\ quiet' = (\A f \in Feeders : read[f] = None)
    /\ UNCHANGED <<breaker, dailyPnl, equity, capital, moves, read>>

\* DailyPnlResetScheduler._maybe_reset, at a later poll.
Rollover ==
    /\ rolloverDue /\ rolloverDue' = FALSE
    /\ dailyPnl' = 0 /\ resetToday' = TRUE
    /\ UNCHANGED <<breaker, equity, capital, moves, days, quiet, read>>

\* The positions change value, or the broker's balance does.
Market(m, c) ==
    /\ moves < MaxMoves /\ moves' = moves + 1
    /\ equity' = equity + m /\ capital' = c /\ quiet' = FALSE
    /\ UNCHANGED <<breaker, tracker, rolloverDue, days, read>>

Older(n, max) == IF n < max THEN n + 1 ELSE max

Tick ==
    /\ samples' = [i \in DOMAIN samples |->
                      [samples[i] EXCEPT !.age = Older(@, Window + 1)]]
    /\ cooling' = Older(cooling, Cooldown)
    /\ sinceTrip' = Older(sinceTrip, Cooldown)
    /\ UNCHANGED <<state, lastCapital, cleared, tracker, world, read>>

Next ==
    \/ \E f \in Feeders : ReadEquity(f) \/ Update(f)
    \/ CheckOrder \/ OperatorReset \/ Midnight \/ Rollover \/ Tick
    \/ \E m \in Moves, c \in Capitals : Market(m, c)

\* Time passes and orders keep being checked.
Spec == Init /\ [][Next]_vars /\ WF_vars(Tick) /\ WF_vars(CheckOrder)

(***************************************************************************)
(* Properties.                                                             *)
(***************************************************************************)
\* A trip halts trading for at least the whole cooldown, whatever is fed or
\* asked meanwhile, unless the operator resets the circuit.
HaltLasts == OrderAllowed /\ ~cleared => sinceTrip = Cooldown

\* The samples of the window add up to how the total moved over it, however
\* the feeds of two threads overlap: nothing is counted twice, nothing is lost.
\* (Before the first midnight: a reset inside the window breaks the chain.)
SamplesTelescope ==
    days = 0 /\ samples # <<>> =>
        Cumulative(samples) = dailyPnl - samples[1].before

\* The types, that samples are in the order of their ages, and what they add up to.
LossInv == TypeOK /\ SamplesTelescope

\* As long as the feed goes on and there is capital, a halt ends, once the market
\* has settled: after MaxMoves moves the samples of the window are all zero.
HaltEnds ==
    (/\ []<><<\E f \in Feeders : Update(f)>>_vars
     /\ <>[](capital > 0)) => (state # "CLOSED" ~> state = "CLOSED")

\* "`_daily_pnl` - session equity delta ... Reset to 0 by reset_daily_pnl": after
\* the rollover a day on which nothing has moved shows no profit or loss.
QuietDayIsFlat == quiet /\ ~rolloverDue => dailyPnl = 0
=============================================================================
