--------------------------- MODULE AsyncEventBus ---------------------------
(***************************************************************************)
(* AsyncEventBus (src/infrastructure/event_bus/async_event_bus.py) under   *)
(* the LifecycleManager that starts and stops it                           *)
(* (src/infrastructure/lifecycle/lifecycle.py), as the API runtime wires   *)
(* them, and the replay of the event log that runs on it at boot.          *)
(*                                                                         *)
(* Producers append to the queue; the worker and, at the end of stop(),    *)
(* the stopping thread take batches and hand each event to the wrapped     *)
(* bus.  The manager runs stop() in a thread of its own and abandons it    *)
(* after its deadline, so a second stop, or after that a start, can meet   *)
(* one that is still running.  An event is published once here; the        *)
(* wrapped bus has its own module.                                         *)
(***************************************************************************)
EXTENDS Naturals, Sequences, SequencesExt, FiniteSets

CONSTANTS Events,        \* events producers may publish
          Capital,       \* those is_capital_event holds for
          Workers,       \* threads start() may create, one for each start
          Stoppers,      \* threads _stop_one may create, one for each stop
          MaxQueue,      \* max_queue_size (2_000)
          BatchSize,     \* _batch_size (64)
          None

ASSUME AsyncBusAssumption ==
    /\ Capital \subseteq Events
    /\ MaxQueue \in Nat /\ BatchSize \in Nat \ {0}
    /\ None \notin Workers \cup Stoppers
    /\ Workers \cap Stoppers = {}

Drainers == Workers \cup Stoppers

VARIABLES
    queue,       \* _queue
    stopEvent,   \* _stop_event
    worker,      \* _worker
    pc, batch,   \* where each draining thread is, and its local batch
    joining,     \* the worker a stopping thread waits for
    started,     \* LifecycleManager._started holds the bus
    awaiting,    \* the stop thread the manager waits for
    replayMode,  \* the wrapped bus's replay mode
    \* History: events in the order they were queued, and handed to the wrapped
    \* bus; those published during the replay, those handed over outside it,
    \* those dropped; whether a stop ran out of time, and whether the last call
    \* was a start.
    accepted, dispatched, replayed, live, dropped, overrun, wanted

threads == <<stopEvent, worker, pc, batch, joining>>
manager == <<started, awaiting>>
history == <<accepted, dispatched, replayed, live, dropped, overrun, wanted>>
vars == <<queue, threads, manager, replayMode, history>>

Phases == {"off", "loop", "take", "dispatch", "entered", "join", "raised", "done"}

TypeOK ==
    /\ queue \in Seq(Events) /\ IsInjective(queue)
    /\ stopEvent \in BOOLEAN
    /\ worker \in Workers \cup {None}
    /\ pc \in [Drainers -> Phases]
    /\ batch \in [Drainers -> Seq(Events)]
    /\ \A d \in Drainers :
           /\ Len(batch[d]) <= BatchSize
           /\ pc[d] = "dispatch" <=> batch[d] # <<>>
    /\ joining \in [Stoppers -> Workers \cup {None}]
    /\ started \in BOOLEAN /\ awaiting \in Stoppers \cup {None}
    /\ replayMode \in BOOLEAN /\ overrun \in BOOLEAN /\ wanted \in BOOLEAN
    /\ accepted \in Seq(Events) /\ dispatched \in Seq(Events)
    /\ replayed \cup live \cup dropped \subseteq Events

Init ==
    /\ queue = <<>> /\ stopEvent = FALSE /\ worker = None
    /\ pc = [d \in Drainers |-> "off"]
    /\ batch = [d \in Drainers |-> <<>>]
    /\ joining = [s \in Stoppers |-> None]
    /\ started = FALSE /\ awaiting = None
    /\ replayMode = TRUE
    /\ accepted = <<>> /\ dispatched = <<>>
    /\ replayed = {} /\ live = {} /\ dropped = {}
    /\ overrun = FALSE /\ wanted = FALSE

Alive(w) == pc[w] \notin {"off", "done"}

\* Threads are interchangeable: the next one to be created is fixed.
Fresh(T) == {d \in T : pc[d] = "off"}
IsNext(d, T) == Fresh(T) # {} /\ d = CHOOSE x \in Fresh(T) : TRUE

Published == ToSet(accepted) \cup dropped

(***************************************************************************)
(* publish, by any thread.                                                 *)
(***************************************************************************)
\* Mutant: a full queue drops every kind of event.
AdmittedIfRoom(e) == Len(queue) < MaxQueue

Admitted(e) == Len(queue) < MaxQueue \/ e \in Capital

Publish(e) ==
    /\ e \notin Published
    /\ IF Admitted(e)
       THEN /\ queue' = Append(queue, e)
            /\ accepted' = Append(accepted, e)
            /\ UNCHANGED dropped
       ELSE /\ dropped' = dropped \cup {e}
            /\ UNCHANGED <<queue, accepted>>
    /\ replayed' = IF replayMode THEN replayed \cup {e} ELSE replayed
    /\ UNCHANGED <<threads, manager, replayMode, dispatched, live, overrun,
                   wanted>>

\* EventLogReplayService.replay has set the mode before the first step and
\* clears it when it has gone through the log.
EndReplay ==
    /\ replayMode /\ replayMode' = FALSE
    /\ UNCHANGED <<queue, threads, manager, history>>

(***************************************************************************)
(* _drain_batch, in the worker's loop and at the end of stop().            *)
(***************************************************************************)
\* while not stop_event: otherwise the loop ends.
DrainLoop(w) ==
    /\ pc[w] = "loop"
    /\ pc' = [pc EXCEPT ![w] = IF stopEvent THEN "done" ELSE "take"]
    /\ UNCHANGED <<queue, stopEvent, worker, batch, joining, manager,
                   replayMode, history>>

\* Mutant: the newest events are taken first.
TakenNewest == IF Len(queue) <= BatchSize THEN queue
               ELSE SubSeq(queue, Len(queue) - BatchSize + 1, Len(queue))

Taken == SubSeq(queue, 1, IF Len(queue) < BatchSize THEN Len(queue) ELSE BatchSize)

\* An empty queue ends the drain: the worker sleeps and loops, stop() returns.
Take(d) ==
    /\ pc[d] = "take"
    /\ batch' = [batch EXCEPT ![d] = Taken]
    /\ queue' = SubSeq(queue, Len(Taken) + 1, Len(queue))
    /\ pc' = [pc EXCEPT ![d] = IF queue # <<>> THEN "dispatch"
                               ELSE IF d \in Workers THEN "loop" ELSE "done"]
    /\ UNCHANGED <<stopEvent, worker, joining, manager, replayMode, history>>

\* Mutant: a drain in the stopping thread ends after one batch.
NextPhaseOnce(d) ==
    IF Tail(batch[d]) # <<>> THEN "dispatch"
    ELSE IF d \in Stoppers THEN "done" ELSE "take"

NextPhase(d) == IF Tail(batch[d]) # <<>> THEN "dispatch" ELSE "take"

\* The wrapped bus gets the event; what it raises is logged.  In replay mode
\* it calls no handler.
Dispatch(d) ==
    /\ pc[d] = "dispatch"
    /\ dispatched' = Append(dispatched, Head(batch[d]))
    /\ live' = IF replayMode THEN live ELSE live \cup {Head(batch[d])}
    /\ batch' = [batch EXCEPT ![d] = Tail(@)]
    /\ pc' = [pc EXCEPT ![d] = NextPhase(d)]
    /\ UNCHANGED <<queue, stopEvent, worker, joining, manager, replayMode,
                   accepted, replayed, dropped, overrun, wanted>>

(***************************************************************************)
(* start() and stop() under _start_one and _stop_one.                      *)
(***************************************************************************)
Start(w) ==
    /\ ~started /\ awaiting = None /\ IsNext(w, Workers)
    /\ started' = TRUE /\ wanted' = TRUE
    /\ IF worker # None /\ Alive(worker)
       THEN UNCHANGED threads
       ELSE /\ stopEvent' = FALSE
            /\ worker' = w
            /\ pc' = [pc EXCEPT ![w] = "loop"]
            /\ UNCHANGED <<batch, joining>>
    /\ UNCHANGED <<queue, awaiting, replayMode, accepted, dispatched, replayed,
                   live, dropped, overrun>>

BeginStop(s) ==
    /\ started /\ awaiting = None /\ IsNext(s, Stoppers)
    /\ awaiting' = s /\ wanted' = FALSE
    /\ stopEvent' = TRUE
    /\ pc' = [pc EXCEPT ![s] = IF worker = None THEN "take" ELSE "entered"]
    /\ UNCHANGED <<queue, worker, batch, joining, started, replayMode, accepted,
                   dispatched, replayed, live, dropped, overrun>>

\* _worker is read again, without a lock: a stop that ran meanwhile has left
\* None there, and None.join() raises.
EnterJoin(s) ==
    /\ pc[s] = "entered"
    /\ joining' = [joining EXCEPT ![s] = worker]
    /\ pc' = [pc EXCEPT ![s] = IF worker = None THEN "raised" ELSE "join"]
    /\ UNCHANGED <<queue, stopEvent, worker, batch, manager, replayMode, history>>

\* Mutant: a worker that is still running is kept for the next stop.
JoinReturnsKeeping(s) ==
    /\ pc[s] = "join"
    /\ overrun' = (overrun \/ Alive(joining[s]))
    /\ pc' = [pc EXCEPT ![s] = IF worker = None THEN "raised" ELSE "take"]
    /\ worker' = IF Alive(joining[s]) THEN worker ELSE None
    /\ UNCHANGED <<queue, stopEvent, batch, joining, manager, replayMode,
                   accepted, dispatched, replayed, live, dropped, wanted>>

\* join returns because the worker ended or because the time is up.  _worker
\* is read a third time: None.is_alive() raises out of this stop before it
\* drains.
JoinReturns(s) ==
    /\ pc[s] = "join"
    /\ overrun' = (overrun \/ Alive(joining[s]))
    /\ pc' = [pc EXCEPT ![s] = IF worker = None THEN "raised" ELSE "take"]
    /\ worker' = None
    /\ UNCHANGED <<queue, stopEvent, batch, joining, manager, replayMode,
                   accepted, dispatched, replayed, live, dropped, wanted>>

\* The manager's own join: the stop returned, or raised, or is abandoned.  Only
\* the first leaves the bus stopped in the manager's books.
StopReturns(s) ==
    /\ awaiting = s /\ awaiting' = None
    /\ started' = (pc[s] # "done")
    /\ overrun' = (overrun \/ pc[s] \notin {"done", "raised"})
    /\ UNCHANGED <<queue, threads, replayMode, accepted, dispatched, replayed,
                   live, dropped, wanted>>

DrainerStep(d) == Take(d) \/ Dispatch(d)

Next ==
    \/ \E e \in Events : Publish(e)
    \/ EndReplay
    \/ \E w \in Workers : Start(w) \/ DrainLoop(w)
    \/ \E d \in Drainers : DrainerStep(d)
    \/ \E s \in Stoppers :
           BeginStop(s) \/ EnterJoin(s) \/ JoinReturns(s) \/ StopReturns(s)

\* A thread that has started runs; a handler returns; joins have deadlines.
Fairness ==
    /\ \A d \in Drainers : WF_vars(DrainerStep(d))
    /\ \A w \in Workers : WF_vars(DrainLoop(w))
    /\ \A s \in Stoppers :
           WF_vars(EnterJoin(s) \/ JoinReturns(s)) /\ WF_vars(StopReturns(s))

Spec == Init /\ [][Next]_vars /\ Fairness

(***************************************************************************)
(* Properties.                                                             *)
(***************************************************************************)
\* "Capital events ... are never dropped", and none is lost between the queue,
\* the batches of threads that overlap and the wrapped bus, nor handed over
\* twice, whichever threads a stop and a start leave behind.
CapitalKept ==
    /\ dropped \cap Capital = {}
    /\ \A e \in ToSet(accepted) :
           Cardinality({d \in Drainers : e \in ToSet(batch[d])})
               + Cardinality({i \in DOMAIN queue : queue[i] = e})
               + Cardinality({i \in DOMAIN dispatched : dispatched[i] = e}) = 1

\* The types, the bound of a batch, and that nothing is lost or doubled.
QueueInv == TypeOK /\ CapitalKept

\* The bus implements OrderedDelivery: events leave it once and in order while
\* every stop has ended in time.
Delivery == INSTANCE OrderedDelivery
                WITH delivered <- dispatched, disordered <- overrun

DeliversInOrder == Delivery!Spec

\* A stop that returns leaves nothing behind: at the return everything accepted
\* has been handed over, unless some stop ran out of time.
StopDrains ==
    [][\A s \in Stoppers :
           pc[s] # "done" /\ pc'[s] = "done" /\ ~overrun =>
               dispatched' = accepted]_vars

\* No order of stops and starts, abandoned ones included, leaves a bus that is
\* started and does not drain: when it is never stopped again, every event in
\* the queue is handed over.
QueueDrains ==
    <>[]wanted =>
        \A e \in Events : e \in ToSet(queue) ~> e \in ToSet(dispatched)

\* "During replay, TRADE_APPLIED bus dispatch is suppressed": no event published
\* while the log is replayed reaches a handler.
ReplaySuppressed == replayed \cap live = {}
=============================================================================
