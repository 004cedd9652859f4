------------------------------ MODULE EventBus ------------------------------
(***************************************************************************)
(* EventBus.publish (src/infrastructure/event_bus/event_bus.py) with the   *)
(* parts it is made of: EventIdempotencyGuard over its bounded local       *)
(* window, EventPersistenceHook over BufferedEventLog, EventDispatchHook,  *)
(* and the DeadLetterQueue that takes what failed.                         *)
(*                                                                         *)
(* Publishing takes the guard's lock, the log's lock and the subscribers'  *)
(* lock one after the other and calls the handlers with none of them, so   *)
(* each of those sections is a step.  All events are of one type; a        *)
(* handler's own publications are those of another thread.  Correlation    *)
(* ids, sequence numbers and metrics do not influence delivery and are     *)
(* left out, and so is the table PersistentDeadLetterQueue copies the      *)
(* queue to, which the program never reads.                                *)
(***************************************************************************)
EXTENDS Naturals, Sequences, SequencesExt, FiniteSets

CONSTANTS Threads,       \* publishing threads
          Events,        \* event ids
          Handlers,      \* tokens of subscribe
          WindowMax,     \* max_processed_events (10_000)
          DlqMax,        \* max_size of the dead-letter queue (10_000)
          MaxPublishes,  \* bound on publications
          MaxChanges,    \* bound on changes of the subscriptions
          MaxReplays,    \* bound on recovery replays
          None

ASSUME BusAssumption ==
    /\ WindowMax \in Nat \ {0} /\ DlqMax \in Nat \ {0}
    /\ {MaxPublishes, MaxChanges, MaxReplays} \subseteq Nat
    /\ IsFiniteSet(Handlers) /\ "<event_log>" \notin Handlers

\* A dead letter: the event and what failed on it, a handler or the log.
Log == "<event_log>"
Letters == Events \X (Handlers \cup {Log})

VARIABLES
    failFast,     \* EventBusConfig.fail_fast
    pc, event,    \* where each thread is in publish, and with which event
    todo,         \* the snapshot of handlers it still has to call
    failures,     \* handler_failures
    subscribers,  \* _subscribers, in order of subscription
    processed,    \* EventIdempotencyGuard._processed_events
    inFlight,     \* EventIdempotencyGuard._in_flight_event_ids
    replayMode,   \* EventBus._replay_mode
    muted,        \* EventPersistenceHook._replay_mode
    buffer,       \* BufferedEventLog._buffer
    disk,         \* the log files
    dlq,          \* DeadLetterQueue._items
    dropped,      \* DeadLetterQueue._dropped
    replays, published, changes,
    \* History of this process life: calls of a handler that returned, pairs
    \* whose last call raised, what dispatch owed each event, how often an
    \* event was released after a failure and how often it left the window.
    taken, failing, owed, released, evicted

ctl      == <<failFast, pc, event, todo, failures>>
subs     == <<subscribers, changes>>
guard    == <<processed, inFlight>>
mode     == <<replayMode, muted, replays>>
log      == <<buffer, disk>>
letters  == <<dlq, dropped>>
history  == <<taken, failing, owed, released, evicted>>
vars == <<ctl, subs, guard, mode, log, letters, published, history>>

Phases == {"idle", "claim", "persist", "snapshot", "handlers"}

TypeOK ==
    /\ failFast \in BOOLEAN
    /\ pc \in [Threads -> Phases]
    /\ event \in [Threads -> Events \cup {None}]
    /\ todo \in [Threads -> Seq(Handlers)]
    /\ failures \in [Threads -> 0 .. Cardinality(Handlers)]
    /\ subscribers \in Seq(Handlers) /\ IsInjective(subscribers)
    /\ processed \in Seq(Events) /\ IsInjective(processed)
    /\ inFlight \subseteq Events
    /\ replayMode \in BOOLEAN /\ muted \in BOOLEAN
    /\ buffer \subseteq Events /\ disk \subseteq Events
    /\ dlq \in Seq(Letters) /\ Len(dlq) <= DlqMax /\ dropped \in Nat
    /\ replays \in 0 .. MaxReplays
    /\ published \in 0 .. MaxPublishes /\ changes \in 0 .. MaxChanges
    /\ taken \in [Events \X Handlers -> Nat]
    /\ failing \subseteq Events \X Handlers
    /\ owed \in [Events -> SUBSET Handlers]
    /\ released \in [Events -> Nat] /\ evicted \in [Events -> Nat]

Init ==
    /\ pc = [t \in Threads |-> "idle"] /\ event = [t \in Threads |-> None]
    /\ todo = [t \in Threads |-> <<>>] /\ failures = [t \in Threads |-> 0]
    /\ processed = <<>> /\ inFlight = {}
    /\ replayMode = FALSE /\ muted = FALSE
    /\ buffer = {} /\ dlq = <<>> /\ dropped = 0
    /\ taken = [p \in Events \X Handlers |-> 0] /\ failing = {}
    /\ owed = [e \in Events |-> {}]
    /\ released = [e \in Events |-> 0] /\ evicted = [e \in Events |-> 0]
    /\ failFast \in BOOLEAN
    /\ \E hs \in SUBSET Handlers : subscribers \in SetToSeqs(hs)
    /\ disk = {}
    /\ replays = 0 /\ published = 0 /\ changes = 0

(***************************************************************************)
(* Subscriptions.                                                          *)
(***************************************************************************)
Subscribe(h) ==
    /\ h \notin ToSet(subscribers) /\ changes < MaxChanges
    /\ changes' = changes + 1
    /\ subscribers' = Append(subscribers, h)
    /\ UNCHANGED <<ctl, guard, mode, log, letters, published, history>>

Unsubscribe(h) ==
    /\ changes < MaxChanges
    /\ changes' = changes + 1
    /\ \E i \in DOMAIN subscribers :
          subscribers[i] = h /\ subscribers' = RemoveAt(subscribers, i)
    /\ UNCHANGED <<ctl, guard, mode, log, letters, published, history>>

(***************************************************************************)
(* EventIdempotencyGuard.                                                  *)
(***************************************************************************)
IsDuplicate(e) == e \in ToSet(processed)

\* Mutant of try_claim: a claim of another thread is not seen.
MayClaimAgain(e) == e \notin ToSet(processed)

MayClaim(e) == e \notin ToSet(processed) /\ e \notin inFlight

\* commit: the id that makes the window full pushes the oldest one out, so
\* the window remembers one id less than max_processed_events.
Remembered(e) ==
    IF e \in ToSet(processed) THEN processed
    ELSE LET w == Append(processed, e)
         IN IF Len(w) = WindowMax THEN Tail(w) ELSE w

\* Mutant: the claim is dropped and the id is not remembered.
CommitForgets(e) ==
    /\ inFlight' = inFlight \ {e}
    /\ UNCHANGED <<processed, evicted, released>>

Commit(e) ==
    /\ inFlight' = inFlight \ {e}
    /\ processed' = Remembered(e)
    /\ evicted' = [x \in Events |->
           IF x \in (ToSet(processed) \cup {e}) \ ToSet(Remembered(e))
           THEN evicted[x] + 1 ELSE evicted[x]]
    /\ UNCHANGED released

Release(e) ==
    /\ inFlight' = inFlight \ {e}
    /\ released' = [released EXCEPT ![e] = @ + 1]
    /\ UNCHANGED <<processed, evicted>>

(***************************************************************************)
(* DeadLetterQueue.push: a full deque loses its oldest letter.             *)
(***************************************************************************)
\* Mutant: a full queue refuses the new letter and does not count it.
PushIfRoom(l) ==
    /\ dlq' = IF Len(dlq) = DlqMax THEN dlq ELSE Append(dlq, l)
    /\ UNCHANGED dropped

Push(l) ==
    /\ dlq' = IF Len(dlq) = DlqMax THEN Append(Tail(dlq), l) ELSE Append(dlq, l)
    /\ dropped' = IF Len(dlq) = DlqMax THEN dropped + 1 ELSE dropped

(***************************************************************************)
(* publish, step by step.                                                  *)
(***************************************************************************)
Goto(t, p) == pc' = [pc EXCEPT ![t] = p]

Return(t) ==
    /\ Goto(t, "idle")
    /\ event' = [event EXCEPT ![t] = None]
    /\ todo' = [todo EXCEPT ![t] = <<>>]
    /\ failures' = [failures EXCEPT ![t] = 0]
    /\ UNCHANGED failFast

\* publish up to is_duplicate: an id of the window is skipped.
Publish(t, e) ==
    /\ pc[t] = "idle" /\ published < MaxPublishes
    /\ published' = published + 1
    /\ IF IsDuplicate(e)
       THEN UNCHANGED ctl
       ELSE /\ Goto(t, "claim")
            /\ event' = [event EXCEPT ![t] = e]
            /\ UNCHANGED <<failFast, todo, failures>>
    /\ UNCHANGED <<subs, guard, mode, log, letters, history>>

\* try_claim looks again, under its lock.
TryClaim(t) ==
    /\ pc[t] = "claim"
    /\ IF MayClaim(event[t])
       THEN /\ inFlight' = inFlight \cup {event[t]}
            /\ Goto(t, "persist")
            /\ UNCHANGED <<failFast, event, todo, failures, processed>>
       ELSE Return(t) /\ UNCHANGED guard
    /\ UNCHANGED <<subs, mode, log, letters, published, history>>

\* Mutant of the flush: the buffer is cleared although the write failed.
PersistCleared(t) ==
    /\ pc[t] = "persist"
    /\ IF muted
       THEN UNCHANGED log
       ELSE LET b == buffer \cup {event[t]}
            IN buffer' = {} /\ (disk' = disk \cup b \/ UNCHANGED disk)
    /\ Goto(t, "snapshot")
    /\ UNCHANGED <<failFast, event, todo, failures, subs, guard, mode,
                   letters, published, history>>

\* EventPersistenceHook.persist.  append buffers the event; a capital event
\* flushes at once, another one when the threshold or the interval says so.
\* A failed flush is logged and swallowed and keeps the buffer.
Persist(t) ==
    /\ pc[t] = "persist"
    /\ IF muted
       THEN UNCHANGED log
       ELSE LET b == buffer \cup {event[t]}
            IN \/ disk' = disk \cup b /\ buffer' = {}
               \/ buffer' = b /\ UNCHANGED disk
    /\ Goto(t, "snapshot")
    /\ UNCHANGED <<failFast, event, todo, failures, subs, guard, mode,
                   letters, published, history>>

\* append raises before it buffers (an event that cannot be encoded): the
\* event is dead-lettered, and published on unless fail_fast is set.
PersistFails(t) ==
    /\ pc[t] = "persist" /\ ~muted
    /\ Push(<<event[t], Log>>)
    /\ IF failFast
       THEN Return(t) /\ Release(event[t])
       ELSE /\ Goto(t, "snapshot")
            /\ UNCHANGED <<failFast, event, todo, failures, guard, released, evicted>>
    /\ UNCHANGED <<subs, mode, log, published, taken, failing, owed>>

\* The handlers are read under the subscribers' lock; none in replay mode.
Snapshot(t) ==
    /\ pc[t] = "snapshot"
    /\ LET hs == IF replayMode THEN <<>> ELSE subscribers
       IN /\ todo' = [todo EXCEPT ![t] = hs]
          /\ owed' = [owed EXCEPT ![event[t]] = ToSet(hs)]
    /\ Goto(t, "handlers")
    /\ UNCHANGED <<failFast, event, failures, subs, guard, mode, log,
                   letters, published, taken, failing, released, evicted>>

HandlerReturns(t) ==
    /\ pc[t] = "handlers" /\ todo[t] # <<>>
    /\ todo' = [todo EXCEPT ![t] = Tail(@)]
    /\ LET p == <<event[t], Head(todo[t])>>
       IN /\ taken' = [taken EXCEPT ![p] = @ + 1]
          /\ failing' = failing \ {p}
    /\ UNCHANGED <<failFast, pc, event, failures, subs, guard, mode, log,
                   letters, published, owed, released, evicted>>

\* handle_failure dead-letters the pair and the others still get the event,
\* unless fail_fast raises out of publish.
HandlerRaises(t) ==
    /\ pc[t] = "handlers" /\ todo[t] # <<>>
    /\ Push(<<event[t], Head(todo[t])>>)
    /\ failing' = failing \cup {<<event[t], Head(todo[t])>>}
    /\ IF failFast
       THEN Return(t) /\ Release(event[t])
       ELSE /\ todo' = [todo EXCEPT ![t] = Tail(@)]
            /\ failures' = [failures EXCEPT ![t] = @ + 1]
            /\ UNCHANGED <<failFast, pc, event, guard, released, evicted>>
    /\ UNCHANGED <<subs, mode, log, published, taken, owed>>

\* Mutant: the event is committed whatever the handlers did.
SettleCommits(t) ==
    /\ pc[t] = "handlers" /\ todo[t] = <<>>
    /\ Commit(event[t]) /\ Return(t)
    /\ UNCHANGED <<subs, mode, log, letters, published, taken, failing, owed>>

\* After the last handler: a clean event is committed, one that failed
\* somewhere is released so that it can be published again.
Settle(t) ==
    /\ pc[t] = "handlers" /\ todo[t] = <<>>
    /\ IF failures[t] > 0 THEN Release(event[t]) ELSE Commit(event[t])
    /\ Return(t)
    /\ UNCHANGED <<subs, mode, log, letters, published, taken, failing, owed>>

(***************************************************************************)
(* The other users of the bus, its log and its queue.                      *)
(***************************************************************************)
\* set_replay_mode sets the bus's flag, then the hook's.
SetReplayMode ==
    /\ replayMode = muted /\ (replayMode \/ replays < MaxReplays)
    /\ replayMode' = ~replayMode
    /\ replays' = IF replayMode THEN replays ELSE replays + 1
    /\ UNCHANGED <<ctl, subs, guard, muted, log, letters, published, history>>

SetHookReplayMode ==
    /\ muted # replayMode
    /\ muted' = replayMode
    /\ UNCHANGED <<ctl, subs, guard, replayMode, replays, log, letters,
                   published, history>>

\* flush() by its callers, or at interpreter exit.
Flush ==
    /\ buffer # {}
    /\ disk' = disk \cup buffer /\ buffer' = {}
    /\ UNCHANGED <<ctl, subs, guard, mode, letters, published, history>>

Next ==
    \/ \E t \in Threads :
           \/ \E e \in Events : Publish(t, e)
           \/ TryClaim(t) \/ Persist(t) \/ PersistFails(t) \/ Snapshot(t)
           \/ HandlerReturns(t) \/ HandlerRaises(t) \/ Settle(t)
    \/ \E h \in Handlers : Subscribe(h) \/ Unsubscribe(h)
    \/ SetReplayMode \/ SetHookReplayMode \/ Flush

Spec == Init /\ [][Next]_vars

(***************************************************************************)
(* Properties.                                                             *)
(***************************************************************************)
Working(t) == pc[t] \in {"persist", "snapshot", "handlers"}

\* No two threads deliver the same event at once, however their publications
\* overlap, and no claim outlives the publication that made it: an id never
\* stays refused because a failed or raising delivery kept it.
OneDispatcher ==
    /\ inFlight = {event[t] : t \in {u \in Threads : Working(u)}}
    /\ \A t, u \in Threads :
           Working(t) /\ Working(u) /\ event[t] = event[u] => t = u

\* The types and the bounds, and that the claims are those of the publications.
BusInv == TypeOK /\ OneDispatcher

\* What the guard refuses as processed was delivered: every handler that was
\* subscribed when the event was dispatched has returned from it.
ProcessedWasTaken ==
    \A e \in ToSet(processed) : \A h \in owed[e] : taken[<<e, h>>] > 0

\* A handler gets an event a second time only for a reason the guard knows:
\* another handler failed on it, or the id left the bounded window.
DeliveredOnce ==
    \A e \in Events, h \in Handlers :
        taken[<<e, h>>] <= 1 + released[e] + evicted[e]

\* "Handler failures are NEVER silently swallowed": a handler's failure that no
\* later delivery made good is in the dead-letter queue, or is among the letters
\* the queue has counted as lost to its capacity.
FailuresOnRecord == Cardinality(failing \ ToSet(dlq)) <= dropped

\* "Persist first": while no replay mutes the log, a handler has seen an event
\* only when the log has it, on disk or to be flushed with the next write, or
\* when its absence from the log is on record.
LoggedBeforeTaken ==
    replays = 0 =>
        \A e \in Events :
            (\E h \in Handlers : taken[<<e, h>>] > 0) =>
                e \in disk \cup buffer \/ <<e, Log>> \in ToSet(dlq) \/ dropped > 0

=============================================================================
