------------------------- MODULE ReconciliationGate -------------------------
(***************************************************************************)
(* The reconciliation service, the gate it opens for order placement and   *)
(* the lifecycle manager that starts and stops it                          *)
(* (src/application/oms/reconciliation_service.py,                         *)
(* src/application/oms/context/wiring.py and __init__.py,                  *)
(* src/infrastructure/lifecycle/lifecycle.py).                             *)
(*                                                                         *)
(* The process starts without a service.  The bootstrap thread attaches    *)
(* one, and attaches another when the broker is switched; it also starts   *)
(* and stops all services.  A service has at most one live loop, except    *)
(* when a stop gave up waiting and the service was started again.          *)
(*                                                                         *)
(* What the OMS books and the broker's account hold is left out: either    *)
(* may change at any moment, so a comparison of the two may come out       *)
(* either way.                                                             *)
(***************************************************************************)
EXTENDS Naturals, FiniteSets

CONSTANTS NumServices,   \* bound on attach_reconciliation_service calls
          Loops,         \* threads a service may start: <<service, n>>
          Main,          \* the bootstrap thread
          None

Services == 1 .. NumServices
Runners == Loops \union {Main}

ASSUME GateAssumption ==
    /\ NumServices \in Nat /\ Loops \subseteq Services \X Nat
    /\ Main \notin Loops /\ None \notin Loops

VARIABLES
    gate,        \* a placement gate is set
    ready,       \* _reconciliation_ready
    attached,    \* the context's _reconciliation_service, 0 when there is none
    stopping,    \* _stop_event
    request,     \* _immediate_request
    notified,    \* _first_success_notified
    thread,      \* _thread
    registered,  \* the manager's service of that name, 0 when there is none
    started,     \* the name is in the manager's _started
    startAll,    \* _start_all_invoked
    pc,          \* where each thread is
    report,      \* the report with which a run calls back
    unseen,      \* history: an event asked for a run, none has begun since
    cleanRun     \* history: a run free of drift called back since the gate was shut

service == <<stopping, request, notified, thread>>
manager == <<registered, started, startAll>>
context == <<gate, ready, attached>>
vars == <<context, service, manager, pc, report, unseen, cleanRun>>

Init ==
    /\ gate = FALSE /\ ready = TRUE /\ attached = 0
    /\ stopping = [s \in Services |-> FALSE]
    /\ request = [s \in Services |-> FALSE]
    /\ notified = [s \in Services |-> FALSE]
    /\ thread = [s \in Services |-> None]
    /\ registered = 0 /\ started = FALSE /\ startAll = FALSE
    /\ pc = [r \in Runners |-> IF r = Main THEN "idle" ELSE "unborn"]
    /\ report = [r \in Runners |-> None]
    /\ unseen = [s \in Services |-> FALSE] /\ cleanRun = FALSE

-----------------------------------------------------------------------------
(* ReconciliationService.start and stop                                    *)

Alive(l) == l # None /\ pc[l] \notin {"unborn", "ended"}

\* The bug of a stop() that does not wake the loop.
StopSignalQuiet(s) ==
    /\ stopping' = [stopping EXCEPT ![s] = TRUE]
    /\ UNCHANGED request

\* stop() wakes the loop so that it looks at the stop flag.
StopSignal(s) ==
    /\ stopping' = [stopping EXCEPT ![s] = TRUE]
    /\ request' = [request EXCEPT ![s] = TRUE]

\* start() of a service whose thread is not alive begins a new loop.
Spawn(s, l, to) ==
    /\ l \in Loops /\ l[1] = s /\ pc[l] = "unborn"
    /\ stopping' = [stopping EXCEPT ![s] = FALSE]
    /\ thread' = [thread EXCEPT ![s] = l]
    /\ pc' = [pc EXCEPT ![l] = "waiting", ![Main] = to]

\* _start_one goes by the name: a replaced service inherits it.
StartOne(s, to) ==
    \/ /\ s = 0 \/ started
       /\ pc' = [pc EXCEPT ![Main] = to]
       /\ UNCHANGED <<started, stopping, thread>>
    \/ /\ s # 0 /\ ~started
       /\ started' = TRUE
       /\ IF Alive(thread[s])
          THEN pc' = [pc EXCEPT ![Main] = to] /\ UNCHANGED <<stopping, thread>>
          ELSE \E l \in Loops : Spawn(s, l, to)

-----------------------------------------------------------------------------
(* The bootstrap thread                                                    *)

StartAll ==
    /\ pc[Main] = "idle"
    /\ startAll' = TRUE
    /\ StartOne(registered, "idle")
    /\ UNCHANGED <<context, request, notified, registered,
                   report, unseen, cleanRun>>

StopAll ==
    /\ pc[Main] = "idle" /\ started
    /\ StopSignal(registered)
    /\ pc' = [pc EXCEPT ![Main] = "stopping"]
    /\ UNCHANGED <<context, notified, thread, manager, report,
                   unseen, cleanRun>>

\* The loop has ended or the five seconds are over; the manager's own five
\* seconds may end first, and the name then stays among the started ones.
StopReturns ==
    /\ pc[Main] = "stopping"
    /\ started' \in IF Alive(thread[registered]) THEN BOOLEAN ELSE {FALSE}
    /\ thread' = [thread EXCEPT ![registered] = None]
    /\ pc' = [pc EXCEPT ![Main] = "idle"]
    /\ UNCHANGED <<context, stopping, request, notified,
                   registered, startAll, report, unseen, cleanRun>>

\* attach_reconciliation_service: the old service is detached and stopped.
Detach ==
    /\ pc[Main] = "idle" /\ attached # 0 /\ attached < NumServices
    /\ gate' = FALSE
    /\ StopSignal(attached)
    /\ pc' = [pc EXCEPT ![Main] = "joining"]
    /\ UNCHANGED <<ready, attached, notified, thread, manager,
                   report, unseen, cleanRun>>

JoinReturns ==
    /\ pc[Main] = "joining"
    /\ thread' = [thread EXCEPT ![attached] = None]
    /\ pc' = [pc EXCEPT ![Main] = "wiring"]
    /\ UNCHANGED <<context, stopping, request, notified,
                   manager, report, unseen, cleanRun>>

\* The new service is in place and its gate set, still with the old flag.
Wire ==
    /\ \/ pc[Main] = "wiring"
       \/ pc[Main] = "idle" /\ attached = 0 /\ NumServices > 0
    /\ attached' = attached + 1
    /\ gate' = TRUE
    /\ pc' = [pc EXCEPT ![Main] = "closing"]
    /\ UNCHANGED <<ready, service, manager, report, unseen, cleanRun>>

Close ==
    /\ pc[Main] = "closing"
    /\ ready' = FALSE /\ cleanRun' = FALSE
    /\ pc' = [pc EXCEPT ![Main] = "registering"]
    /\ UNCHANGED <<gate, attached, service, manager, report, unseen>>

\* register() starts a late service; run_now() follows unless switched off.
Register ==
    /\ pc[Main] = "registering"
    /\ registered' = attached
    /\ \E to \in {"reconcile", "idle"} :
          IF startAll
          THEN StartOne(attached, to)
          ELSE pc' = [pc EXCEPT ![Main] = to] /\ UNCHANGED <<started, stopping, thread>>
    /\ UNCHANGED <<context, request, notified, startAll, report,
                   unseen, cleanRun>>

-----------------------------------------------------------------------------
(* One run, by a loop or by run_now                                        *)

ServiceOf(r) == IF r = Main THEN attached ELSE r[1]

Goto(r, to) == pc' = [pc EXCEPT ![r] = to]

\* A loop looks at the stop flag before it waits again.
Return(r) ==
    /\ Goto(r, CASE r = Main -> "idle"
                 [] r # Main /\ stopping[ServiceOf(r)] -> "ended"
                 [] OTHER -> "waiting")
    /\ report' = [report EXCEPT ![r] = None]

\* The OMS books are read before the broker is asked.
Snapshot(r) ==
    /\ pc[r] = "reconcile"
    /\ unseen' = [unseen EXCEPT ![ServiceOf(r)] = FALSE]
    /\ Goto(r, "asking")
    /\ UNCHANGED <<context, service, manager, report, cleanRun>>

\* The broker's answer is an error: the run ends without a report.
ReconcileFails(r) ==
    /\ pc[r] = "asking"
    /\ Return(r)
    /\ UNCHANGED <<context, service, manager, unseen, cleanRun>>

\* Events of the books reach the service that is attached when they come.
Signal ==
    /\ request' = [request EXCEPT ![attached] = TRUE]
    /\ unseen' = [unseen EXCEPT ![attached] = TRUE]

Subscribed == attached # 0 /\ pc[Main] \notin {"joining", "wiring", "closing"}

\* The bug of taking every report for a good one.
IsAnyReport(verdict) == verdict \in {"clean", "drift"}

IsCleanForTrading(verdict) == verdict = "clean"

\* The bug of setting the flag before the report is looked at.
NotifyFirst(r, verdict) ==
    /\ notified' = [notified EXCEPT ![ServiceOf(r)] = TRUE]
    /\ IF IsCleanForTrading(verdict) /\ ~notified[ServiceOf(r)]
       THEN report' = [report EXCEPT ![r] = verdict] /\ Goto(r, "calling")
       ELSE Return(r)

\* _notify_first_success looks whether the service has called back before ...
Notify(r, verdict) ==
    /\ IF IsCleanForTrading(verdict) /\ ~notified[ServiceOf(r)]
       THEN report' = [report EXCEPT ![r] = verdict] /\ Goto(r, "claiming")
       ELSE Return(r)
    /\ UNCHANGED notified

\* The bug of forgetting the request once more after the run.
ReconcileClears(r) ==
    /\ pc[r] = "asking"
    /\ request' = [request EXCEPT ![ServiceOf(r)] = FALSE]
    /\ \E verdict \in {"clean", "drift"} : Notify(r, verdict)
    /\ UNCHANGED <<context, stopping, thread, manager, unseen, cleanRun>>

\* A report comes, apply_mass_status heals the books (an order it inserts is
\* an event) and the report is looked at.
Reconcile(r) ==
    /\ pc[r] = "asking"
    /\ UNCHANGED <<request, unseen>> \/ (Subscribed /\ Signal)
    /\ \E verdict \in {"clean", "drift"} : Notify(r, verdict)
    /\ UNCHANGED <<context, stopping, thread, manager, cleanRun>>

\* ... and says so, without a lock: two runs may both call back.
ClaimFirstSuccess(r) ==
    /\ pc[r] = "claiming"
    /\ notified' = [notified EXCEPT ![ServiceOf(r)] = TRUE]
    /\ Goto(r, "calling")
    /\ UNCHANGED <<context, stopping, request, thread, manager, report, unseen,
                   cleanRun>>

\* The callback, _mark_reconciliation_ready.
MarkReady(r) ==
    /\ pc[r] = "calling"
    /\ ready' = TRUE
    /\ cleanRun' = (cleanRun \/ report[r] = "clean")
    /\ Return(r)
    /\ UNCHANGED <<gate, attached, service, manager, unseen>>

-----------------------------------------------------------------------------
(* The loop                                                                *)

\* The wait is over: the loop looks at the stop flag.
Woken(l) ==
    /\ Goto(l, IF stopping[l[1]] THEN "ended" ELSE "clearing")
    /\ UNCHANGED <<context, service, manager, report, unseen, cleanRun>>

Wake(l) == pc[l] = "waiting" /\ request[l[1]] /\ Woken(l)

IntervalOver(l) == pc[l] = "waiting" /\ ~request[l[1]] /\ Woken(l)

\* The request is forgotten before the run that answers it reads the books.
Clear(l) ==
    /\ pc[l] = "clearing"
    /\ request' = [request EXCEPT ![l[1]] = FALSE]
    /\ Goto(l, "reconcile")
    /\ UNCHANGED <<context, stopping, notified, thread, manager, report,
                   unseen, cleanRun>>

-----------------------------------------------------------------------------
(* A TRADE_APPLIED or ORDER_UPDATED event wakes the loop                    *)

RequestReconciliation ==
    /\ Subscribed /\ Signal
    /\ UNCHANGED <<context, stopping, notified, thread, manager, pc, report,
                   cleanRun>>

-----------------------------------------------------------------------------
Run(r) ==
    \/ Snapshot(r) \/ ReconcileFails(r) \/ Reconcile(r)
    \/ ClaimFirstSuccess(r) \/ MarkReady(r)

\* A loop's own steps; the end of the interval is not among them.
LoopStep(l) == Wake(l) \/ Clear(l) \/ Run(l)

\* The steps of a call of the bootstrap thread once it has begun.
MainStep ==
    \/ StopReturns \/ JoinReturns \/ Close \/ Register \/ Run(Main)
    \/ pc[Main] = "wiring" /\ Wire

Next ==
    \/ StartAll \/ StopAll \/ StopReturns
    \/ Detach \/ JoinReturns \/ Wire \/ Close \/ Register
    \/ \E r \in Runners : Run(r)
    \/ \E l \in Loops : Wake(l) \/ IntervalOver(l) \/ Clear(l)
    \/ RequestReconciliation

Spec == Init /\ [][Next]_vars

\* Threads keep running, a wait on a set event returns, and a broker call
\* ends by an answer or by its timeout.
FairSpec ==
    /\ Spec /\ WF_vars(MainStep)
    /\ \A l \in Loops : WF_vars(LoopStep(l))

-----------------------------------------------------------------------------
(* Properties                                                              *)

MainPlaces == {"idle", "stopping", "joining", "wiring", "closing", "registering"}
RunPlaces == {"reconcile", "asking", "claiming", "calling"}
LoopPlaces == {"unborn", "waiting", "clearing", "ended"}

\* Every variable has its type, only a run that calls back holds a report, and
\* the thread a service knows of has been started.
TypeOK ==
    /\ {gate, ready, started, startAll, cleanRun} \subseteq BOOLEAN
    /\ attached \in 0 .. NumServices /\ registered \in 0 .. NumServices
    /\ {stopping, request, notified, unseen} \subseteq [Services -> BOOLEAN]
    /\ thread \in [Services -> Loops \union {None}]
    /\ \A s \in Services : thread[s] # None => pc[thread[s]] # "unborn"
    /\ pc[Main] \in MainPlaces \union RunPlaces
    /\ \A l \in Loops : pc[l] \in LoopPlaces \union RunPlaces
    /\ \A r \in Runners : pc[r] \notin {"claiming", "calling"} => report[r] = None

\* Once an attach has shut the gate, orders pass it only after a run that
\* found no drift has called back (wiring.py:109-111,
\* reconciliation_service.py:236-237), however runs of a replaced service,
\* run_now and the new loop interleave.  It may be a replaced service's run.
OpenedByCleanRun ==
    gate /\ ready /\ pc[Main] # "closing" => cleanRun

\* After the callback a service does not look for the next, so nothing may shut
\* the gate again behind it: when the attached service has called back, orders pass
\* (reconciliation_service.py:304-309, wiring.py:109-111).
NotShutForGood ==
    attached # 0 /\ notified[attached]
        => ready \/ \E r \in Runners : ServiceOf(r) = attached /\ pc[r] = "calling"

\* The types, that a service knows started threads only, and that nothing shuts
\* the gate behind the callback.
GateInv == TypeOK /\ NotShutForGood

\* An event that asks for a run is answered by one that reads the books after
\* it, without the help of the interval, as long as a loop of the service is
\* alive and not told to stop (reconciliation_service.py:134-142, 162-170).
RequestServed ==
    \A s \in Services :
        (unseen[s] /\ \E l \in Loops : l[1] = s /\ Alive(l))
            ~> (~unseen[s] \/ stopping[s])

\* The loop of a stopped service ends without waiting for its interval, also
\* when stop() has given up on it, unless the service is started again
\* (reconciliation_service.py:97-109).  Of two loops one may clear the event
\* that stop() set for both; the other then ends with its interval.
StopEnds ==
    \A s \in Services :
        (stopping[s] /\ Cardinality({l \in Loops : l[1] = s /\ pc[l] # "unborn"}) = 1)
            ~> (~stopping[s] \/ \A l \in Loops : l[1] = s => ~Alive(l))

\* "wake the loop on order lifecycle events" (wiring.py:113): once services
\* are started, an event is answered by a run of the service that is attached.
AttachedServiceServes ==
    \A s \in Services :
        (unseen[s] /\ attached = s /\ startAll)
            ~> (~unseen[s] \/ stopping[s])
=============================================================================
