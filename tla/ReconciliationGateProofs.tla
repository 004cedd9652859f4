---------------------- MODULE ReconciliationGateProofs ----------------------
(***************************************************************************)
(* Proofs about ReconciliationGate, for any number of services and loops.  *)
(*                                                                         *)
(* That only a clean report is ever taken to the callback carries both     *)
(* results; the rest of the invariant says which services can have called  *)
(* back, and which loops can be alive, while the bootstrap thread is still *)
(* between setting the gate and starting the service behind it.            *)
(***************************************************************************)
EXTENDS ReconciliationGate, TLAPS

\* The types, and that a service knows started threads only.
Types ==
    /\ gate \in BOOLEAN /\ ready \in BOOLEAN /\ cleanRun \in BOOLEAN
    /\ started \in BOOLEAN /\ startAll \in BOOLEAN
    /\ attached \in 0 .. NumServices /\ registered \in 0 .. NumServices
    /\ stopping \in [Services -> BOOLEAN] /\ request \in [Services -> BOOLEAN]
    /\ notified \in [Services -> BOOLEAN] /\ unseen \in [Services -> BOOLEAN]
    /\ thread \in [Services -> Loops \union {None}]
    /\ \A s \in Services : thread[s] # None => pc[thread[s]] # "unborn"
    /\ pc \in [Runners -> MainPlaces \union RunPlaces \union LoopPlaces]
    /\ pc[Main] \in MainPlaces \union RunPlaces
    /\ \A l \in Loops : pc[l] \in LoopPlaces \union RunPlaces

\* A run that calls back holds a clean report, and no other run holds one.
Reports ==
    /\ report \in [Runners -> {"clean", "drift", None}]
    /\ \A r \in Runners :
           report[r] = IF pc[r] \in {"claiming", "calling"} THEN "clean" ELSE None

\* A service that is not attached yet has no loop and has not called back, and
\* the one that is being attached has not either until it is registered.
Fresh ==
    /\ registered <= attached
    /\ \A l \in Loops : l[1] > attached => pc[l] = "unborn"
    /\ \A s \in Services : s > attached => ~notified[s]
    /\ pc[Main] \in {"joining", "wiring"} => attached # 0 /\ attached < NumServices
    /\ pc[Main] \in {"closing", "registering"} =>
           /\ attached # 0 /\ ~notified[attached]
           /\ \A l \in Loops : l[1] = attached => pc[l] = "unborn"

\* The inductive invariant.
Inv == Types /\ Reports /\ Fresh /\ NotShutForGood /\ OpenedByCleanRun

\* The assumption on the constants, in the form the steps below use.
LEMMA LoopFacts ==
    /\ Main \in Runners /\ Main \notin Loops /\ Loops \subseteq Runners
    /\ None \notin Loops /\ NumServices \in Nat
    /\ \A l \in Loops : l[1] \in Services
  BY GateAssumption DEF Services, Runners

\* The invariant holds at the start of the process.
LEMMA GateInit == Init => Inv
<1> SUFFICES ASSUME Init PROVE Inv
  OBVIOUS
<1> USE LoopFacts DEF Init, MainPlaces, RunPlaces, LoopPlaces, Services
<1>1. /\ pc \in [Runners -> MainPlaces \union RunPlaces \union LoopPlaces]
      /\ pc[Main] = "idle" /\ \A l \in Loops : pc[l] = "unborn"
      /\ \A r \in Runners : pc[r] \in {"idle", "unborn"}
  <2>1. pc = [r \in Runners |-> IF r = Main THEN "idle" ELSE "unborn"]
    OBVIOUS
  <2> HIDE DEF Init, Services
  <2> QED BY <2>1
<1>2. Types
  <2>1. attached = 0 /\ registered = 0 /\ 0 \in 0 .. NumServices
    OBVIOUS
  <2>2. \A s \in Services : thread[s] = None
    OBVIOUS
  <2>3. thread \in [Services -> Loops \union {None}]
    OBVIOUS
  <2>4. /\ stopping \in [Services -> BOOLEAN] /\ request \in [Services -> BOOLEAN]
        /\ notified \in [Services -> BOOLEAN] /\ unseen \in [Services -> BOOLEAN]
    OBVIOUS
  <2>5. /\ gate \in BOOLEAN /\ ready \in BOOLEAN /\ cleanRun \in BOOLEAN
        /\ started \in BOOLEAN /\ startAll \in BOOLEAN
    OBVIOUS
  <2> HIDE DEF Init
  <2> QED BY <1>1, <2>1, <2>2, <2>3, <2>4, <2>5 DEF Types
<1>3. Reports
  BY <1>1 DEF Reports
<1>4. Fresh
  BY <1>1 DEF Fresh
<1> QED BY <1>1, <1>2, <1>3, <1>4 DEF Inv, NotShutForGood, OpenedByCleanRun

\* Every step of the bootstrap thread, of a run and of a loop keeps it.
LEMMA GateStep == Inv /\ [Next]_vars => Inv'
<1> SUFFICES ASSUME Inv, [Next]_vars PROVE Inv'
  OBVIOUS
<1> USE LoopFacts DEF Inv, Types, Reports, Fresh, NotShutForGood, OpenedByCleanRun,
    MainPlaces, RunPlaces, LoopPlaces, Services, context, service, manager,
    ServiceOf, Alive, Runners
<1>1. CASE StartAll
  <2>1. PICK to \in {"idle"} : pc[Main] = "idle" /\ StartOne(registered, to)
    BY <1>1 DEF StartAll
  <2>2. \/ /\ pc' = [pc EXCEPT ![Main] = to]
           /\ UNCHANGED <<stopping, thread>>
        \/ /\ registered # 0
           /\ \E l \in Loops : Spawn(registered, l, to)
    BY <2>1 DEF StartOne
  <2>3. started' \in BOOLEAN
    BY <2>1 DEF StartOne
  <2>4. UNCHANGED <<context, request, notified, registered, report, unseen, cleanRun>>
    BY <1>1 DEF StartAll
  <2>5. startAll' \in BOOLEAN /\ registered' \in 0 .. NumServices /\ registered' <= attached'
    BY <1>1 DEF StartAll
  <2>6. CASE pc' = [pc EXCEPT ![Main] = to] /\ UNCHANGED <<stopping, thread>>
    <3>1. Types'
      BY <2>1, <2>3, <2>4, <2>5, <2>6
    <3>2. Reports'
      BY <2>1, <2>4, <2>5, <2>6
    <3>3. Fresh'
      BY <2>1, <2>4, <2>5, <2>6
    <3>4. NotShutForGood'
      BY <2>1, <2>4, <2>5, <2>6
    <3>5. OpenedByCleanRun'
      BY <2>1, <2>4, <2>5, <2>6
    <3> QED BY <3>1, <3>2, <3>3, <3>4, <3>5
  <2>7. ASSUME registered # 0, NEW l \in Loops, Spawn(registered, l, to) PROVE Inv'
    <3>1. /\ l[1] = registered /\ pc[l] = "unborn" /\ l # Main /\ l \in Runners
          /\ pc' = [pc EXCEPT ![l] = "waiting", ![Main] = to]
          /\ thread' = [thread EXCEPT ![registered] = l]
          /\ stopping' = [stopping EXCEPT ![registered] = FALSE]
          /\ registered \in Services
      BY <2>7 DEF Spawn
    <3>2. /\ pc'[l] = "waiting" /\ pc'[Main] = to
          /\ \A r \in Runners \ {l, Main} : pc'[r] = pc[r]
          /\ pc' \in [Runners -> MainPlaces \union RunPlaces \union LoopPlaces]
      BY <3>1, <2>1
    <3>3. Types'
      <4>1. /\ thread' \in [Services -> Loops \union {None}]
            /\ stopping' \in [Services -> BOOLEAN]
        BY <3>1
      <4>2. \A s \in Services : thread'[s] # None => pc'[thread'[s]] # "unborn"
        <5> SUFFICES ASSUME NEW s \in Services, thread'[s] # None
                     PROVE  pc'[thread'[s]] # "unborn"
          OBVIOUS
        <5>1. CASE s = registered
          BY <5>1, <3>1, <3>2
        <5>2. CASE s # registered
          <6>1. thread'[s] = thread[s] /\ thread[s] \in Loops
            BY <5>2, <3>1
          <6> QED BY <6>1, <3>1, <3>2
        <5> QED BY <5>1, <5>2
      <4>3. pc'[Main] \in MainPlaces \union RunPlaces
        BY <3>2, <2>1
      <4>4. \A k \in Loops : pc'[k] \in LoopPlaces \union RunPlaces
        BY <3>2
      <4> QED BY <4>1, <4>2, <4>3, <4>4, <3>2, <2>3, <2>4, <2>5
    <3>4. Reports'
      BY <3>1, <3>2, <2>1, <2>4
    <3>5. Fresh'
      <4>1. pc'[Main] \in {"idle", "reconcile"}
        BY <3>2, <2>1
      <4>2. ASSUME NEW k \in Loops, k[1] > attached PROVE pc'[k] = "unborn"
        <5>1. registered <= attached /\ k[1] \in Services
          OBVIOUS
        <5>2. k # l
          BY <5>1, <4>2, <3>1
        <5>3. pc[k] = "unborn"
          BY <4>2
        <5>4. k \in Runners \ {l, Main}
          BY <5>2
        <5> QED BY <5>3, <5>4, <3>2
      <4>3. UNCHANGED <<attached, notified>>
        BY <2>4
      <4>4. \A s \in Services : s > attached => ~notified[s]
        OBVIOUS
      <4> HIDE DEF Inv, Types, Reports, NotShutForGood, OpenedByCleanRun, Services, Runners, ServiceOf, Alive
      <4> QED BY <4>1, <4>2, <4>3, <4>4, <2>5
    <3>6. NotShutForGood'
      BY <3>1, <3>2, <2>1, <2>4, <2>5
    <3>7. OpenedByCleanRun'
      BY <3>1, <3>2, <2>1, <2>4, <2>5
    <3> QED BY <3>3, <3>4, <3>5, <3>6, <3>7
  <2> QED BY <2>2, <2>6, <2>7
<1>2. CASE StopAll
  <2>1. Types'
    BY <1>2 DEF StopAll, StopSignal
  <2>2. Reports'
    BY <1>2 DEF StopAll, StopSignal
  <2>3. Fresh'
    BY <1>2 DEF StopAll, StopSignal
  <2>4. NotShutForGood'
    BY <1>2 DEF StopAll, StopSignal
  <2>5. OpenedByCleanRun'
    BY <1>2 DEF StopAll, StopSignal
  <2> QED BY <2>1, <2>2, <2>3, <2>4, <2>5
<1>3. CASE StopReturns
  <2>1. Types'
    BY <1>3 DEF StopReturns
  <2>2. Reports'
    BY <1>3 DEF StopReturns
  <2>3. Fresh'
    BY <1>3 DEF StopReturns
  <2>4. NotShutForGood'
    BY <1>3 DEF StopReturns
  <2>5. OpenedByCleanRun'
    BY <1>3 DEF StopReturns
  <2> QED BY <2>1, <2>2, <2>3, <2>4, <2>5
<1>4. CASE Detach
  <2>1. Types'
    BY <1>4 DEF Detach, StopSignal
  <2>2. Reports'
    BY <1>4 DEF Detach, StopSignal
  <2>3. Fresh'
    BY <1>4 DEF Detach, StopSignal
  <2>4. NotShutForGood'
    BY <1>4 DEF Detach, StopSignal
  <2>5. OpenedByCleanRun'
    BY <1>4 DEF Detach, StopSignal
  <2> QED BY <2>1, <2>2, <2>3, <2>4, <2>5
<1>5. CASE JoinReturns
  <2>1. Types'
    BY <1>5 DEF JoinReturns
  <2>2. Reports'
    BY <1>5 DEF JoinReturns
  <2>3. Fresh'
    BY <1>5 DEF JoinReturns
  <2>4. NotShutForGood'
    BY <1>5 DEF JoinReturns
  <2>5. OpenedByCleanRun'
    BY <1>5 DEF JoinReturns
  <2> QED BY <2>1, <2>2, <2>3, <2>4, <2>5
<1>6. CASE Wire
  <2>1. Types'
    BY <1>6 DEF Wire
  <2>2. Reports'
    BY <1>6 DEF Wire
  <2>3. Fresh'
    BY <1>6 DEF Wire
  <2>4. NotShutForGood'
    BY <1>6 DEF Wire
  <2>5. OpenedByCleanRun'
    BY <1>6 DEF Wire
  <2> QED BY <2>1, <2>2, <2>3, <2>4, <2>5
<1>7. CASE Close
  <2>1. Types'
    BY <1>7 DEF Close
  <2>2. Reports'
    BY <1>7 DEF Close
  <2>3. Fresh'
    BY <1>7 DEF Close
  <2>4. NotShutForGood'
    BY <1>7 DEF Close
  <2>5. OpenedByCleanRun'
    BY <1>7 DEF Close
  <2> QED BY <2>1, <2>2, <2>3, <2>4, <2>5
<1>8. CASE Register
  <2>1. PICK to \in {"reconcile", "idle"} : 
             /\ pc[Main] = "registering" /\ registered' = attached
             /\ StartOne(attached, to) \/ (pc' = [pc EXCEPT ![Main] = to] /\ UNCHANGED <<started, stopping, thread>>)
    BY <1>8 DEF Register
  <2>2. \/ /\ pc' = [pc EXCEPT ![Main] = to]
           /\ UNCHANGED <<stopping, thread>>
        \/ /\ attached # 0
           /\ \E l \in Loops : Spawn(attached, l, to)
    BY <2>1 DEF StartOne
  <2>3. started' \in BOOLEAN
    BY <2>1 DEF StartOne
  <2>4. UNCHANGED <<context, request, notified, startAll, report, unseen, cleanRun>>
    BY <1>8 DEF Register
  <2>5. registered' \in 0 .. NumServices /\ registered' <= attached' /\ startAll' \in BOOLEAN
    BY <2>1, <2>4
  <2>6. CASE pc' = [pc EXCEPT ![Main] = to] /\ UNCHANGED <<stopping, thread>>
    <3>1. Types'
      BY <2>1, <2>3, <2>4, <2>5, <2>6
    <3>2. Reports'
      BY <2>1, <2>4, <2>5, <2>6
    <3>3. Fresh'
      BY <2>1, <2>4, <2>5, <2>6
    <3>4. NotShutForGood'
      BY <2>1, <2>4, <2>5, <2>6
    <3>5. OpenedByCleanRun'
      BY <2>1, <2>4, <2>5, <2>6
    <3> QED BY <3>1, <3>2, <3>3, <3>4, <3>5
  <2>7. ASSUME attached # 0, NEW l \in Loops, Spawn(attached, l, to) PROVE Inv'
    <3>1. /\ l[1] = attached /\ pc[l] = "unborn" /\ l # Main /\ l \in Runners
          /\ pc' = [pc EXCEPT ![l] = "waiting", ![Main] = to]
          /\ thread' = [thread EXCEPT ![attached] = l]
          /\ stopping' = [stopping EXCEPT ![attached] = FALSE]
          /\ attached \in Services
      BY <2>7 DEF Spawn
    <3>2. /\ pc'[l] = "waiting" /\ pc'[Main] = to
          /\ \A r \in Runners \ {l, Main} : pc'[r] = pc[r]
          /\ pc' \in [Runners -> MainPlaces \union RunPlaces \union LoopPlaces]
      BY <3>1, <2>1
    <3>3. Types'
      <4>1. /\ thread' \in [Services -> Loops \union {None}]
            /\ stopping' \in [Services -> BOOLEAN]
        BY <3>1
      <4>2. \A s \in Services : thread'[s] # None => pc'[thread'[s]] # "unborn"
        <5> SUFFICES ASSUME NEW s \in Services, thread'[s] # None
                     PROVE  pc'[thread'[s]] # "unborn"
          OBVIOUS
        <5>1. CASE s = attached
          BY <5>1, <3>1, <3>2
        <5>2. CASE s # attached
          <6>1. thread'[s] = thread[s] /\ thread[s] \in Loops
            BY <5>2, <3>1
          <6> QED BY <6>1, <3>1, <3>2
        <5> QED BY <5>1, <5>2
      <4>3. pc'[Main] \in MainPlaces \union RunPlaces
        BY <3>2, <2>1
      <4>4. \A k \in Loops : pc'[k] \in LoopPlaces \union RunPlaces
        BY <3>2
      <4> QED BY <4>1, <4>2, <4>3, <4>4, <3>2, <2>3, <2>4, <2>5
    <3>4. Reports'
      BY <3>1, <3>2, <2>1, <2>4
    <3>5. Fresh'
      <4>1. pc'[Main] \in {"idle", "reconcile"}
        BY <3>2, <2>1
      <4>2. ASSUME NEW k \in Loops, k[1] > attached PROVE pc'[k] = "unborn"
        <5>1. attached <= attached /\ k[1] \in Services
          OBVIOUS
        <5>2. k # l
          BY <5>1, <4>2, <3>1
        <5>3. pc[k] = "unborn"
          BY <4>2
        <5>4. k \in Runners \ {l, Main}
          BY <5>2
        <5> QED BY <5>3, <5>4, <3>2
      <4>3. UNCHANGED <<attached, notified>>
        BY <2>4
      <4>4. \A s \in Services : s > attached => ~notified[s]
        OBVIOUS
      <4> HIDE DEF Inv, Types, Reports, NotShutForGood, OpenedByCleanRun, Services, Runners, ServiceOf, Alive
      <4> QED BY <4>1, <4>2, <4>3, <4>4, <2>5
    <3>6. NotShutForGood'
      BY <3>1, <3>2, <2>1, <2>4, <2>5
    <3>7. OpenedByCleanRun'
      BY <3>1, <3>2, <2>1, <2>4, <2>5
    <3> QED BY <3>3, <3>4, <3>5, <3>6, <3>7
  <2> QED BY <2>2, <2>6, <2>7
<1>9. ASSUME NEW r \in Runners, Snapshot(r) PROVE Inv'
  <2>1. Types'
    BY <1>9 DEF Snapshot, Goto, ServiceOf
  <2>2. Reports'
    BY <1>9 DEF Snapshot, Goto, ServiceOf
  <2>3. Fresh'
    BY <1>9 DEF Snapshot, Goto, ServiceOf
  <2>4. NotShutForGood'
    BY <1>9 DEF Snapshot, Goto, ServiceOf
  <2>5. OpenedByCleanRun'
    BY <1>9 DEF Snapshot, Goto, ServiceOf
  <2> QED BY <2>1, <2>2, <2>3, <2>4, <2>5
<1>10. ASSUME NEW r \in Runners, ReconcileFails(r) PROVE Inv'
  <2>1. Types'
    BY <1>10 DEF ReconcileFails, Return, Goto, ServiceOf
  <2>2. Reports'
    BY <1>10 DEF ReconcileFails, Return, Goto, ServiceOf
  <2>3. Fresh'
    BY <1>10 DEF ReconcileFails, Return, Goto, ServiceOf
  <2>4. NotShutForGood'
    BY <1>10 DEF ReconcileFails, Return, Goto, ServiceOf
  <2>5. OpenedByCleanRun'
    BY <1>10 DEF ReconcileFails, Return, Goto, ServiceOf
  <2> QED BY <2>1, <2>2, <2>3, <2>4, <2>5
<1>11. ASSUME NEW r \in Runners, Reconcile(r) PROVE Inv'
  <2>1. PICK verdict \in {"clean", "drift"} : Notify(r, verdict)
    BY <1>11 DEF Reconcile
  <2>2. /\ pc[r] = "asking" /\ ServiceOf(r) = ServiceOf(r)'
        /\ UNCHANGED <<context, stopping, thread, manager, cleanRun>>
    BY <1>11 DEF Reconcile
  <2>3. request' \in [Services -> BOOLEAN] /\ unseen' \in [Services -> BOOLEAN]
    BY <1>11 DEF Reconcile, Signal
  <2>4. CASE /\ verdict = "clean" /\ UNCHANGED notified
             /\ report' = [report EXCEPT ![r] = verdict]
             /\ pc' = [pc EXCEPT ![r] = "claiming"]
    <3>1. Types'
      BY <2>2, <2>3, <2>4
    <3>2. Reports'
      BY <2>2, <2>4
    <3>3. Fresh'
      BY <2>2, <2>4
    <3>4. NotShutForGood'
      BY <2>2, <2>4
    <3>5. OpenedByCleanRun'
      BY <2>2, <2>4
    <3> QED BY <3>1, <3>2, <3>3, <3>4, <3>5
  <2>5. CASE Return(r) /\ UNCHANGED notified
    <3>1. Types'
      BY <2>2, <2>3, <2>5 DEF Return, Goto
    <3>2. Reports'
      BY <2>2, <2>5 DEF Return, Goto
    <3>3. Fresh'
      BY <2>2, <2>5 DEF Return, Goto
    <3>4. NotShutForGood'
      BY <2>2, <2>5 DEF Return, Goto
    <3>5. OpenedByCleanRun'
      BY <2>2, <2>5 DEF Return, Goto
    <3> QED BY <3>1, <3>2, <3>3, <3>4, <3>5
  <2> QED BY <2>1, <2>4, <2>5 DEF Notify, IsCleanForTrading, Goto
<1>12. ASSUME NEW r \in Runners, ClaimFirstSuccess(r) PROVE Inv'
  <2>0. /\ pc[r] = "claiming" /\ ServiceOf(r) = ServiceOf(r)'
        /\ notified' = [notified EXCEPT ![ServiceOf(r)] = TRUE]
        /\ pc' = [pc EXCEPT ![r] = "calling"]
        /\ UNCHANGED <<context, stopping, request, thread, manager, report, unseen, cleanRun>>
    BY <1>12 DEF ClaimFirstSuccess, Goto
  <2>1. Types'
    BY <2>0
  <2>2. Reports'
    BY <2>0
  <2>3. Fresh'
    <3>1. ServiceOf(r) \in 0 .. attached
      <4>1. CASE r = Main
        BY <4>1
      <4>2. CASE r # Main
        <5>1. r \in Loops /\ ServiceOf(r) = r[1] /\ r[1] \in 1 .. NumServices
          BY <4>2
        <5>2. pc[r] # "unborn"
          BY <2>0
        <5>3. ~(r[1] > attached)
          BY <5>1, <5>2
        <5> QED BY <5>1, <5>3
      <4> QED BY <4>1, <4>2
    <3>2. \A q \in Runners : q # r => pc'[q] = pc[q]
      BY <2>0
    <3>3. \A s \in Services : s > attached => ~notified'[s]
      BY <3>1, <2>0
    <3>4. pc'[r] = "calling"
      BY <2>0
    <3>5. \A l \in Loops : pc'[l] = "unborn" <=> pc[l] = "unborn"
      BY <3>2, <3>4, <2>0
    <3>6. ASSUME pc[Main] \in {"closing", "registering"} PROVE ~notified'[attached]
      BY <3>6, <2>0
    <3>7. Fresh /\ UNCHANGED <<attached, registered>>
      BY <2>0
    <3>8. pc'[Main] = pc[Main] \/ pc'[Main] = "calling"
      BY <3>2, <3>4
    <3> HIDE DEF Inv, Types, Reports, NotShutForGood, OpenedByCleanRun, Services, Runners, ServiceOf, Alive
    <3> QED BY <3>3, <3>5, <3>6, <3>7, <3>8
  <2>4. NotShutForGood'
    BY <2>0
  <2>5. OpenedByCleanRun'
    BY <2>0
  <2> QED BY <2>1, <2>2, <2>3, <2>4, <2>5
<1>13. ASSUME NEW r \in Runners, MarkReady(r) PROVE Inv'
  <2>1. Types'
    BY <1>13 DEF MarkReady, Return, Goto, ServiceOf
  <2>2. Reports'
    BY <1>13 DEF MarkReady, Return, Goto, ServiceOf
  <2>3. Fresh'
    BY <1>13 DEF MarkReady, Return, Goto, ServiceOf
  <2>4. NotShutForGood'
    BY <1>13 DEF MarkReady, Return, Goto, ServiceOf
  <2>5. OpenedByCleanRun'
    BY <1>13 DEF MarkReady, Return, Goto, ServiceOf
  <2> QED BY <2>1, <2>2, <2>3, <2>4, <2>5
<1>14. ASSUME NEW l \in Loops, Wake(l) PROVE Inv'
  <2>1. Types'
    BY <1>14 DEF Wake, Woken, Goto
  <2>2. Reports'
    BY <1>14 DEF Wake, Woken, Goto
  <2>3. Fresh'
    BY <1>14 DEF Wake, Woken, Goto
  <2>4. NotShutForGood'
    BY <1>14 DEF Wake, Woken, Goto
  <2>5. OpenedByCleanRun'
    BY <1>14 DEF Wake, Woken, Goto
  <2> QED BY <2>1, <2>2, <2>3, <2>4, <2>5
<1>15. ASSUME NEW l \in Loops, IntervalOver(l) PROVE Inv'
  <2>1. Types'
    BY <1>15 DEF IntervalOver, Woken, Goto
  <2>2. Reports'
    BY <1>15 DEF IntervalOver, Woken, Goto
  <2>3. Fresh'
    BY <1>15 DEF IntervalOver, Woken, Goto
  <2>4. NotShutForGood'
    BY <1>15 DEF IntervalOver, Woken, Goto
  <2>5. OpenedByCleanRun'
    BY <1>15 DEF IntervalOver, Woken, Goto
  <2> QED BY <2>1, <2>2, <2>3, <2>4, <2>5
<1>16. ASSUME NEW l \in Loops, Clear(l) PROVE Inv'
  <2>1. Types'
    BY <1>16 DEF Clear, Goto
  <2>2. Reports'
    BY <1>16 DEF Clear, Goto
  <2>3. Fresh'
    BY <1>16 DEF Clear, Goto
  <2>4. NotShutForGood'
    BY <1>16 DEF Clear, Goto
  <2>5. OpenedByCleanRun'
    BY <1>16 DEF Clear, Goto
  <2> QED BY <2>1, <2>2, <2>3, <2>4, <2>5
<1>17. CASE RequestReconciliation
  <2>1. Types'
    BY <1>17 DEF RequestReconciliation, Signal
  <2>2. Reports'
    BY <1>17 DEF RequestReconciliation, Signal
  <2>3. Fresh'
    BY <1>17 DEF RequestReconciliation, Signal
  <2>4. NotShutForGood'
    BY <1>17 DEF RequestReconciliation, Signal
  <2>5. OpenedByCleanRun'
    BY <1>17 DEF RequestReconciliation, Signal
  <2> QED BY <2>1, <2>2, <2>3, <2>4, <2>5
<1>18. CASE UNCHANGED vars
  BY <1>18 DEF vars
<1> QED
  BY <1>1, <1>2, <1>3, <1>4, <1>5, <1>6, <1>7, <1>8, <1>9, <1>10, <1>11, <1>12, <1>13, <1>14, <1>15, <1>16, <1>17, <1>18
  DEF Next, Run


\* The invariant, of every behaviour.
LEMMA GateInvariant == Spec => []Inv
  BY GateInit, GateStep, PTL DEF Spec

\* Orders never pass a gate that an attach has shut unless a run free of drift
\* has called back since, whichever of the services, their loops and run_now the
\* run belonged to (wiring.py:109-111, reconciliation_service.py:236-237).
THEOREM OpenedByCleanRunAlways == Spec => []OpenedByCleanRun
<1>1. Inv => OpenedByCleanRun
  BY DEF Inv
<1> QED BY <1>1, GateInvariant, PTL

\* After its callback a service does not look for the next one, and nothing shuts
\* the gate behind it: when the attached service has called back, orders pass or are about to
\* (reconciliation_service.py:304-309, wiring.py:109-111).
THEOREM GateNeverShutForGood == Spec => []GateInv
<1>1. Inv => GateInv
  <2> SUFFICES ASSUME Inv PROVE TypeOK
    BY DEF Inv, GateInv
  <2>1. \A r \in Runners : pc[r] \notin {"claiming", "calling"} => report[r] = None
    BY DEF Inv, Reports
  <2>2. {gate, ready, started, startAll, cleanRun} \subseteq BOOLEAN
    BY DEF Inv, Types
  <2>3. /\ stopping \in [Services -> BOOLEAN] /\ request \in [Services -> BOOLEAN]
        /\ notified \in [Services -> BOOLEAN] /\ unseen \in [Services -> BOOLEAN]
    BY DEF Inv, Types
  <2> QED BY <2>1, <2>2, <2>3 DEF Inv, Types, TypeOK
<1> QED BY <1>1, GateInvariant, PTL
=============================================================================
