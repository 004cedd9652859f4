------------------------ MODULE AsyncEventBusProofs ------------------------
(***************************************************************************)
(* AsyncEventBus: nothing is lost or handed over twice, and it implements  *)
(* OrderedDelivery, for any events, threads, queue and batch size.         *)
(*                                                                         *)
(* Apart says that the queue, the batches and what was handed over have no *)
(* event in common: it holds whichever threads overlap, since the queue's  *)
(* lock guards every cut of the queue.  The order needs more: while every  *)
(* stop has ended in time, one thread drains (OneDrainer), and then what   *)
(* was handed over, its batch and the queue are the accepted events, in    *)
(* order (Ordered).                                                        *)
(***************************************************************************)
EXTENDS AsyncEventBus, CollectionLemmas

WorkerPhases  == {"off", "loop", "take", "dispatch", "done"}
StopperPhases == {"off", "entered", "join", "take", "dispatch", "raised", "done"}

\* The types the arguments need.
Types ==
    /\ queue \in Seq(Events)
    /\ stopEvent \in BOOLEAN
    /\ worker \in Workers \cup {None}
    /\ pc \in [Drainers -> Phases]
    /\ \A w \in Workers : pc[w] \in WorkerPhases
    /\ \A s \in Stoppers : pc[s] \in StopperPhases
    /\ batch \in [Drainers -> Seq(Events)]
    /\ \A d \in Drainers :
           /\ Len(batch[d]) <= BatchSize
           /\ pc[d] = "dispatch" <=> batch[d] # <<>>
    /\ joining \in [Stoppers -> Workers \cup {None}]
    /\ \A s \in Stoppers : pc[s] = "join" => joining[s] \in Workers
    /\ started \in BOOLEAN /\ awaiting \in Stoppers \cup {None}
    /\ replayMode \in BOOLEAN /\ overrun \in BOOLEAN /\ wanted \in BOOLEAN
    /\ accepted \in Seq(Events) /\ dispatched \in Seq(Events)
    /\ replayed \subseteq Events /\ live \subseteq Events /\ dropped \subseteq Events

-----------------------------------------------------------------------------
\* The thread that is created next has not run yet.
LEMMA NextIsFresh ==
    ASSUME NEW T, NEW d, IsNext(d, T)
    PROVE  d \in T /\ pc[d] = "off"
  BY DEF IsNext, Fresh

\* What a batch leaves in the queue.
Remaining == SubSeq(queue, Len(Taken) + 1, Len(queue))

\* A batch is the front of the queue and leaves the rest.
LEMMA TakenFromQueue ==
    ASSUME queue \in Seq(Events)
    PROVE  /\ Taken \in Seq(Events) /\ Remaining \in Seq(Events)
           /\ Len(Taken) <= BatchSize /\ Len(queue) = Len(Taken) + Len(Remaining)
           /\ Taken = <<>> <=> queue = <<>>
           /\ \A i \in 1 .. Len(Taken) : Taken[i] = queue[i]
           /\ \A i \in 1 .. Len(Remaining) : Remaining[i] = queue[Len(Taken) + i]
           /\ ToSet(queue) = ToSet(Taken) \cup ToSet(Remaining)
           /\ Distinct(queue) => /\ Distinct(Taken) /\ Distinct(Remaining)
                                 /\ ToSet(Taken) \cap ToSet(Remaining) = {}
<1> DEFINE n == IF Len(queue) < BatchSize THEN Len(queue) ELSE BatchSize
           f == FirstPart(queue, n)
           l == LastPart(queue, n)
<1>1. Len(queue) \in Nat /\ n \in 0 .. Len(queue) /\ n <= BatchSize
  BY LenProperties, AsyncBusAssumption
<1>2. Taken = f
  BY DEF Taken, FirstPart
<1>3. n = 0 <=> Len(queue) = 0
  BY <1>1, AsyncBusAssumption
<1> HIDE DEF n
<1>4. /\ f \in Seq(Events) /\ l \in Seq(Events)
      /\ Len(f) = n /\ Len(l) = Len(queue) - n
      /\ \A i \in 1 .. n : f[i] = queue[i]
      /\ \A i \in 1 .. Len(queue) - n : l[i] = queue[n + i]
      /\ ToSet(queue) = ToSet(f) \cup ToSet(l)
      /\ Distinct(queue) => /\ Distinct(f) /\ Distinct(l)
                            /\ ToSet(f) \cap ToSet(l) = {}
  BY <1>1, CutElements
<1>5. Remaining = l
  BY <1>2, <1>4 DEF LastPart, Remaining
<1> HIDE DEF f, l
<1>6. f = <<>> <=> queue = <<>>
  BY <1>3, <1>4, EmptySeq
<1>7. Len(queue) = Len(f) + Len(l) /\ Len(f) <= BatchSize
  BY <1>1, <1>4
<1> QED BY <1>2, <1>4, <1>5, <1>6, <1>7

\* The head of the batch and what is left of it.
LEMMA BatchHead ==
    ASSUME Types, NEW d \in Drainers, pc[d] = "dispatch"
    PROVE  /\ batch[d] \in Seq(Events) /\ batch[d] # <<>>
           /\ Head(batch[d]) \in Events /\ Tail(batch[d]) \in Seq(Events)
           /\ Len(Tail(batch[d])) = Len(batch[d]) - 1 /\ Len(batch[d]) \in Nat \ {0}
           /\ Head(batch[d]) = batch[d][1]
           /\ \A i \in 1 .. Len(Tail(batch[d])) : Tail(batch[d])[i] = batch[d][i + 1]
           /\ ToSet(batch[d]) = {Head(batch[d])} \cup ToSet(Tail(batch[d]))
           /\ Distinct(batch[d]) =>
                  Distinct(Tail(batch[d])) /\ Head(batch[d]) \notin ToSet(Tail(batch[d]))
<1>1. batch[d] \in Seq(Events) /\ batch[d] # <<>>
  BY DEF Types
<1> QED BY <1>1, TailElements, HeadTailProperties, LenProperties, EmptySeq

\* The bus starts with its types.
LEMMA TypesInit == Init => Types
<1> SUFFICES ASSUME Init PROVE Types
  OBVIOUS
<1>1. <<>> \in Seq(Events) /\ Len(<<>>) = 0
  BY EmptySeq
<1>2. /\ pc \in [Drainers -> Phases]
      /\ \A d \in Drainers : pc[d] = "off" /\ batch[d] = <<>>
      /\ batch \in [Drainers -> Seq(Events)]
  BY <1>1 DEF Init, Phases
<1>3. /\ \A w \in Workers : pc[w] \in WorkerPhases
      /\ \A s \in Stoppers : pc[s] \in StopperPhases /\ pc[s] # "join"
  BY <1>2 DEF Drainers, WorkerPhases, StopperPhases
<1>4. \A d \in Drainers : Len(batch[d]) <= BatchSize
  BY <1>1, <1>2, AsyncBusAssumption
<1>5. \A d \in Drainers : pc[d] = "dispatch" <=> batch[d] # <<>>
  BY <1>2
<1>6. joining \in [Stoppers -> Workers \cup {None}]
  BY DEF Init
<1> QED BY <1>1, <1>2, <1>3, <1>4, <1>5, <1>6 DEF Init, Types

\* Every step keeps the types.
LEMMA TypesStep == Types /\ [Next]_vars => Types'
<1> SUFFICES ASSUME Types, [Next]_vars PROVE Types'
  OBVIOUS
<1> USE DEF threads, manager, history
<1>1. ASSUME NEW e \in Events, Publish(e) PROVE Types'
  <2>1. /\ queue' = queue \/ queue' = Append(queue, e)
        /\ accepted' = accepted \/ accepted' = Append(accepted, e)
        /\ dropped' = dropped \/ dropped' = dropped \cup {e}
        /\ replayed' = replayed \/ replayed' = replayed \cup {e}
        /\ UNCHANGED <<stopEvent, worker, pc, batch, joining, started, awaiting,
                       replayMode, dispatched, live, overrun, wanted>>
    BY <1>1 DEF Publish
  <2>2. queue' \in Seq(Events) /\ accepted' \in Seq(Events)
    <3>1. Append(queue, e) \in Seq(Events) /\ Append(accepted, e) \in Seq(Events)
      BY AppendElements DEF Types
    <3> QED BY <2>1, <3>1 DEF Types
  <2>3. dropped' \subseteq Events /\ replayed' \subseteq Events
    BY <2>1 DEF Types
  <2> QED BY <2>1, <2>2, <2>3 DEF Types
<1>2. CASE EndReplay
  BY <1>2 DEF EndReplay, Types
<1>3. ASSUME NEW w \in Workers, Start(w) PROVE Types'
  <2>1. pc[w] = "off" /\ w \in Drainers
    BY <1>3, NextIsFresh DEF Start, Drainers
  <2>2. CASE UNCHANGED threads
    BY <1>3, <2>2 DEF Start, Types
  <2>3. CASE ~UNCHANGED threads
    <3>1. /\ stopEvent' = FALSE /\ worker' = w /\ pc' = [pc EXCEPT ![w] = "loop"]
          /\ UNCHANGED <<queue, awaiting, batch, joining, replayMode, overrun, accepted,
                         dispatched, replayed, live, dropped>>
          /\ started' = TRUE /\ wanted' = TRUE
      BY <1>3, <2>3 DEF Start
    <3>2. w \notin Stoppers
      BY AsyncBusAssumption
    <3> QED BY <2>1, <3>1, <3>2 DEF Types, Phases, WorkerPhases, Drainers
  <2> QED BY <2>2, <2>3
<1>4. ASSUME NEW w \in Workers, DrainLoop(w) PROVE Types'
  <2>1. w \in Drainers /\ w \notin Stoppers
    BY AsyncBusAssumption DEF Drainers
  <2> QED BY <1>4, <2>1 DEF DrainLoop, Types, Phases, WorkerPhases
<1>5. ASSUME NEW d \in Drainers, Take(d) PROVE Types'
  <2> DEFINE b == Taken
             r == Remaining
  <2>1. /\ b \in Seq(Events) /\ r \in Seq(Events) /\ Len(b) <= BatchSize
        /\ b = <<>> <=> queue = <<>>
    BY TakenFromQueue DEF Types
  <2>2. /\ pc[d] = "take" /\ batch' = [batch EXCEPT ![d] = b] /\ queue' = r
        /\ UNCHANGED <<stopEvent, worker, joining, manager, replayMode, history>>
    BY <1>5 DEF Take, Remaining
  <2>3. pc' = [pc EXCEPT ![d] = IF queue # <<>> THEN "dispatch"
                                ELSE IF d \in Workers THEN "loop" ELSE "done"]
    BY <1>5 DEF Take, Remaining
  <2> HIDE DEF b, r
  <2>4. d \in Workers => d \notin Stoppers
    BY AsyncBusAssumption
  <2>5. /\ pc' \in [Drainers -> Phases]
        /\ \A w \in Workers : pc'[w] \in WorkerPhases
        /\ \A s \in Stoppers : pc'[s] \in StopperPhases
        /\ \A s \in Stoppers : pc'[s] = "join" => pc[s] = "join"
    BY <2>2, <2>3, <2>4 DEF Types, Phases, WorkerPhases, StopperPhases, Drainers
  <2>6. /\ batch' \in [Drainers -> Seq(Events)]
        /\ \A c \in Drainers : /\ Len(batch'[c]) <= BatchSize
                               /\ pc'[c] = "dispatch" <=> batch'[c] # <<>>
    BY <2>1, <2>2, <2>3 DEF Types
  <2> QED BY <2>1, <2>2, <2>5, <2>6 DEF Types
<1>6. ASSUME NEW d \in Drainers, Dispatch(d) PROVE Types'
  <2>1. /\ Head(batch[d]) \in Events /\ Tail(batch[d]) \in Seq(Events)
        /\ Len(Tail(batch[d])) <= BatchSize
    BY <1>6, BatchHead, AsyncBusAssumption DEF Dispatch, Types
  <2>2. /\ pc[d] = "dispatch" /\ batch' = [batch EXCEPT ![d] = Tail(batch[d])]
        /\ pc' = [pc EXCEPT ![d] = IF Tail(batch[d]) # <<>> THEN "dispatch" ELSE "take"]
        /\ dispatched' = Append(dispatched, Head(batch[d]))
        /\ UNCHANGED <<queue, stopEvent, worker, joining, manager, replayMode,
                       accepted, replayed, dropped, overrun, wanted>>
    BY <1>6 DEF Dispatch, NextPhase
  <2>3. live' \subseteq Events
    BY <1>6, <2>1 DEF Dispatch, Types
  <2>4. dispatched' \in Seq(Events)
    BY <2>1, <2>2, AppendElements DEF Types
  <2>5. /\ pc' \in [Drainers -> Phases]
        /\ \A w \in Workers : pc'[w] \in WorkerPhases
        /\ \A s \in Stoppers : pc'[s] \in StopperPhases
        /\ \A s \in Stoppers : pc'[s] = "join" => pc[s] = "join"
    BY <2>2 DEF Types, Phases, WorkerPhases, StopperPhases, Drainers
  <2>6. /\ batch' \in [Drainers -> Seq(Events)]
        /\ \A c \in Drainers : /\ Len(batch'[c]) <= BatchSize
                               /\ pc'[c] = "dispatch" <=> batch'[c] # <<>>
    BY <2>1, <2>2 DEF Types
  <2> QED BY <2>2, <2>3, <2>4, <2>5, <2>6 DEF Types
<1>7. ASSUME NEW s \in Stoppers, BeginStop(s) PROVE Types'
  <2>1. pc[s] = "off" /\ s \in Drainers /\ s \notin Workers
    BY <1>7, NextIsFresh, AsyncBusAssumption DEF BeginStop, Drainers
  <2>2. /\ pc' = [pc EXCEPT ![s] = IF worker = None THEN "take" ELSE "entered"]
        /\ awaiting' = s /\ wanted' = FALSE /\ stopEvent' = TRUE
        /\ UNCHANGED <<queue, worker, batch, joining, started, replayMode, overrun,
                       accepted, dispatched, replayed, live, dropped>>
    BY <1>7 DEF BeginStop
  <2>3. /\ pc' \in [Drainers -> Phases]
        /\ \A w \in Workers : pc'[w] \in WorkerPhases
        /\ \A c \in Stoppers : pc'[c] \in StopperPhases
        /\ \A d \in Drainers : pc'[d] = "dispatch" <=> pc[d] = "dispatch"
    BY <2>1, <2>2 DEF Types, Phases, WorkerPhases, StopperPhases, Drainers
  <2>4. \A c \in Stoppers : pc'[c] = "join" => pc[c] = "join"
    BY <2>1, <2>2 DEF Types, Drainers
  <2> QED BY <2>2, <2>3, <2>4 DEF Types
<1>8. ASSUME NEW s \in Stoppers, EnterJoin(s) PROVE Types'
  <2>1. s \in Drainers /\ s \notin Workers
    BY AsyncBusAssumption DEF Drainers
  <2>2. /\ pc[s] = "entered"
        /\ pc' = [pc EXCEPT ![s] = IF worker = None THEN "raised" ELSE "join"]
        /\ joining' = [joining EXCEPT ![s] = worker]
        /\ UNCHANGED <<queue, stopEvent, worker, batch, manager, replayMode, history>>
    BY <1>8 DEF EnterJoin
  <2>3. /\ pc' \in [Drainers -> Phases]
        /\ \A w \in Workers : pc'[w] \in WorkerPhases
        /\ \A c \in Stoppers : pc'[c] \in StopperPhases
        /\ \A d \in Drainers : pc'[d] = "dispatch" <=> pc[d] = "dispatch"
    BY <2>1, <2>2 DEF Types, Phases, WorkerPhases, StopperPhases, Drainers
  <2>4. /\ joining' \in [Stoppers -> Workers \cup {None}]
        /\ \A c \in Stoppers : pc'[c] = "join" => joining'[c] \in Workers
    BY <2>1, <2>2 DEF Types, Drainers
  <2> QED BY <2>2, <2>3, <2>4 DEF Types
<1>9. ASSUME NEW s \in Stoppers, JoinReturns(s) PROVE Types'
  <2>1. s \in Drainers /\ s \notin Workers
    BY AsyncBusAssumption DEF Drainers
  <2>2. overrun' \in BOOLEAN
    BY <1>9 DEF JoinReturns, Alive, Types
  <2> QED BY <1>9, <2>1, <2>2 DEF JoinReturns, Types, Phases, StopperPhases
<1>10. ASSUME NEW s \in Stoppers, StopReturns(s) PROVE Types'
  BY <1>10 DEF StopReturns, Types
<1>11. CASE UNCHANGED vars
  BY <1>11 DEF vars, Types
<1> QED
  BY <1>1, <1>2, <1>3, <1>4, <1>5, <1>6, <1>7, <1>8, <1>9, <1>10, <1>11
  DEF Next, DrainerStep

-----------------------------------------------------------------------------
\* Every accepted event is in one place: the queue, one batch, or handed over.
Apart ==
    /\ dropped \cap Capital = {}
    /\ Distinct(queue) /\ Distinct(dispatched) /\ \A d \in Drainers : Distinct(batch[d])
    /\ \A e : e \in ToSet(accepted) <=> \/ e \in ToSet(queue) \/ e \in ToSet(dispatched)
                                        \/ \E d \in Drainers : e \in ToSet(batch[d])
    /\ \A e \in ToSet(queue) : e \notin ToSet(dispatched)
    /\ \A d \in Drainers : \A e \in ToSet(batch[d]) :
           /\ e \notin ToSet(queue) /\ e \notin ToSet(dispatched)
           /\ \A c \in Drainers \ {d} : e \notin ToSet(batch[c])

\* Nothing is anywhere at the start.
LEMMA ApartInit == Init => Apart
<1> SUFFICES ASSUME Init PROVE Apart
  OBVIOUS
<1>1. Distinct(<<>>)
  <2>1. Len(<<>>) = 0
    BY EmptySeq
  <2> QED BY <2>1 DEF Distinct
<1>2. \A d \in Drainers : batch[d] = <<>>
  BY DEF Init
<1> QED BY <1>1, <1>2, NothingLeft DEF Init, Apart

\* An event moves from the queue to one batch, and from there to the bus.
LEMMA ApartStep == Types /\ Apart /\ [Next]_vars => Apart'
<1> SUFFICES ASSUME Types, Apart, [Next]_vars PROVE Apart'
  OBVIOUS
<1> USE DEF threads, manager, history
<1>1. ASSUME UNCHANGED <<queue, batch, accepted, dispatched, dropped>> PROVE Apart'
  BY <1>1 DEF Apart
<1>2. ASSUME NEW e \in Events, Publish(e) PROVE Apart'
  <2>1. e \notin ToSet(accepted) /\ UNCHANGED <<batch, dispatched>>
    BY <1>2 DEF Publish, Published
  <2>2. CASE Admitted(e)
    <3>1. queue' = Append(queue, e) /\ accepted' = Append(accepted, e) /\ UNCHANGED dropped
      BY <1>2, <2>2 DEF Publish
    <3>2. /\ ToSet(queue') = ToSet(queue) \cup {e}
          /\ Distinct(queue) /\ e \notin ToSet(queue) => Distinct(queue')
      BY <3>1, AppendElements DEF Types
    <3>3. ToSet(accepted') = ToSet(accepted) \cup {e}
      BY <3>1, AppendElements DEF Types
    <3>4. /\ e \notin ToSet(queue) /\ e \notin ToSet(dispatched)
          /\ \A d \in Drainers : e \notin ToSet(batch[d])
      BY <2>1 DEF Apart
    <3>5. Distinct(queue')
      BY <3>2, <3>4 DEF Apart
    <3>6. \A x : x \in ToSet(accepted') <=>
              \/ x \in ToSet(queue') \/ x \in ToSet(dispatched)
              \/ \E d \in Drainers : x \in ToSet(batch[d])
      BY <3>2, <3>3 DEF Apart
    <3>7. /\ \A x \in ToSet(queue') : x \notin ToSet(dispatched)
          /\ \A d \in Drainers : \A x \in ToSet(batch[d]) : x \notin ToSet(queue')
      BY <3>2, <3>4 DEF Apart
    <3> QED BY <2>1, <3>1, <3>5, <3>6, <3>7 DEF Apart
  <2>3. CASE ~Admitted(e)
    <3>1. dropped' = dropped \cup {e} /\ UNCHANGED <<queue, accepted>> /\ e \notin Capital
      BY <1>2, <2>3 DEF Publish, Admitted
    <3> QED BY <2>1, <3>1 DEF Apart
  <2> QED BY <2>2, <2>3
<1>3. ASSUME NEW d \in Drainers, Take(d) PROVE Apart'
  <2> DEFINE b == Taken
             r == Remaining
  <2>1. /\ ToSet(queue) = ToSet(b) \cup ToSet(r)
        /\ Distinct(b) /\ Distinct(r) /\ ToSet(b) \cap ToSet(r) = {}
    <3>1. queue \in Seq(Events) /\ Distinct(queue)
      BY DEF Types, Apart
    <3> QED BY <3>1, TakenFromQueue
  <2>2. /\ pc[d] = "take" /\ batch' = [batch EXCEPT ![d] = b] /\ queue' = r
        /\ UNCHANGED <<accepted, dispatched, dropped>>
    BY <1>3 DEF Take, Remaining
  <2> HIDE DEF b, r
  <2>3. batch[d] = <<>> /\ batch'[d] = b /\ \A c \in Drainers \ {d} : batch'[c] = batch[c]
    BY <2>2 DEF Types
  <2>4. ToSet(batch[d]) = {}
    BY <2>3, NothingLeft
  <2> QED BY <2>1, <2>2, <2>3, <2>4 DEF Apart
<1>4. ASSUME NEW d \in Drainers, Dispatch(d) PROVE Apart'
  <2> DEFINE e == Head(batch[d])
             r == Tail(batch[d])
  <2>1. /\ e \in Events /\ ToSet(batch[d]) = {e} \cup ToSet(r)
        /\ Distinct(r) /\ e \notin ToSet(r)
    BY <1>4, BatchHead DEF Dispatch, Apart
  <2>2. /\ batch' = [batch EXCEPT ![d] = r] /\ dispatched' = Append(dispatched, e)
        /\ UNCHANGED <<queue, accepted, dropped>>
    BY <1>4 DEF Dispatch
  <2> HIDE DEF e, r
  <2>3. batch'[d] = r /\ \A c \in Drainers \ {d} : batch'[c] = batch[c]
    BY <2>2 DEF Types
  <2>4. /\ ToSet(dispatched') = ToSet(dispatched) \cup {e}
        /\ Distinct(dispatched) /\ e \notin ToSet(dispatched) => Distinct(dispatched')
    BY <2>1, <2>2, AppendElements DEF Types
  <2>5. /\ e \notin ToSet(queue) /\ e \notin ToSet(dispatched)
        /\ \A c \in Drainers \ {d} : e \notin ToSet(batch[c])
    BY <2>1 DEF Apart
  <2>6. \A x : x \in ToSet(accepted') <=>
            \/ x \in ToSet(queue') \/ x \in ToSet(dispatched')
            \/ \E c \in Drainers : x \in ToSet(batch'[c])
    BY <2>1, <2>2, <2>3, <2>4 DEF Apart
  <2>7. \A x \in ToSet(queue') : x \notin ToSet(dispatched')
    BY <2>2, <2>4, <2>5 DEF Apart
  <2>8. ASSUME NEW c \in Drainers, NEW x \in ToSet(batch'[c])
        PROVE  /\ x \notin ToSet(queue') /\ x \notin ToSet(dispatched')
               /\ \A a \in Drainers \ {c} : x \notin ToSet(batch'[a])
    <3>1. x \in ToSet(batch[c]) /\ x # e
      BY <2>1, <2>3, <2>5, <2>8
    <3>2. \A a \in Drainers : ToSet(batch'[a]) \subseteq ToSet(batch[a])
      BY <2>1, <2>3
    <3> QED BY <2>2, <2>4, <3>1, <3>2 DEF Apart
  <2>9. Distinct(queue') /\ Distinct(dispatched') /\ \A c \in Drainers : Distinct(batch'[c])
    BY <2>1, <2>2, <2>3, <2>4, <2>5 DEF Apart
  <2> QED BY <2>2, <2>6, <2>7, <2>8, <2>9 DEF Apart
<1>5. ASSUME NEW w \in Workers, Start(w) \/ DrainLoop(w) PROVE Apart'
  BY <1>1, <1>5 DEF Start, DrainLoop
<1>6. ASSUME NEW s \in Stoppers, BeginStop(s) \/ EnterJoin(s) \/ JoinReturns(s) \/ StopReturns(s)
      PROVE  Apart'
  BY <1>1, <1>6 DEF BeginStop, EnterJoin, JoinReturns, StopReturns
<1>7. CASE EndReplay \/ UNCHANGED vars
  BY <1>1, <1>7 DEF EndReplay, vars
<1> QED BY <1>2, <1>3, <1>4, <1>5, <1>6, <1>7 DEF Next, DrainerStep

-----------------------------------------------------------------------------
\* While every stop has ended in time: the worker is the only one, a stop is the
\* one the manager waits for, and it drains only after the worker.
OneDrainer ==
    ~overrun =>
        /\ \A w \in Workers : Alive(w) => w = worker
        /\ \A s \in Stoppers : Alive(s) => awaiting = s /\ pc[s] # "raised"
        /\ \A s \in Stoppers : pc[s] = "entered" => worker # None
        /\ \A s \in Stoppers : pc[s] = "join" => worker = joining[s]
        /\ \A s \in Stoppers : pc[s] \in {"take", "dispatch"} => worker = None

\* So no two threads have anything to do with the queue.
LEMMA DrainsAlone ==
    ASSUME Types, OneDrainer, ~overrun, NEW c \in Drainers, NEW d \in Drainers,
           pc[c] \in {"take", "dispatch"}, pc[d] \in {"take", "dispatch"}
    PROVE  c = d
<1>1. Alive(c) /\ Alive(d)
  BY DEF Alive
<1>2. \A s \in Stoppers : awaiting = s => s # None
  BY AsyncBusAssumption
<1> QED BY <1>1, <1>2, AsyncBusAssumption DEF OneDrainer, Drainers

\* Nobody runs at the start.
LEMMA OneDrainerInit == Init => OneDrainer
<1> SUFFICES ASSUME Init PROVE OneDrainer
  OBVIOUS
<1>1. \A d \in Drainers : pc[d] = "off"
  BY DEF Init
<1> QED BY <1>1 DEF OneDrainer, Alive, Drainers

\* A worker is created when there is none, a stop when the manager waits for none,
\* and a stop in time waits for the worker to end.
LEMMA OneDrainerStep == Types /\ OneDrainer /\ [Next]_vars => OneDrainer'
<1> SUFFICES ASSUME Types, OneDrainer, [Next]_vars, overrun' = FALSE PROVE OneDrainer'
  <2>1. ASSUME Types, [Next]_vars PROVE overrun' \in BOOLEAN
    BY <2>1, TypesStep DEF Types
  <2> QED BY <2>1 DEF OneDrainer
<1> USE DEF threads, manager, history
<1>1. overrun = FALSE
  <2>1. \A s \in Stoppers : JoinReturns(s) \/ StopReturns(s) => overrun = FALSE
    BY DEF JoinReturns, StopReturns, Types
  <2> QED BY <2>1 DEF Next, Publish, EndReplay, Start, DrainLoop, DrainerStep, Take,
                      Dispatch, BeginStop, EnterJoin, vars
<1>2. /\ \A w \in Workers : Alive(w) => w = worker
      /\ \A s \in Stoppers : Alive(s) => awaiting = s /\ pc[s] # "raised"
      /\ \A s \in Stoppers : pc[s] = "entered" => worker # None
      /\ \A s \in Stoppers : pc[s] = "join" => worker = joining[s]
      /\ \A s \in Stoppers : pc[s] \in {"take", "dispatch"} => worker = None
  BY <1>1 DEF OneDrainer
<1>3. ASSUME NEW d \in Drainers, UNCHANGED <<worker, awaiting, joining>>,
             pc[d] \notin {"off", "done", "raised"},
             pc'[d] \in {"loop", "take", "dispatch", "done"},
             d \in Stoppers => pc[d] \in {"take", "dispatch"},
             \A c \in Drainers \ {d} : pc'[c] = pc[c]
      PROVE  OneDrainer'
  BY <1>2, <1>3 DEF OneDrainer, Alive, Drainers
<1>4. ASSUME NEW d \in Drainers, Take(d) PROVE OneDrainer'
  <2>1. /\ pc[d] = "take" /\ pc'[d] \in {"dispatch", "loop", "done"}
        /\ \A c \in Drainers \ {d} : pc'[c] = pc[c]
        /\ UNCHANGED <<worker, awaiting, joining>>
    BY <1>4 DEF Take, Types
  <2> QED BY <1>3, <2>1
<1>5. ASSUME NEW d \in Drainers, Dispatch(d) PROVE OneDrainer'
  <2>1. /\ pc[d] = "dispatch" /\ pc'[d] \in {"dispatch", "take"}
        /\ \A c \in Drainers \ {d} : pc'[c] = pc[c]
        /\ UNCHANGED <<worker, awaiting, joining>>
    BY <1>5 DEF Dispatch, NextPhase, Types
  <2> QED BY <1>3, <2>1
<1>6. ASSUME NEW w \in Workers, DrainLoop(w) PROVE OneDrainer'
  <2>1. /\ w \in Drainers /\ w \notin Stoppers
        /\ pc[w] = "loop" /\ pc'[w] \in {"done", "take"}
        /\ \A c \in Drainers \ {w} : pc'[c] = pc[c]
        /\ UNCHANGED <<worker, awaiting, joining>>
    BY <1>6, AsyncBusAssumption DEF DrainLoop, Types, Drainers
  <2> QED BY <1>3, <2>1
<1>7. ASSUME NEW w \in Workers, Start(w) PROVE OneDrainer'
  <2>1. pc[w] = "off" /\ w \in Drainers /\ w \notin Stoppers /\ awaiting = None
        /\ awaiting' = awaiting
    BY <1>7, NextIsFresh, AsyncBusAssumption DEF Start, Drainers
  <2>2. CASE UNCHANGED threads
    BY <1>2, <2>1, <2>2 DEF OneDrainer, Alive
  <2>3. CASE ~UNCHANGED threads
    <3>1. worker' = w /\ pc' = [pc EXCEPT ![w] = "loop"] /\ ~(worker # None /\ Alive(worker))
      BY <1>7, <2>3 DEF Start
    <3>2. \A v \in Workers : ~Alive(v)
      BY <1>2, <3>1, AsyncBusAssumption
    <3>3. \A s \in Stoppers : ~Alive(s)
      BY <1>2, <2>1, AsyncBusAssumption
    <3>4. /\ \A v \in Workers \ {w} : ~Alive(v)'
          /\ \A s \in Stoppers : ~Alive(s)' /\ pc'[s] = pc[s]
      BY <2>1, <3>1, <3>2, <3>3 DEF Alive, Types, Drainers
    <3> QED BY <3>1, <3>4 DEF OneDrainer, Alive
  <2> QED BY <2>2, <2>3
<1>8. ASSUME NEW s \in Stoppers, BeginStop(s) PROVE OneDrainer'
  <2>1. pc[s] = "off" /\ s \in Drainers /\ s \notin Workers /\ awaiting = None
    BY <1>8, NextIsFresh, AsyncBusAssumption DEF BeginStop, Drainers
  <2>2. /\ awaiting' = s /\ UNCHANGED worker
        /\ pc' = [pc EXCEPT ![s] = IF worker = None THEN "take" ELSE "entered"]
    BY <1>8 DEF BeginStop
  <2>3. \A c \in Stoppers : ~Alive(c)
    BY <1>2, <2>1, AsyncBusAssumption
  <2>4. /\ \A c \in Stoppers \ {s} : ~Alive(c)' /\ pc'[c] = pc[c]
        /\ \A w \in Workers : pc'[w] = pc[w]
        /\ pc'[s] = IF worker = None THEN "take" ELSE "entered"
    BY <2>1, <2>2, <2>3 DEF Alive, Types, Drainers
  <2> QED BY <1>2, <2>2, <2>4 DEF OneDrainer, Alive
<1>9. ASSUME NEW s \in Stoppers, EnterJoin(s) PROVE OneDrainer'
  <2>1. /\ pc[s] = "entered" /\ s \in Drainers /\ s \notin Workers
        /\ pc' = [pc EXCEPT ![s] = IF worker = None THEN "raised" ELSE "join"]
        /\ joining' = [joining EXCEPT ![s] = worker]
        /\ UNCHANGED <<worker, awaiting>>
    BY <1>9, AsyncBusAssumption DEF EnterJoin, Drainers
  <2>2. worker # None /\ Alive(s) /\ awaiting = s
    BY <1>2, <2>1 DEF Alive
  <2>3. \A c \in Stoppers \ {s} : ~Alive(c)
    BY <1>2, <2>2
  <2>4. /\ pc'[s] = "join" /\ joining'[s] = worker
        /\ \A c \in Stoppers \ {s} : ~Alive(c)' /\ pc'[c] = pc[c]
        /\ \A w \in Workers : pc'[w] = pc[w]
    BY <2>1, <2>2, <2>3 DEF Alive, Types, Drainers
  <2> QED BY <1>2, <2>1, <2>2, <2>4 DEF OneDrainer, Alive
<1>10. ASSUME NEW s \in Stoppers, JoinReturns(s) PROVE OneDrainer'
  <2>1. /\ pc[s] = "join" /\ s \in Drainers /\ s \notin Workers
        /\ pc' = [pc EXCEPT ![s] = IF worker = None THEN "raised" ELSE "take"]
        /\ worker' = None /\ ~Alive(joining[s])
        /\ UNCHANGED <<awaiting, joining>>
    BY <1>10, AsyncBusAssumption DEF JoinReturns, Drainers
  <2>2. joining[s] \in Workers /\ worker = joining[s] /\ worker # None
    BY <1>2, <2>1, AsyncBusAssumption DEF Types
  <2>3. \A w \in Workers : ~Alive(w)
    BY <1>2, <2>1, <2>2
  <2>4. Alive(s) /\ \A c \in Stoppers \ {s} : ~Alive(c)
    BY <1>2, <2>1 DEF Alive
  <2>5. /\ pc'[s] = "take" /\ \A w \in Workers : ~Alive(w)'
        /\ \A c \in Stoppers \ {s} : ~Alive(c)'
    BY <2>1, <2>2, <2>3, <2>4 DEF Alive, Types, Drainers
  <2> QED BY <1>2, <2>1, <2>4, <2>5 DEF OneDrainer, Alive
<1>11. ASSUME NEW s \in Stoppers, StopReturns(s) PROVE OneDrainer'
  <2>1. /\ awaiting = s /\ awaiting' = None /\ UNCHANGED <<pc, worker, joining>>
        /\ pc[s] \in {"done", "raised"}
    BY <1>11 DEF StopReturns
  <2>2. \A c \in Stoppers : ~Alive(c)
    BY <1>2, <2>1 DEF Alive
  <2> QED BY <1>2, <2>1, <2>2 DEF OneDrainer, Alive
<1>12. ASSUME UNCHANGED <<pc, worker, awaiting, joining>> PROVE OneDrainer'
  BY <1>2, <1>12 DEF OneDrainer, Alive
<1>13. ASSUME NEW e \in Events, Publish(e) PROVE OneDrainer'
  BY <1>12, <1>13 DEF Publish
<1>14. CASE EndReplay \/ UNCHANGED vars
  BY <1>12, <1>14 DEF EndReplay, vars
<1> QED
  BY <1>4, <1>5, <1>6, <1>7, <1>8, <1>9, <1>10, <1>11, <1>13, <1>14 DEF Next, DrainerStep

-----------------------------------------------------------------------------
\* While every stop has ended in time, the accepted events are, in order, those
\* handed over, the batch of the thread that drains, and the queue.
Ordered ==
    ~overrun =>
        /\ \A i \in 1 .. Len(dispatched) : accepted[i] = dispatched[i]
        /\ \A i \in 1 .. Len(queue) : accepted[Len(accepted) - Len(queue) + i] = queue[i]
        /\ \A d \in Drainers : pc[d] = "dispatch" =>
               /\ Len(dispatched) + Len(batch[d]) + Len(queue) = Len(accepted)
               /\ \A i \in 1 .. Len(batch[d]) : accepted[Len(dispatched) + i] = batch[d][i]
        /\ (\A d \in Drainers : pc[d] # "dispatch") =>
               Len(dispatched) + Len(queue) = Len(accepted)

\* A step that moves no event and starts or ends no batch keeps the order.
LEMMA OrderStays ==
    ASSUME Ordered, UNCHANGED <<queue, accepted, dispatched, batch>>,
           overrun' = FALSE => overrun = FALSE, overrun' \in BOOLEAN,
           \A d \in Drainers : pc'[d] = "dispatch" <=> pc[d] = "dispatch"
    PROVE  Ordered'
  BY DEF Ordered

\* Nothing is accepted at the start.
LEMMA OrderedInit == Init => Ordered
<1> SUFFICES ASSUME Init PROVE Ordered
  OBVIOUS
<1>1. Len(<<>>) = 0
  BY EmptySeq
<1>2. queue = <<>> /\ accepted = <<>> /\ dispatched = <<>> /\ \A d \in Drainers : pc[d] = "off"
  BY DEF Init
<1> QED BY <1>1, <1>2 DEF Ordered

\* An event enters the queue behind the others, a batch is its front, and the
\* thread that drains hands it over before it takes another.
LEMMA OrderedStep == Types /\ OneDrainer /\ Ordered /\ [Next]_vars => Ordered'
<1> SUFFICES ASSUME Types, OneDrainer, Ordered, [Next]_vars PROVE Ordered'
  OBVIOUS
<1> USE DEF threads, manager, history
<1>1. /\ queue \in Seq(Events) /\ accepted \in Seq(Events) /\ dispatched \in Seq(Events)
      /\ overrun' \in BOOLEAN
  BY TypesStep DEF Types
<1>0. Len(queue) \in Nat /\ Len(accepted) \in Nat /\ Len(dispatched) \in Nat
  BY <1>1, LenProperties
<1>2. ASSUME NEW e \in Events, Publish(e) PROVE Ordered'
  <2>1. /\ UNCHANGED <<pc, batch, dispatched, overrun>>
        /\ \/ UNCHANGED <<queue, accepted>>
           \/ queue' = Append(queue, e) /\ accepted' = Append(accepted, e)
    BY <1>2 DEF Publish
  <2>2. CASE UNCHANGED <<queue, accepted>>
    BY <1>0, <1>1, <2>1, <2>2, OrderStays
  <2>3. CASE queue' = Append(queue, e) /\ accepted' = Append(accepted, e) /\ ~overrun
    <3>1. /\ Len(queue') = Len(queue) + 1 /\ queue'[Len(queue) + 1] = e
          /\ \A i \in 1 .. Len(queue) : queue'[i] = queue[i]
      BY <1>0, <1>1, <2>3, AppendProperties
    <3>2. /\ Len(accepted') = Len(accepted) + 1 /\ accepted'[Len(accepted) + 1] = e
          /\ \A i \in 1 .. Len(accepted) : accepted'[i] = accepted[i]
      BY <1>0, <1>1, <2>3, AppendProperties
    <3>3. Len(dispatched) + Len(queue) <= Len(accepted)
      <4>1. \A d \in Drainers : Len(batch[d]) \in Nat
        BY LenProperties DEF Types
      <4> QED BY <1>0, <1>1, <2>3, <4>1 DEF Ordered
    <3>4. ASSUME NEW i \in 1 .. Len(dispatched) PROVE accepted'[i] = dispatched[i]
      <4>1. i \in 1 .. Len(accepted)
        BY <1>0, <1>1, <3>3
      <4> QED BY <2>3, <3>2, <4>1 DEF Ordered
    <3>5. ASSUME NEW i \in 1 .. Len(queue')
          PROVE  accepted'[Len(accepted') - Len(queue') + i] = queue'[i]
      <4>1. Len(accepted') - Len(queue') + i = Len(accepted) - Len(queue) + i
        BY <1>0, <1>1, <3>1, <3>2
      <4>2. CASE i \in 1 .. Len(queue)
        <5>1. Len(accepted) - Len(queue) + i \in 1 .. Len(accepted)
          BY <1>0, <1>1, <3>3, <4>2
        <5> QED BY <2>3, <3>1, <3>2, <4>1, <4>2, <5>1 DEF Ordered
      <4>3. CASE i = Len(queue) + 1
        BY <1>0, <1>1, <3>1, <3>2, <4>1, <4>3
      <4> QED BY <1>0, <1>1, <3>1, <4>2, <4>3
    <3>6. ASSUME NEW d \in Drainers, pc[d] = "dispatch"
          PROVE  /\ Len(dispatched) + Len(batch[d]) + Len(queue') = Len(accepted')
                 /\ \A i \in 1 .. Len(batch[d]) : accepted'[Len(dispatched) + i] = batch[d][i]
      <4>1. Len(batch[d]) \in Nat
        BY LenProperties DEF Types
      <4>2. /\ Len(dispatched) + Len(batch[d]) + Len(queue) = Len(accepted)
            /\ \A i \in 1 .. Len(batch[d]) : accepted[Len(dispatched) + i] = batch[d][i]
        BY <2>3, <3>6 DEF Ordered
      <4>3. \A i \in 1 .. Len(batch[d]) : Len(dispatched) + i \in 1 .. Len(accepted)
        BY <1>0, <1>1, <4>1, <4>2
      <4>4. \A i \in 1 .. Len(batch[d]) : accepted'[Len(dispatched) + i] = batch[d][i]
        BY <3>2, <4>2, <4>3
      <4> DEFINE m == Len(batch[d])
      <4>5. Len(dispatched) + m + Len(queue) = Len(accepted) /\ m \in Nat
        BY <4>1, <4>2
      <4> HIDE DEF m
      <4>6. Len(queue') = Len(queue) + 1 /\ Len(accepted') = Len(accepted) + 1
        BY <3>1, <3>2
      <4>7. Len(dispatched) + m + Len(queue') = Len(accepted')
        BY <1>0, <4>5, <4>6
      <4> QED BY <4>4, <4>7 DEF m
    <3>7. ASSUME \A d \in Drainers : pc[d] # "dispatch"
          PROVE  Len(dispatched) + Len(queue') = Len(accepted')
      <4>1. Len(dispatched) + Len(queue) = Len(accepted)
        BY <2>3, <3>7 DEF Ordered
      <4>2. Len(queue') = Len(queue) + 1 /\ Len(accepted') = Len(accepted) + 1
        BY <3>1, <3>2
      <4> QED BY <1>0, <4>1, <4>2
    <3> QED BY <2>1, <3>4, <3>5, <3>6, <3>7 DEF Ordered
  <2> QED BY <2>1, <2>2, <2>3 DEF Ordered
<1>3. ASSUME NEW d \in Drainers, Take(d) PROVE Ordered'
  <2> SUFFICES ASSUME ~overrun PROVE Ordered'
    BY <1>3 DEF Take, Ordered
  <2> DEFINE b == Taken
             r == Remaining
  <2>1. /\ b \in Seq(Events) /\ r \in Seq(Events) /\ Len(queue) = Len(b) + Len(r)
        /\ b = <<>> <=> queue = <<>>
        /\ \A i \in 1 .. Len(b) : b[i] = queue[i]
        /\ \A i \in 1 .. Len(r) : r[i] = queue[Len(b) + i]
    <3>1. queue \in Seq(Events)
      BY <1>1
    <3> QED BY <3>1, TakenFromQueue
  <2>2. /\ pc[d] = "take" /\ batch' = [batch EXCEPT ![d] = b] /\ queue' = r
        /\ pc' = [pc EXCEPT ![d] = IF queue # <<>> THEN "dispatch"
                                   ELSE IF d \in Workers THEN "loop" ELSE "done"]
        /\ UNCHANGED <<accepted, dispatched, overrun>>
    BY <1>3 DEF Take, Remaining
  <2> HIDE DEF b, r
  <2>3. Len(b) \in Nat /\ Len(r) \in Nat /\ (b = <<>> => Len(b) = 0)
    BY <2>1, LenProperties, EmptySeq
  <2>4. batch'[d] = b /\ \A c \in Drainers \ {d} : pc'[c] = pc[c] /\ pc[c] # "dispatch"
    BY <2>2, DrainsAlone DEF Types
  <2>5. /\ \A i \in 1 .. Len(dispatched) : accepted[i] = dispatched[i]
        /\ \A i \in 1 .. Len(queue) : accepted[Len(accepted) - Len(queue) + i] = queue[i]
        /\ Len(dispatched) + Len(queue) = Len(accepted)
    BY <2>2, <2>4 DEF Ordered
  <2>6. ASSUME NEW i \in 1 .. Len(r) PROVE accepted[Len(accepted) - Len(r) + i] = r[i]
    <3>1. /\ Len(b) + i \in 1 .. Len(queue)
          /\ Len(accepted) - Len(queue) + (Len(b) + i) = Len(accepted) - Len(r) + i
      BY <1>0, <1>1, <2>1, <2>3
    <3>2. accepted[Len(accepted) - Len(queue) + (Len(b) + i)] = queue[Len(b) + i]
      BY <2>5, <3>1
    <3> QED BY <2>1, <3>1, <3>2
  <2>7. ASSUME NEW i \in 1 .. Len(b) PROVE accepted[Len(dispatched) + i] = b[i]
    <3>1. i \in Nat /\ i \in 1 .. Len(queue)
      BY <2>1, <2>3
    <3>2. Len(dispatched) + Len(queue) = Len(accepted)
      BY <2>5
    <3>3. Len(accepted) - Len(queue) + i = Len(dispatched) + i
      BY <1>0, <1>1, <3>1, <3>2
    <3> QED BY <2>1, <2>5, <3>1, <3>3
  <2>8. Len(dispatched) + Len(b) + Len(r) = Len(accepted)
    BY <1>0, <1>1, <2>1, <2>3, <2>5
  <2>9. (\A c \in Drainers : pc'[c] # "dispatch") => Len(dispatched) + Len(r) = Len(accepted)
    <3>1. queue # <<>> => pc'[d] = "dispatch"
      BY <2>2 DEF Types
    <3> QED BY <1>0, <1>1, <2>1, <2>3, <2>8, <3>1
  <2>10. \A c \in Drainers : pc'[c] = "dispatch" => c = d /\ batch'[c] = b
    BY <2>4
  <2>11. \A i \in 1 .. Len(queue') : accepted'[Len(accepted') - Len(queue') + i] = queue'[i]
    BY <2>2, <2>6
  <2>12. \A i \in 1 .. Len(b) : accepted'[Len(dispatched') + i] = b[i]
    BY <2>2, <2>7
  <2>13. Len(dispatched') + Len(b) + Len(queue') = Len(accepted')
    BY <2>2, <2>8
  <2>14. \A c \in Drainers : pc'[c] = "dispatch" =>
            /\ Len(dispatched') + Len(batch'[c]) + Len(queue') = Len(accepted')
            /\ \A i \in 1 .. Len(batch'[c]) : accepted'[Len(dispatched') + i] = batch'[c][i]
    BY <2>10, <2>12, <2>13
  <2>15. (\A c \in Drainers : pc'[c] # "dispatch") => Len(dispatched') + Len(queue') = Len(accepted')
    BY <2>2, <2>9
  <2>16. \A i \in 1 .. Len(dispatched') : accepted'[i] = dispatched'[i]
    BY <2>2, <2>5
  <2> QED BY <2>11, <2>14, <2>15, <2>16 DEF Ordered
<1>4. ASSUME NEW d \in Drainers, Dispatch(d) PROVE Ordered'
  <2> SUFFICES ASSUME ~overrun PROVE Ordered'
    BY <1>4 DEF Dispatch, Ordered
  <2> DEFINE e == Head(batch[d])
             r == Tail(batch[d])
  <2>1. pc[d] = "dispatch" /\ batch[d] \in Seq(Events)
    BY <1>4 DEF Dispatch, Types
  <2>2. /\ e \in Events /\ r \in Seq(Events) /\ Len(batch[d]) \in Nat \ {0}
        /\ Len(r) = Len(batch[d]) - 1 /\ e = batch[d][1]
        /\ \A i \in 1 .. Len(r) : r[i] = batch[d][i + 1]
    BY <2>1, BatchHead
  <2>3. /\ batch' = [batch EXCEPT ![d] = r] /\ dispatched' = Append(dispatched, e)
        /\ pc' = [pc EXCEPT ![d] = IF r # <<>> THEN "dispatch" ELSE "take"]
        /\ UNCHANGED <<queue, accepted, overrun>>
    BY <1>4 DEF Dispatch, NextPhase
  <2> HIDE DEF e, r
  <2>4. batch'[d] = r /\ \A c \in Drainers \ {d} : pc'[c] = pc[c] /\ pc[c] # "dispatch"
    BY <2>1, <2>3, DrainsAlone DEF Types
  <2>5. /\ Len(dispatched') = Len(dispatched) + 1 /\ dispatched'[Len(dispatched) + 1] = e
        /\ \A i \in 1 .. Len(dispatched) : dispatched'[i] = dispatched[i]
    BY <1>0, <1>1, <2>2, <2>3, AppendProperties
  <2>6. /\ \A i \in 1 .. Len(dispatched) : accepted[i] = dispatched[i]
        /\ \A i \in 1 .. Len(queue) : accepted[Len(accepted) - Len(queue) + i] = queue[i]
        /\ Len(dispatched) + Len(batch[d]) + Len(queue) = Len(accepted)
        /\ \A i \in 1 .. Len(batch[d]) : accepted[Len(dispatched) + i] = batch[d][i]
    BY <2>1 DEF Ordered
  <2>7. ASSUME NEW i \in 1 .. Len(dispatched') PROVE accepted[i] = dispatched'[i]
    <3>1. CASE i \in 1 .. Len(dispatched)
      BY <2>5, <2>6, <3>1
    <3>2. CASE i = Len(dispatched) + 1
      <4>1. 1 \in 1 .. Len(batch[d])
        BY <2>2
      <4> QED BY <2>2, <2>5, <2>6, <3>2, <4>1
    <3> QED BY <1>0, <1>1, <2>5, <3>1, <3>2
  <2>8. ASSUME NEW i \in 1 .. Len(r) PROVE accepted[Len(dispatched') + i] = r[i]
    <3>1. i + 1 \in 1 .. Len(batch[d]) /\ Len(dispatched') + i = Len(dispatched) + (i + 1)
      BY <1>0, <1>1, <2>2, <2>5
    <3> QED BY <2>2, <2>6, <3>1
  <2>9. Len(dispatched') + Len(r) + Len(queue) = Len(accepted)
    <3> DEFINE m == Len(batch[d])
    <3>1. Len(dispatched) + m + Len(queue) = Len(accepted) /\ m \in Nat \ {0}
      BY <2>2, <2>6
    <3>2. Len(dispatched') = Len(dispatched) + 1 /\ Len(r) = m - 1
      BY <2>2, <2>5
    <3> HIDE DEF m
    <3> QED BY <1>0, <3>1, <3>2
  <2>10. (\A c \in Drainers : pc'[c] # "dispatch") =>
            Len(dispatched') + Len(queue) = Len(accepted)
    <3>1. r # <<>> => pc'[d] = "dispatch"
      BY <2>3 DEF Types
    <3>2. r = <<>> => Len(r) = 0
      BY EmptySeq
    <3>3. Len(dispatched') \in Nat
      BY <1>0, <1>1, <2>5
    <3> QED BY <1>0, <1>1, <2>9, <3>1, <3>2, <3>3
  <2>11. ASSUME NEW c \in Drainers, pc'[c] = "dispatch"
         PROVE  /\ Len(dispatched') + Len(batch'[c]) + Len(queue') = Len(accepted')
                /\ \A i \in 1 .. Len(batch'[c]) :
                       accepted'[Len(dispatched') + i] = batch'[c][i]
    <3>1. c = d /\ batch'[c] = r
      BY <2>4, <2>11
    <3> QED BY <2>3, <2>8, <2>9, <3>1
  <2> QED BY <2>3, <2>6, <2>7, <2>10, <2>11 DEF Ordered
<1>5. ASSUME NEW w \in Workers, Start(w) PROVE Ordered'
  <2>1. pc[w] = "off"
    BY <1>5, NextIsFresh DEF Start
  <2>2. \A d \in Drainers : pc'[d] = "dispatch" <=> pc[d] = "dispatch"
    BY <1>5, <2>1 DEF Start, Types
  <2> QED BY <1>0, <1>1, <1>5, <2>2, OrderStays DEF Start
<1>6. ASSUME NEW w \in Workers, DrainLoop(w) PROVE Ordered'
  <2>1. \A d \in Drainers : pc'[d] = "dispatch" <=> pc[d] = "dispatch"
    BY <1>6 DEF DrainLoop, Types
  <2> QED BY <1>0, <1>1, <1>6, <2>1, OrderStays DEF DrainLoop
<1>7. ASSUME NEW s \in Stoppers, BeginStop(s) PROVE Ordered'
  <2>1. pc[s] = "off"
    BY <1>7, NextIsFresh DEF BeginStop
  <2>2. \A d \in Drainers : pc'[d] = "dispatch" <=> pc[d] = "dispatch"
    BY <1>7, <2>1 DEF BeginStop, Types
  <2> QED BY <1>0, <1>1, <1>7, <2>2, OrderStays DEF BeginStop
<1>8. ASSUME NEW s \in Stoppers, EnterJoin(s) PROVE Ordered'
  <2>1. \A d \in Drainers : pc'[d] = "dispatch" <=> pc[d] = "dispatch"
    BY <1>8 DEF EnterJoin, Types
  <2> QED BY <1>0, <1>1, <1>8, <2>1, OrderStays DEF EnterJoin
<1>9. ASSUME NEW s \in Stoppers, JoinReturns(s) PROVE Ordered'
  <2>1. \A d \in Drainers : pc'[d] = "dispatch" <=> pc[d] = "dispatch"
    BY <1>9 DEF JoinReturns, Types
  <2>2. overrun' = FALSE => overrun = FALSE
    BY <1>9 DEF JoinReturns, Types
  <2> QED BY <1>0, <1>1, <1>9, <2>1, <2>2, OrderStays DEF JoinReturns
<1>10. ASSUME NEW s \in Stoppers, StopReturns(s) PROVE Ordered'
  <2>1. overrun' = FALSE => overrun = FALSE
    BY <1>10 DEF StopReturns, Types
  <2> QED BY <1>0, <1>1, <1>10, <2>1, OrderStays DEF StopReturns
<1>11. CASE EndReplay \/ UNCHANGED vars
  BY <1>0, <1>1, <1>11, OrderStays DEF EndReplay, vars
<1> QED
  BY <1>2, <1>3, <1>4, <1>5, <1>6, <1>7, <1>8, <1>9, <1>10, <1>11 DEF Next, DrainerStep

-----------------------------------------------------------------------------
\* The inductive invariant of the bus.
Inv == Types /\ Apart /\ OneDrainer /\ Ordered

\* It holds at the start.
LEMMA InvInit == Init => Inv
  BY TypesInit, ApartInit, OneDrainerInit, OrderedInit DEF Inv

\* Every step keeps it.
LEMMA InvStep == Inv /\ [Next]_vars => Inv'
  BY TypesStep, ApartStep, OneDrainerStep, OrderedStep DEF Inv

\* Every accepted event is counted once, over the queue, the batches and what was
\* handed over.
LEMMA InvKeeps == Inv => QueueInv
<1> SUFFICES ASSUME Inv PROVE QueueInv
  OBVIOUS
<1>1. Types /\ Apart
  BY DEF Inv
<1>2. TypeOK
  BY <1>1, LenProperties DEF Types, Apart, TypeOK, IsInjective, Distinct
<1>3. ASSUME NEW e \in ToSet(accepted)
      PROVE  Cardinality({d \in Drainers : e \in ToSet(batch[d])})
                 + Cardinality({i \in DOMAIN queue : queue[i] = e})
                 + Cardinality({i \in DOMAIN dispatched : dispatched[i] = e}) = 1
  <2> DEFINE B == {d \in Drainers : e \in ToSet(batch[d])}
             q == Cardinality({i \in DOMAIN queue : queue[i] = e})
             p == Cardinality({i \in DOMAIN dispatched : dispatched[i] = e})
  <2>1. q = IF e \in ToSet(queue) THEN 1 ELSE 0
    BY <1>1, CountOfDistinct DEF Types, Apart
  <2>2. p = IF e \in ToSet(dispatched) THEN 1 ELSE 0
    BY <1>1, CountOfDistinct DEF Types, Apart
  <2>3. ASSUME e \in ToSet(queue) PROVE Cardinality(B) + q + p = 1
    <3>1. B = {} /\ e \notin ToSet(dispatched)
      BY <1>1, <2>3 DEF Apart
    <3>2. Cardinality(B) = 0
      BY <3>1, FS_EmptySet
    <3> HIDE DEF B, q, p
    <3> QED BY <2>1, <2>2, <2>3, <3>1, <3>2
  <2>4. ASSUME e \in ToSet(dispatched) PROVE Cardinality(B) + q + p = 1
    <3>1. B = {} /\ e \notin ToSet(queue)
      BY <1>1, <2>4 DEF Apart
    <3>2. Cardinality(B) = 0
      BY <3>1, FS_EmptySet
    <3> HIDE DEF B, q, p
    <3> QED BY <2>1, <2>2, <2>4, <3>1, <3>2
  <2>5. ASSUME NEW d \in Drainers, e \in ToSet(batch[d])
        PROVE  Cardinality(B) = 1 /\ q = 0 /\ p = 0
    <3>1. B = {d} /\ e \notin ToSet(queue) /\ e \notin ToSet(dispatched)
      BY <1>1, <2>5 DEF Apart
    <3> QED BY <2>1, <2>2, <3>1, FS_Singleton
  <2>6. e \in ToSet(queue) \/ e \in ToSet(dispatched) \/ \E d \in Drainers : e \in ToSet(batch[d])
    BY <1>1 DEF Apart
  <2>7. ASSUME NEW d \in Drainers, e \in ToSet(batch[d]) PROVE Cardinality(B) + q + p = 1
    <3>1. Cardinality(B) = 1 /\ q = 0 /\ p = 0
      BY <2>5, <2>7
    <3> HIDE DEF B, q, p
    <3> QED BY <3>1
  <2> QED BY <2>3, <2>4, <2>6, <2>7
<1>4. dropped \cap Capital = {}
  BY <1>1 DEF Apart
<1> QED BY <1>2, <1>3, <1>4 DEF QueueInv, CapitalKept

\* AsyncEventBus.publish, _drain_batch: no capital event is dropped, and no
\* accepted event is lost or doubled between the queue, the batches of threads
\* that overlap and the wrapped bus.
THEOREM QueueInvAlways == Spec => []QueueInv
  BY InvInit, InvStep, InvKeeps, PTL DEF Spec

\* The bus starts with nothing promised and nothing handed over.
LEMMA DeliveryInit == Init => Delivery!Init
  BY DEF Init, Delivery!Init

\* A publication accepts, a dispatch delivers what is owed, in order while every
\* stop ended in time, and the other steps promise nothing.
LEMMA DeliveryStep == Inv /\ [Next]_vars => [Delivery!Next]_(Delivery!vars)
<1> SUFFICES ASSUME Inv, [Next]_vars PROVE [Delivery!Next]_(Delivery!vars)
  OBVIOUS
<1>1. Types /\ Apart /\ Ordered
  BY DEF Inv
<1> USE DEF threads, manager, history
<1>2. ASSUME UNCHANGED <<accepted, dispatched, overrun>>
      PROVE  [Delivery!Next]_(Delivery!vars)
  BY <1>2 DEF Delivery!vars
<1>3. ASSUME UNCHANGED <<accepted, dispatched>> PROVE [Delivery!Next]_(Delivery!vars)
  <2>1. overrun \in BOOLEAN /\ overrun' \in BOOLEAN
    BY <1>1, TypesStep DEF Types
  <2>2. CASE overrun' = overrun
    BY <1>2, <1>3, <2>2
  <2>3. CASE overrun = FALSE /\ overrun' = TRUE
    BY <1>3, <2>3 DEF Delivery!Next, Delivery!GiveUpOrder
  <2>4. ~(overrun = TRUE /\ overrun' = FALSE)
    BY DEF Next, Publish, EndReplay, Start, DrainLoop, DrainerStep, Take, Dispatch,
           BeginStop, EnterJoin, JoinReturns, StopReturns, vars
  <2> QED BY <2>1, <2>2, <2>3, <2>4
<1>4. ASSUME NEW e \in Events, Publish(e) PROVE [Delivery!Next]_(Delivery!vars)
  <2>1. CASE accepted' = Append(accepted, e)
    <3>1. Delivery!Accept(e)
      BY <1>4, <2>1 DEF Publish, Published, Delivery!Accept, ToSet, Delivery!ToSet
    <3> QED BY <3>1 DEF Delivery!Next
  <2>2. CASE accepted' = accepted
    BY <1>2, <1>4, <2>2 DEF Publish
  <2> QED BY <1>4, <2>1, <2>2 DEF Publish
<1>5. ASSUME NEW d \in Drainers, Dispatch(d) PROVE [Delivery!Next]_(Delivery!vars)
  <2> DEFINE e == Head(batch[d])
  <2>1. /\ pc[d] = "dispatch" /\ dispatched' = Append(dispatched, e)
        /\ UNCHANGED <<accepted, overrun>>
    BY <1>5 DEF Dispatch
  <2>2. /\ e \in Events /\ e \in ToSet(batch[d]) /\ e = batch[d][1]
        /\ 1 \in 1 .. Len(batch[d])
    BY <1>1, <2>1, BatchHead
  <2>3. e \in ToSet(accepted) \ ToSet(dispatched)
    BY <1>1, <2>2 DEF Apart
  <2>4. overrun \/ e = accepted[Len(dispatched) + 1]
    BY <1>1, <2>1, <2>2 DEF Ordered
  <2>5. Delivery!Deliver(e)
    BY <2>1, <2>3, <2>4 DEF Delivery!Deliver, ToSet, Delivery!ToSet
  <2> QED BY <2>2, <2>5 DEF Delivery!Next
<1>6. ASSUME NEW w \in Workers, Start(w) \/ DrainLoop(w)
      PROVE  [Delivery!Next]_(Delivery!vars)
  BY <1>2, <1>6 DEF Start, DrainLoop
<1>7. ASSUME NEW d \in Drainers, Take(d) PROVE [Delivery!Next]_(Delivery!vars)
  BY <1>2, <1>7 DEF Take
<1>8. ASSUME NEW s \in Stoppers, BeginStop(s) \/ EnterJoin(s) \/ JoinReturns(s) \/ StopReturns(s)
      PROVE  [Delivery!Next]_(Delivery!vars)
  BY <1>3, <1>8 DEF BeginStop, EnterJoin, JoinReturns, StopReturns
<1>9. CASE EndReplay \/ UNCHANGED vars
  BY <1>2, <1>9 DEF EndReplay, vars
<1> QED BY <1>4, <1>5, <1>6, <1>7, <1>8, <1>9 DEF Next, DrainerStep

\* AsyncEventBus implements OrderedDelivery: each accepted event is handed over
\* once, and in the order of acceptance while every stop has ended in time.
THEOREM BusDeliversInOrder == Spec => DeliversInOrder
<1>1. Spec => []Inv
  BY InvInit, InvStep, PTL DEF Spec
<1> QED BY <1>1, DeliveryInit, DeliveryStep, PTL DEF Spec, DeliversInOrder, Delivery!Spec

\* A stop ends when it finds the queue empty, alone: everything was handed over.
LEMMA DrainedAtStop ==
    Inv /\ [Next]_vars =>
        [\A s \in Stoppers :
             pc[s] # "done" /\ pc'[s] = "done" /\ ~overrun => dispatched' = accepted]_vars
<1> SUFFICES ASSUME Inv, [Next]_vars, NEW s \in Stoppers,
                    pc[s] # "done", pc'[s] = "done", ~overrun
             PROVE  dispatched' = accepted
  OBVIOUS
<1>1. Types /\ OneDrainer /\ Ordered
  BY DEF Inv
<1>2. s \in Drainers /\ s \notin Workers
  BY AsyncBusAssumption DEF Drainers
<1> USE DEF threads, manager, history
<1>3. pc[s] = "take" /\ Take(s)
  <2>1. pc' # pc
    BY <1>1 DEF Types
  <2>2. ASSUME NEW d \in Drainers, d # s, NEW p, pc' = [pc EXCEPT ![d] = p] PROVE FALSE
    BY <1>1, <1>2, <2>2 DEF Types
  <2>3. ASSUME NEW p, p # "done", pc' = [pc EXCEPT ![s] = p] PROVE FALSE
    BY <1>1, <1>2, <2>3 DEF Types
  <2>4. \A w \in Workers : w \in Drainers /\ w # s
    BY <1>2 DEF Drainers
  <2>5. \A w \in Workers : ~Start(w) /\ ~DrainLoop(w)
    BY <2>1, <2>2, <2>4 DEF Start, DrainLoop
  <2>6. \A c \in Stoppers : c \in Drainers
    BY DEF Drainers
  <2>7. \A c \in Stoppers : ~BeginStop(c) /\ ~EnterJoin(c) /\ ~JoinReturns(c) /\ ~StopReturns(c)
    <3>1. \A c \in Stoppers : ~StopReturns(c)
      BY <2>1 DEF StopReturns
    <3>2. \A c \in Stoppers : ~BeginStop(c)
      BY <2>2, <2>3, <2>6 DEF BeginStop
    <3>3. \A c \in Stoppers : ~JoinReturns(c)
      BY <2>2, <2>3, <2>6 DEF JoinReturns
    <3>4. \A c \in Stoppers : ~EnterJoin(c)
      BY <2>2, <2>3, <2>6 DEF EnterJoin
    <3> QED BY <3>1, <3>2, <3>3, <3>4
  <2>8. \A d \in Drainers : ~Dispatch(d)
    BY <2>2, <2>3 DEF Dispatch, NextPhase
  <2>9. \A d \in Drainers : Take(d) => d = s
    BY <2>2 DEF Take
  <2>10. ~EndReplay /\ ~(UNCHANGED vars) /\ \A e \in Events : ~Publish(e)
    BY <2>1 DEF EndReplay, Publish, vars
  <2>11. Take(s)
    BY <2>5, <2>7, <2>8, <2>9, <2>10 DEF Next, DrainerStep
  <2> QED BY <2>11 DEF Take
<1>4. queue = <<>> /\ dispatched' = dispatched
  BY <1>1, <1>2, <1>3 DEF Take, Types
<1>5. \A d \in Drainers : pc[d] # "dispatch"
  BY <1>1, <1>2, <1>3, DrainsAlone
<1>6. /\ Len(dispatched) + Len(queue) = Len(accepted)
      /\ \A i \in 1 .. Len(dispatched) : accepted[i] = dispatched[i]
  BY <1>1, <1>5 DEF Ordered
<1>7. /\ dispatched \in Seq(Events) /\ accepted \in Seq(Events)
      /\ Len(dispatched) \in Nat /\ Len(queue) = 0
  BY <1>1, <1>4, LenProperties, EmptySeq DEF Types
<1>8. Len(dispatched) = Len(accepted)
  BY <1>6, <1>7
<1> QED BY <1>4, <1>6, <1>7, <1>8, SeqEqual

\* AsyncEventBus.stop: a stop that returns leaves nothing behind, unless some stop
\* ran out of its time.
THEOREM StopDrainsAlways == Spec => StopDrains
<1>1. Spec => []Inv
  BY InvInit, InvStep, PTL DEF Spec
<1> QED BY <1>1, DrainedAtStop, PTL DEF Spec, StopDrains

=============================================================================
