--------------------------- MODULE EventBusProofs ---------------------------
(***************************************************************************)
(* EventBus: one publication delivers an event at a time, what the guard   *)
(* remembers was delivered, a handler gets an event again only for a       *)
(* counted reason, what it has seen is in the log or on record, and so is  *)
(* every failure.                                                          *)
(*                                                                         *)
(* None of the five is inductive: the argument goes over the claims of the *)
(* publications under way (Claims), what such a publication has still to   *)
(* deliver (Taken), the deliveries the guard knows of (Once), the hook     *)
(* every publication passes before its handlers (Logged), and the failures *)
(* without a letter (Lost).  The bounds of the bus need one more: that a   *)
(* publication has failed on no more handlers than it has called (Budget). *)
(***************************************************************************)
EXTENDS EventBus, CollectionLemmas

\* The types the arguments need.
Types ==
    /\ pc \in [Threads -> Phases]
    /\ event \in [Threads -> Events \cup {None}]
    /\ \A t \in Threads : pc[t] # "idle" => event[t] \in Events
    /\ todo \in [Threads -> Seq(Handlers)] /\ \A t \in Threads : Distinct(todo[t])
    /\ failures \in [Threads -> Nat]
    /\ subscribers \in Seq(Handlers) /\ Distinct(subscribers)
    /\ processed \in Seq(Events)
    /\ inFlight \subseteq Events
    /\ dlq \in Seq(Letters) /\ dropped \in Nat
    /\ taken \in [Events \X Handlers -> Nat]
    /\ owed \in [Events -> SUBSET Handlers]
    /\ released \in [Events -> Nat] /\ evicted \in [Events -> Nat]

-----------------------------------------------------------------------------
\* A handler subscribed before the process publishes: a set, in any order.
LEMMA SetToSeqsElements ==
    ASSUME NEW hs \in SUBSET Handlers, NEW s \in SetToSeqs(hs)
    PROVE  s \in Seq(Handlers) /\ Distinct(s)
<1>1. IsFiniteSet(hs) /\ Cardinality(hs) \in Nat
  BY FS_Subset, FS_CardinalityType, BusAssumption
<1> DEFINE n == Cardinality(hs)
<1>2. s \in [1 .. n -> hs] /\ \A i, j \in 1 .. n : i # j => s[i] # s[j]
  BY DEF SetToSeqs
<1> HIDE DEF n
<1>3. n \in Nat
  BY <1>1 DEF n
<1>4. s \in Seq(Handlers) /\ Len(s) = n
  BY <1>2, <1>3
<1> QED BY <1>2, <1>4 DEF Distinct

-----------------------------------------------------------------------------
\* commit leaves a window of event ids, none but those it had and the new one.
LEMMA RememberedElements ==
    ASSUME processed \in Seq(Events), NEW e \in Events
    PROVE  /\ Remembered(e) \in Seq(Events)
           /\ ToSet(Remembered(e)) \subseteq ToSet(processed) \cup {e}
<1> DEFINE w == Append(processed, e)
<1>1. w \in Seq(Events) /\ w # <<>> /\ ToSet(w) = ToSet(processed) \cup {e}
  BY AppendElements
<1> HIDE DEF w
<1>2. Tail(w) \in Seq(Events) /\ ToSet(Tail(w)) \subseteq ToSet(w)
  BY <1>1, TailElements
<1>3. Remembered(e) \in {processed, w, Tail(w)}
  BY DEF Remembered, w
<1> QED BY <1>1, <1>2, <1>3

\* What the end of publish does to the thread that returns, and to no other.
LEMMA Returned ==
    ASSUME Types, NEW t \in Threads, Return(t)
    PROVE  /\ pc' = [pc EXCEPT ![t] = "idle"]
           /\ pc' \in [Threads -> Phases]
           /\ event' \in [Threads -> Events \cup {None}]
           /\ todo' \in [Threads -> Seq(Handlers)]
           /\ failures' \in [Threads -> Nat]
           /\ pc'[t] = "idle"
           /\ \A u \in Threads : Distinct(todo'[u])
           /\ \A u \in Threads : pc'[u] # "idle" => event'[u] \in Events
           /\ \A u \in Threads \ {t} :
                 /\ pc'[u] = pc[u] /\ event'[u] = event[u]
                 /\ todo'[u] = todo[u] /\ failures'[u] = failures[u]
<1>1. <<>> \in Seq(Handlers) /\ Len(<<>>) = 0
  BY EmptySeq
<1>2. Distinct(<<>>)
  BY <1>1 DEF Distinct
<1>3. /\ pc' = [pc EXCEPT ![t] = "idle"] /\ event' = [event EXCEPT ![t] = None]
      /\ todo' = [todo EXCEPT ![t] = <<>>] /\ failures' = [failures EXCEPT ![t] = 0]
  BY DEF Return, Goto
<1>4. /\ pc' \in [Threads -> Phases] /\ event' \in [Threads -> Events \cup {None}]
      /\ failures' \in [Threads -> Nat]
      /\ pc'[t] = "idle"
      /\ \A u \in Threads \ {t} :
            pc'[u] = pc[u] /\ event'[u] = event[u] /\ failures'[u] = failures[u]
  BY <1>3 DEF Types, Phases
<1>5. /\ todo' \in [Threads -> Seq(Handlers)] /\ todo'[t] = <<>>
      /\ \A u \in Threads \ {t} : todo'[u] = todo[u]
  BY <1>1, <1>3 DEF Types
<1>6. \A u \in Threads : Distinct(todo'[u])
  BY <1>2, <1>5 DEF Types
<1>7. \A u \in Threads : pc'[u] # "idle" => event'[u] \in Events
  BY <1>4 DEF Types
<1> QED BY <1>3, <1>4, <1>5, <1>6, <1>7

\* What pushing a letter leaves of the dead-letter queue.
LEMMA Pushed ==
    ASSUME dlq \in Seq(Letters), dropped \in Nat, NEW l \in Letters, Push(l)
    PROVE  /\ dlq' \in Seq(Letters) /\ dropped' \in Nat /\ dropped' >= dropped
           /\ l \in ToSet(dlq')
           /\ dropped' > 0 \/ ToSet(dlq) \subseteq ToSet(dlq')
<1>1. CASE Len(dlq) = DlqMax
  <2>1. dlq # <<>>
    BY <1>1, EmptySeq, BusAssumption
  <2>2. Tail(dlq) \in Seq(Letters)
    BY <2>1, TailElements
  <2>3. dlq' = Append(Tail(dlq), l) /\ dropped' = dropped + 1
    BY <1>1 DEF Push
  <2> DEFINE w == Tail(dlq)
  <2> HIDE DEF w
  <2>4. Append(w, l) \in Seq(Letters) /\ ToSet(Append(w, l)) = ToSet(w) \cup {l}
    <3>1. w \in Seq(Letters)
      BY <2>2 DEF w
    <3> QED BY <3>1, AppendElements
  <2> QED BY <2>3, <2>4, BusAssumption DEF w
<1>2. CASE Len(dlq) # DlqMax
  <2>1. dlq' = Append(dlq, l) /\ dropped' = dropped
    BY <1>2 DEF Push
  <2>2. /\ Append(dlq, l) \in Seq(Letters)
        /\ ToSet(Append(dlq, l)) = ToSet(dlq) \cup {l}
    BY AppendElements
  <2> QED BY <2>1, <2>2
<1> QED BY <1>1, <1>2

\* The types hold at the start and are kept.
LEMMA TypesInit == Init => Types
<1> SUFFICES ASSUME Init PROVE Types
  OBVIOUS
<1>1. <<>> \in Seq(Handlers) /\ <<>> \in Seq(Events) /\ <<>> \in Seq(Letters) /\ Len(<<>>) = 0
  BY EmptySeq
<1>2. Distinct(<<>>)
  BY <1>1 DEF Distinct
<1>3. subscribers \in Seq(Handlers) /\ Distinct(subscribers)
  BY SetToSeqsElements DEF Init
<1>4. /\ pc \in [Threads -> Phases] /\ \A t \in Threads : pc[t] = "idle"
      /\ event \in [Threads -> Events \cup {None}]
  BY DEF Init, Phases
<1> QED BY <1>1, <1>2, <1>3, <1>4 DEF Init, Types

\* Every step keeps the types.
LEMMA TypesStep == Types /\ [Next]_vars => Types'
<1> SUFFICES ASSUME Types, [Next]_vars PROVE Types'
  OBVIOUS
<1> USE DEF ctl, subs, guard, mode, log, letters, history
<1>1. ASSUME NEW t \in Threads, NEW e \in Events, Publish(t, e) PROVE Types'
  BY <1>1 DEF Publish, Goto, Types, Phases
<1>2. ASSUME NEW t \in Threads, TryClaim(t) PROVE Types'
  <2>1. event[t] \in Events
    BY <1>2 DEF TryClaim, Types
  <2>2. CASE Return(t)
    <3>1. inFlight' \subseteq Events
      BY <1>2, <2>1 DEF TryClaim, Types
    <3>2. UNCHANGED <<subscribers, processed, dlq, dropped, taken, owed, released, evicted>>
      BY <1>2 DEF TryClaim
    <3> HIDE DEF ctl, subs, guard, mode, log, letters, history
    <3> QED BY <2>2, <3>1, <3>2, Returned DEF Types
  <2>3. CASE ~Return(t)
    BY <1>2, <2>1, <2>3 DEF TryClaim, Goto, Types, Phases
  <2> QED BY <2>2, <2>3
<1>3. ASSUME NEW t \in Threads, Persist(t) PROVE Types'
  BY <1>3 DEF Persist, Goto, Types, Phases
<1>4. ASSUME NEW t \in Threads, PersistFails(t) PROVE Types'
  <2>1. event[t] \in Events /\ <<event[t], Log>> \in Letters
    BY <1>4 DEF PersistFails, Types, Letters
  <2>2. dlq' \in Seq(Letters) /\ dropped' \in Nat
    BY <1>4, <2>1, Pushed DEF PersistFails, Types
  <2>3. CASE failFast
    <3>1. Return(t) /\ Release(event[t]) /\ UNCHANGED <<subscribers, taken, owed>>
      BY <1>4, <2>3 DEF PersistFails
    <3>2. /\ inFlight' \subseteq Events /\ released' \in [Events -> Nat]
          /\ UNCHANGED <<processed, evicted>>
      BY <2>1, <3>1 DEF Release, Types
    <3>3. /\ pc' \in [Threads -> Phases]
          /\ event' \in [Threads -> Events \cup {None}]
          /\ todo' \in [Threads -> Seq(Handlers)]
          /\ failures' \in [Threads -> Nat]
          /\ \A u \in Threads : Distinct(todo'[u])
          /\ \A u \in Threads : pc'[u] # "idle" => event'[u] \in Events
      BY <3>1, Returned
    <3> QED BY <2>2, <3>1, <3>2, <3>3 DEF Types
  <2>4. CASE ~failFast
    BY <1>4, <2>1, <2>2, <2>4 DEF PersistFails, Goto, Types, Phases
  <2> QED BY <2>3, <2>4
<1>5. ASSUME NEW t \in Threads, Snapshot(t) PROVE Types'
  <2> DEFINE hs == IF replayMode THEN <<>> ELSE subscribers
  <2>1. hs \in Seq(Handlers) /\ Distinct(hs)
    <3>1. <<>> \in Seq(Handlers) /\ Len(<<>>) = 0
      BY EmptySeq
    <3> QED BY <3>1 DEF Types, Distinct
  <2>2. ToSet(hs) \in SUBSET Handlers
    BY <2>1, ElementsAreTyped
  <2>3. /\ todo' = [todo EXCEPT ![t] = hs] /\ owed' = [owed EXCEPT ![event[t]] = ToSet(hs)]
    BY <1>5 DEF Snapshot
  <2> HIDE DEF hs
  <2> QED BY <1>5, <2>1, <2>2, <2>3 DEF Snapshot, Goto, Types, Phases
<1>6. ASSUME NEW t \in Threads, HandlerReturns(t) PROVE Types'
  <2>1. /\ event[t] \in Events /\ todo[t] \in Seq(Handlers)
        /\ Head(todo[t]) \in Handlers /\ Tail(todo[t]) \in Seq(Handlers)
        /\ Distinct(Tail(todo[t]))
    BY <1>6, TailElements DEF HandlerReturns, Types
  <2>2. todo' = [todo EXCEPT ![t] = Tail(todo[t])]
    BY <1>6 DEF HandlerReturns
  <2>3. taken' = [taken EXCEPT ![<<event[t], Head(todo[t])>>] = @ + 1]
    BY <1>6 DEF HandlerReturns
  <2>4. /\ todo' \in [Threads -> Seq(Handlers)]
        /\ \A u \in Threads : Distinct(todo'[u])
    BY <2>1, <2>2 DEF Types
  <2>5. taken' \in [Events \X Handlers -> Nat]
    BY <2>1, <2>3 DEF Types
  <2> QED BY <1>6, <2>4, <2>5 DEF HandlerReturns, Types
<1>7. ASSUME NEW t \in Threads, HandlerRaises(t) PROVE Types'
  <2>1. /\ event[t] \in Events /\ todo[t] \in Seq(Handlers)
        /\ Head(todo[t]) \in Handlers /\ Tail(todo[t]) \in Seq(Handlers)
        /\ Distinct(Tail(todo[t]))
    BY <1>7, TailElements DEF HandlerRaises, Types
  <2>2. <<event[t], Head(todo[t])>> \in Letters
    BY <2>1 DEF Letters
  <2>3. dlq' \in Seq(Letters) /\ dropped' \in Nat
    BY <1>7, <2>2, Pushed DEF HandlerRaises, Types
  <2>4. CASE failFast
    <3>1. Return(t) /\ Release(event[t]) /\ UNCHANGED <<subscribers, taken, owed>>
      BY <1>7, <2>4 DEF HandlerRaises
    <3>2. /\ inFlight' \subseteq Events /\ released' \in [Events -> Nat]
          /\ UNCHANGED <<processed, evicted>>
      BY <2>1, <3>1 DEF Release, Types
    <3>3. /\ pc' \in [Threads -> Phases]
          /\ event' \in [Threads -> Events \cup {None}]
          /\ todo' \in [Threads -> Seq(Handlers)]
          /\ failures' \in [Threads -> Nat]
          /\ \A u \in Threads : Distinct(todo'[u])
          /\ \A u \in Threads : pc'[u] # "idle" => event'[u] \in Events
      BY <3>1, Returned
    <3> QED BY <2>3, <3>1, <3>2, <3>3 DEF Types
  <2>5. CASE ~failFast
    <3>1. /\ todo' = [todo EXCEPT ![t] = Tail(todo[t])]
          /\ failures' = [failures EXCEPT ![t] = failures[t] + 1]
          /\ UNCHANGED <<pc, event, subscribers, processed, inFlight, taken, owed,
                         released, evicted>>
      BY <1>7, <2>5 DEF HandlerRaises
    <3>2. /\ todo' \in [Threads -> Seq(Handlers)] /\ failures' \in [Threads -> Nat]
          /\ \A u \in Threads : Distinct(todo'[u])
      BY <2>1, <3>1 DEF Types
    <3> QED BY <2>3, <3>1, <3>2 DEF Types
  <2> QED BY <2>4, <2>5
<1>8. ASSUME NEW t \in Threads, Settle(t) PROVE Types'
  <2>1. event[t] \in Events /\ Return(t)
    BY <1>8 DEF Settle, Types
  <2>2. /\ processed' \in Seq(Events) /\ inFlight' \subseteq Events
        /\ released' \in [Events -> Nat] /\ evicted' \in [Events -> Nat]
    <3>1. CASE Release(event[t])
      BY <2>1, <3>1 DEF Release, Types
    <3>2. CASE Commit(event[t])
      BY <2>1, <3>2, RememberedElements DEF Commit, Types
    <3> QED BY <1>8, <3>1, <3>2 DEF Settle
  <2> QED BY <1>8, <2>1, <2>2, Returned DEF Settle, Types
<1>9. ASSUME NEW h \in Handlers, Subscribe(h) PROVE Types'
  BY <1>9, AppendElements DEF Subscribe, Types
<1>10. ASSUME NEW h \in Handlers, Unsubscribe(h) PROVE Types'
  BY <1>10, RemoveAtElements DEF Unsubscribe, Types
<1>11. CASE SetReplayMode \/ SetHookReplayMode \/ Flush
  BY <1>11 DEF SetReplayMode, SetHookReplayMode, Flush, Types
<1>12. CASE UNCHANGED vars
  BY <1>12 DEF vars, Types
<1> QED
  BY <1>1, <1>2, <1>3, <1>4, <1>5, <1>6, <1>7, <1>8, <1>9, <1>10, <1>11, <1>12 DEF Next

-----------------------------------------------------------------------------
\* A publication holds a claim on its event, no other has one on it, and an
\* event that is claimed is not in the window.
Claims ==
    /\ OneDispatcher
    /\ \A t \in Threads : Working(t) => event[t] \notin ToSet(processed)

\* A step that starts and ends no publication keeps the claims.
LEMMA ClaimsStay ==
    ASSUME Claims, UNCHANGED <<inFlight, processed>>,
           \A t \in Threads : Working(t)' <=> Working(t),
           \A t \in Threads : Working(t) => event'[t] = event[t]
    PROVE  Claims'
<1>1. {event'[t] : t \in {u \in Threads : Working(u)'}}
        = {event[t] : t \in {u \in Threads : Working(u)}}
  OBVIOUS
<1>2. OneDispatcher'
  BY <1>1 DEF Claims, OneDispatcher
<1> QED BY <1>2 DEF Claims

\* A publication that ends gives up its own claim and no other.
LEMMA ClaimEnds ==
    ASSUME Types, Claims, NEW t \in Threads, Working(t), Return(t),
           inFlight' = inFlight \ {event[t]},
           ToSet(processed') \subseteq ToSet(processed) \cup {event[t]}
    PROVE  Claims'
<1>1. /\ ~Working(t)'
      /\ \A u \in Threads \ {t} : (Working(u)' <=> Working(u)) /\ event'[u] = event[u]
  BY Returned DEF Working
<1>2. \A u \in Threads \ {t} : Working(u) => event[u] # event[t]
  BY DEF Claims, OneDispatcher
<1>3. inFlight' = {event'[v] : v \in {u \in Threads : Working(u)'}}
  <2>1. ASSUME NEW e \in inFlight' PROVE e \in {event'[v] : v \in {u \in Threads : Working(u)'}}
    <3>1. PICK v \in Threads : Working(v) /\ event[v] = e
      BY <2>1 DEF Claims, OneDispatcher
    <3>2. v # t
      BY <2>1, <3>1
    <3> QED BY <1>1, <3>1, <3>2
  <2>2. ASSUME NEW v \in Threads, Working(v)' PROVE event'[v] \in inFlight'
    <3>1. v # t /\ Working(v) /\ event'[v] = event[v]
      BY <1>1, <2>2
    <3> QED BY <1>2, <3>1 DEF Claims, OneDispatcher
  <2> QED BY <2>1, <2>2
<1>4. \A u, v \in Threads :
         Working(u)' /\ Working(v)' /\ event'[u] = event'[v] => u = v
  BY <1>1 DEF Claims, OneDispatcher
<1>5. ASSUME NEW u \in Threads, Working(u)' PROVE event'[u] \notin ToSet(processed')
  <2>1. u # t /\ Working(u) /\ event'[u] = event[u]
    BY <1>1, <1>5
  <2> QED BY <1>2, <2>1 DEF Claims
<1> QED BY <1>3, <1>4, <1>5 DEF Claims, OneDispatcher

\* Nobody has a claim at the start.
LEMMA ClaimsInit == Init => Claims
  BY DEF Init, Claims, OneDispatcher, Working

\* A claim is made where no other is, and ends with its publication.
LEMMA ClaimsStep == Types /\ Claims /\ [Next]_vars => Claims'
<1> SUFFICES ASSUME Types, Claims, [Next]_vars PROVE Claims'
  OBVIOUS
<1> USE DEF guard
<1>1. ASSUME NEW t \in Threads, NEW e \in Events, Publish(t, e) PROVE Claims'
  <2>1. \A u \in Threads : \/ pc'[u] = pc[u] /\ event'[u] = event[u]
                           \/ pc[u] = "idle" /\ pc'[u] = "claim"
    BY <1>1 DEF Publish, Goto, ctl, Types
  <2> QED BY <1>1, <2>1, ClaimsStay DEF Publish, Working
<1>2. ASSUME NEW t \in Threads, TryClaim(t) PROVE Claims'
  <2>1. pc[t] = "claim" /\ processed' = processed
    BY <1>2 DEF TryClaim
  <2>2. CASE ~MayClaim(event[t])
    <3>1. Return(t) /\ inFlight' = inFlight
      BY <1>2, <2>2 DEF TryClaim
    <3> QED BY <2>1, <3>1, Returned, ClaimsStay DEF Working
  <2>3. CASE MayClaim(event[t])
    <3>1. /\ inFlight' = inFlight \cup {event[t]} /\ event' = event
          /\ pc' = [pc EXCEPT ![t] = "persist"]
          /\ event[t] \notin ToSet(processed) /\ event[t] \notin inFlight
      BY <1>2, <2>3 DEF TryClaim, Goto, MayClaim
    <3>2. /\ ~Working(t) /\ Working(t)'
          /\ \A u \in Threads \ {t} : Working(u)' <=> Working(u)
      BY <2>1, <3>1 DEF Working, Types
    <3>3. \A u \in Threads : Working(u) => event[u] \in inFlight
      BY DEF Claims, OneDispatcher
    <3>4. inFlight' = {event'[v] : v \in {u \in Threads : Working(u)'}}
      BY <3>1, <3>2 DEF Claims, OneDispatcher
    <3>5. \A u, v \in Threads :
             Working(u)' /\ Working(v)' /\ event'[u] = event'[v] => u = v
      BY <3>1, <3>2, <3>3 DEF Claims, OneDispatcher
    <3>6. \A u \in Threads : Working(u)' => event'[u] \notin ToSet(processed')
      BY <2>1, <3>1, <3>2 DEF Claims
    <3> QED BY <3>4, <3>5, <3>6 DEF Claims, OneDispatcher
  <2> QED BY <2>2, <2>3
<1>3. ASSUME NEW t \in Threads, Persist(t) \/ Snapshot(t) PROVE Claims'
  <2>1. \A u \in Threads : \/ pc'[u] = pc[u]
                           \/ /\ pc[u] \in {"persist", "snapshot"}
                              /\ pc'[u] \in {"snapshot", "handlers"}
    BY <1>3 DEF Persist, Snapshot, Goto, Types
  <2> QED BY <1>3, <2>1, ClaimsStay DEF Persist, Snapshot, Working
<1>4. ASSUME NEW t \in Threads, PersistFails(t) PROVE Claims'
  <2>1. pc[t] = "persist" /\ Working(t)
    BY <1>4 DEF PersistFails, Working
  <2>2. CASE failFast
    BY <1>4, <2>1, <2>2, ClaimEnds DEF PersistFails, Release
  <2>3. CASE ~failFast
    <3>1. pc' = [pc EXCEPT ![t] = "snapshot"] /\ UNCHANGED <<event, inFlight, processed>>
      BY <1>4, <2>3 DEF PersistFails, Goto
    <3> QED BY <2>1, <3>1, ClaimsStay DEF Working, Types
  <2> QED BY <2>2, <2>3
<1>5. ASSUME NEW t \in Threads, HandlerReturns(t) PROVE Claims'
  BY <1>5, ClaimsStay DEF HandlerReturns, Working
<1>6. ASSUME NEW t \in Threads, HandlerRaises(t) PROVE Claims'
  <2>1. pc[t] = "handlers" /\ Working(t)
    BY <1>6 DEF HandlerRaises, Working
  <2>2. CASE failFast
    BY <1>6, <2>1, <2>2, ClaimEnds DEF HandlerRaises, Release
  <2>3. CASE ~failFast
    BY <1>6, <2>3, ClaimsStay DEF HandlerRaises, Working
  <2> QED BY <2>2, <2>3
<1>7. ASSUME NEW t \in Threads, Settle(t) PROVE Claims'
  <2>1. Working(t) /\ Return(t) /\ event[t] \in Events /\ processed \in Seq(Events)
    BY <1>7 DEF Settle, Working, Types
  <2>2. /\ inFlight' = inFlight \ {event[t]}
        /\ processed' = processed \/ processed' = Remembered(event[t])
    BY <1>7 DEF Settle, Release, Commit
  <2>3. ToSet(processed') \subseteq ToSet(processed) \cup {event[t]}
    BY <2>1, <2>2, RememberedElements
  <2> QED BY <2>1, <2>2, <2>3, ClaimEnds
<1>8. ASSUME UNCHANGED <<pc, event, inFlight, processed>> PROVE Claims'
  BY <1>8, ClaimsStay DEF Working
<1>9. ASSUME NEW h \in Handlers, Subscribe(h) \/ Unsubscribe(h) PROVE Claims'
  BY <1>8, <1>9 DEF Subscribe, Unsubscribe, ctl
<1>10. CASE SetReplayMode \/ SetHookReplayMode \/ Flush \/ UNCHANGED vars
  BY <1>8, <1>10 DEF SetReplayMode, SetHookReplayMode, Flush, vars, ctl
<1> QED
  BY <1>1, <1>2, <1>3, <1>4, <1>5, <1>6, <1>7, <1>9, <1>10 DEF Next

-----------------------------------------------------------------------------
\* What a publication without a failure has still to deliver is what it owes and
\* has not delivered.
Taken ==
    /\ ProcessedWasTaken
    /\ \A t \in Threads : pc[t] = "handlers" /\ failures[t] = 0 =>
           \A h \in owed[event[t]] :
               taken[<<event[t], h>>] > 0 \/ h \in ToSet(todo[t])

\* A step that calls, commits and snapshots nothing keeps it.
LEMMA TakenStays ==
    ASSUME Taken, UNCHANGED <<taken, owed>>,
           ToSet(processed') \subseteq ToSet(processed),
           \A t \in Threads : pc'[t] = "handlers" /\ failures'[t] = 0 =>
               /\ pc[t] = "handlers" /\ failures[t] = 0
               /\ event'[t] = event[t] /\ todo'[t] = todo[t]
    PROVE  Taken'
  BY DEF Taken, ProcessedWasTaken

\* Nothing is processed at the start.
LEMMA TakenInit == Init => Taken
<1> SUFFICES ASSUME Init PROVE Taken
  OBVIOUS
<1>1. ToSet(processed) = {}
  BY NothingLeft DEF Init
<1>2. \A t \in Threads : pc[t] # "handlers"
  BY DEF Init
<1> QED BY <1>1, <1>2 DEF Taken, ProcessedWasTaken

\* A publication commits its event only when each handler it owes it has returned.
LEMMA TakenStep == Types /\ Claims /\ Taken /\ [Next]_vars => Taken'
<1> SUFFICES ASSUME Types, Claims, Taken, [Next]_vars PROVE Taken'
  OBVIOUS
<1>1. ASSUME NEW t \in Threads, Return(t), UNCHANGED <<taken, owed, processed>> PROVE Taken'
  BY <1>1, Returned, TakenStays
<1>2. ASSUME NEW t \in Threads, NEW p \in {"claim", "persist", "snapshot"},
             pc' = [pc EXCEPT ![t] = p], pc[t] # "handlers",
             \A u \in Threads \ {t} : event'[u] = event[u],
             UNCHANGED <<todo, failures, taken, owed, processed>>
      PROVE  Taken'
  BY <1>2, TakenStays DEF Types
<1>3. ASSUME UNCHANGED <<pc, event, todo, failures, taken, owed, processed>> PROVE Taken'
  BY <1>3, TakenStays
<1>4. ASSUME NEW t \in Threads, NEW e \in Events, Publish(t, e) PROVE Taken'
  <2>1. CASE IsDuplicate(e)
    BY <1>3, <1>4, <2>1 DEF Publish, ctl, guard, history
  <2>2. CASE ~IsDuplicate(e)
    <3>1. pc' = [pc EXCEPT ![t] = "claim"] /\ event' = [event EXCEPT ![t] = e]
      BY <1>4, <2>2 DEF Publish, Goto
    <3> QED BY <1>2, <1>4, <2>2, <3>1 DEF Publish, guard, history, Types
  <2> QED BY <2>1, <2>2
<1>5. ASSUME NEW t \in Threads, TryClaim(t) PROVE Taken'
  BY <1>1, <1>2, <1>5 DEF TryClaim, Goto, guard, history
<1>6. ASSUME NEW t \in Threads, Persist(t) PROVE Taken'
  BY <1>2, <1>6 DEF Persist, Goto, guard, history
<1>7. ASSUME NEW t \in Threads, PersistFails(t) PROVE Taken'
  BY <1>1, <1>2, <1>7 DEF PersistFails, Release, Goto, guard
<1>8. ASSUME NEW t \in Threads, Snapshot(t) PROVE Taken'
  <2> DEFINE hs == IF replayMode THEN <<>> ELSE subscribers
  <2>1. /\ todo' = [todo EXCEPT ![t] = hs] /\ owed' = [owed EXCEPT ![event[t]] = ToSet(hs)]
        /\ pc' = [pc EXCEPT ![t] = "handlers"] /\ pc[t] = "snapshot"
        /\ UNCHANGED <<event, failures, taken, processed>>
    BY <1>8 DEF Snapshot, Goto, guard
  <2> HIDE DEF hs
  <2>2. Working(t) /\ event[t] \in Events /\ event[t] \notin ToSet(processed)
    BY <2>1 DEF Working, Claims, Types
  <2>3. ProcessedWasTaken'
    <3>1. \A e \in ToSet(processed) : e \in Events
      BY ElementsAreTyped DEF Types
    <3> QED BY <2>1, <2>2, <3>1 DEF Taken, ProcessedWasTaken, Types
  <2>4. ASSUME NEW u \in Threads, pc'[u] = "handlers", failures'[u] = 0,
               NEW h \in owed'[event'[u]]
        PROVE  taken'[<<event'[u], h>>] > 0 \/ h \in ToSet(todo'[u])
    <3>1. CASE u = t
      BY <2>1, <2>2, <2>4, <3>1 DEF Types
    <3>2. CASE u # t
      <4>1. pc[u] = "handlers" /\ todo'[u] = todo[u]
        BY <2>1, <2>4, <3>2 DEF Types
      <4>2. event[u] # event[t] /\ event[u] \in Events
        BY <2>2, <3>2, <4>1 DEF Claims, OneDispatcher, Working, Types
      <4>3. owed'[event[u]] = owed[event[u]]
        BY <2>1, <4>2 DEF Types
      <4> QED BY <2>1, <2>4, <4>1, <4>3 DEF Taken
    <3> QED BY <3>1, <3>2
  <2> QED BY <2>3, <2>4 DEF Taken
<1>9. ASSUME NEW t \in Threads, HandlerReturns(t) PROVE Taken'
  <2> DEFINE k == <<event[t], Head(todo[t])>>
  <2>1. /\ pc[t] = "handlers" /\ todo[t] \in Seq(Handlers) /\ todo[t] # <<>>
        /\ event[t] \in Events
        /\ todo' = [todo EXCEPT ![t] = Tail(todo[t])]
        /\ taken' = [taken EXCEPT ![k] = @ + 1]
        /\ UNCHANGED <<pc, event, failures, owed, processed>>
    BY <1>9 DEF HandlerReturns, guard, Types
  <2>2. Head(todo[t]) \in Handlers /\ ToSet(todo[t]) = {Head(todo[t])} \cup ToSet(Tail(todo[t]))
    BY <2>1, TailElements
  <2>3. k \in Events \X Handlers
    BY <2>1, <2>2
  <2> HIDE DEF k
  <2>4. /\ \A x \in Events \X Handlers : taken'[x] \in Nat /\ taken'[x] >= taken[x]
        /\ taken'[k] > 0
    <3>1. taken \in [Events \X Handlers -> Nat] /\ taken[k] \in Nat
      BY <2>3 DEF Types
    <3>2. /\ taken' \in [Events \X Handlers -> Nat] /\ taken'[k] = taken[k] + 1
          /\ \A x \in Events \X Handlers : taken'[x] >= taken[x]
      BY <2>1, <2>3, <3>1, CountedUp
    <3> QED BY <3>1, <3>2
  <2>5. <<event[t], Head(todo[t])>> = k
    BY DEF k
  <2>6. \A e \in Events : owed[e] \subseteq Handlers
    BY DEF Types
  <2>7. ASSUME NEW e \in ToSet(processed'), NEW h \in owed'[e] PROVE taken'[<<e, h>>] > 0
    <3>1. e \in Events /\ e \in ToSet(processed) /\ h \in owed[e]
      BY <2>1, ElementsAreTyped DEF Types
    <3>2. <<e, h>> \in Events \X Handlers /\ taken[<<e, h>>] > 0
      BY <2>6, <3>1 DEF Taken, ProcessedWasTaken
    <3> QED BY <2>4, <3>2 DEF Types
  <2>8. ASSUME NEW u \in Threads, pc'[u] = "handlers", failures'[u] = 0,
               NEW h \in owed'[event'[u]]
        PROVE  taken'[<<event'[u], h>>] > 0 \/ h \in ToSet(todo'[u])
    <3>1. /\ event[u] \in Events /\ h \in owed[event[u]]
          /\ taken[<<event[u], h>>] > 0 \/ h \in ToSet(todo[u])
      BY <2>1, <2>8 DEF Taken, Types
    <3>2. <<event[u], h>> \in Events \X Handlers
      BY <2>6, <3>1
    <3>3. CASE taken[<<event[u], h>>] > 0
      BY <2>1, <2>4, <3>2, <3>3 DEF Types
    <3>4. CASE h \in ToSet(todo[u]) /\ u # t
      BY <2>1, <3>4 DEF Types
    <3>5. CASE h \in ToSet(todo[u]) /\ u = t
      <4>1. todo'[t] = Tail(todo[t])
        BY <2>1 DEF Types
      <4> QED BY <2>1, <2>2, <2>4, <2>5, <3>5, <4>1
    <3> QED BY <3>1, <3>3, <3>4, <3>5
  <2> QED BY <2>7, <2>8 DEF Taken, ProcessedWasTaken
<1>10. ASSUME NEW t \in Threads, HandlerRaises(t) PROVE Taken'
  <2>1. CASE failFast
    BY <1>1, <1>10, <2>1 DEF HandlerRaises, Release
  <2>2. CASE ~failFast
    <3>1. /\ todo' = [todo EXCEPT ![t] = Tail(todo[t])]
          /\ failures' = [failures EXCEPT ![t] = failures[t] + 1]
          /\ UNCHANGED <<pc, event, processed, taken, owed>>
      BY <1>10, <2>2 DEF HandlerRaises, guard
    <3>2. failures'[t] # 0 /\ \A u \in Threads \ {t} :
             failures'[u] = failures[u] /\ todo'[u] = todo[u]
      BY <3>1 DEF Types
    <3> QED BY <3>1, <3>2, TakenStays
  <2> QED BY <2>1, <2>2
<1>11. ASSUME NEW t \in Threads, Settle(t) PROVE Taken'
  <2>1. pc[t] = "handlers" /\ todo[t] = <<>> /\ Return(t) /\ UNCHANGED <<taken, owed>>
        /\ event[t] \in Events /\ processed \in Seq(Events)
    BY <1>11 DEF Settle, Types
  <2>2. CASE failures[t] > 0
    BY <1>1, <1>11, <2>1, <2>2 DEF Settle, Release
  <2>3. CASE ~(failures[t] > 0)
    <3>1. failures[t] = 0 /\ processed' = Remembered(event[t])
      BY <1>11, <2>3 DEF Settle, Commit, Types
    <3>2. \A h \in owed[event[t]] : taken[<<event[t], h>>] > 0
      BY <2>1, <3>1, NothingLeft DEF Taken
    <3>3. ToSet(processed') \subseteq ToSet(processed) \cup {event[t]}
      BY <2>1, <3>1, RememberedElements
    <3>4. ProcessedWasTaken'
      BY <2>1, <3>2, <3>3 DEF Taken, ProcessedWasTaken
    <3>5. \A u \in Threads : pc'[u] = "handlers" =>
             /\ pc[u] = "handlers" /\ failures'[u] = failures[u]
             /\ event'[u] = event[u] /\ todo'[u] = todo[u]
      BY <2>1, Returned
    <3> QED BY <2>1, <3>4, <3>5 DEF Taken
  <2> QED BY <2>2, <2>3
<1>12. ASSUME NEW h \in Handlers, Subscribe(h) \/ Unsubscribe(h) PROVE Taken'
  BY <1>3, <1>12 DEF Subscribe, Unsubscribe, ctl, guard, history
<1>13. CASE SetReplayMode \/ SetHookReplayMode \/ Flush \/ UNCHANGED vars
  BY <1>3, <1>13 DEF SetReplayMode, SetHookReplayMode, Flush, vars, ctl, guard, history
<1> QED
  BY <1>4, <1>5, <1>6, <1>7, <1>8, <1>9, <1>10, <1>11, <1>12, <1>13 DEF Next
-----------------------------------------------------------------------------
\* The handler got the event in a delivery that the guard knows of: the one that
\* is under way, or one whose event is in the window.
Served(e, h) ==
    \/ e \in ToSet(processed)
    \/ \E t \in Threads :
           pc[t] = "handlers" /\ event[t] = e /\ h \notin ToSet(todo[t])

\* Each call of a handler is paid for by a release or an eviction, except that of
\* the delivery the guard knows of.
Once ==
    \A e \in Events, h \in Handlers :
        /\ taken[<<e, h>>] <= 1 + released[e] + evicted[e]
        /\ ~Served(e, h) => taken[<<e, h>>] <= released[e] + evicted[e]

\* A step that calls no handler keeps it when every delivery it forgets counts
\* as a release or an eviction.
LEMMA OnceStays ==
    ASSUME Types, Once, UNCHANGED taken,
           released' \in [Events -> Nat], evicted' \in [Events -> Nat],
           \A e \in Events : released'[e] >= released[e] /\ evicted'[e] >= evicted[e],
           \A e \in Events, h \in Handlers : Served(e, h) =>
               Served(e, h)' \/ released'[e] > released[e] \/ evicted'[e] > evicted[e]
    PROVE  Once'
<1> SUFFICES ASSUME NEW e \in Events, NEW h \in Handlers
             PROVE  /\ taken[<<e, h>>] <= 1 + released'[e] + evicted'[e]
                    /\ ~Served(e, h)' => taken[<<e, h>>] <= released'[e] + evicted'[e]
  BY DEF Once
<1>1. /\ taken[<<e, h>>] \in Nat /\ released[e] \in Nat /\ evicted[e] \in Nat
      /\ released'[e] \in Nat /\ evicted'[e] \in Nat
  BY DEF Types
<1>2. /\ taken[<<e, h>>] <= 1 + released[e] + evicted[e]
      /\ ~Served(e, h) => taken[<<e, h>>] <= released[e] + evicted[e]
  BY DEF Once
<1>3. released'[e] >= released[e] /\ evicted'[e] >= evicted[e]
  OBVIOUS
<1>4. Served(e, h) =>
         Served(e, h)' \/ released'[e] > released[e] \/ evicted'[e] > evicted[e]
  OBVIOUS
<1> QED BY <1>1, <1>2, <1>3, <1>4

\* So does one that keeps the window and the deliveries that are under way.
LEMMA DeliveriesStay ==
    ASSUME Types, Once, UNCHANGED <<taken, released, evicted, processed>>,
           \A t \in Threads : pc[t] = "handlers" =>
               /\ pc'[t] = "handlers" /\ event'[t] = event[t]
               /\ ToSet(todo'[t]) \subseteq ToSet(todo[t])
    PROVE  Once'
<1>1. \A e \in Events, h \in Handlers : Served(e, h) => Served(e, h)'
  BY DEF Served
<1>2. \A e \in Events : /\ released'[e] >= released[e] /\ evicted'[e] >= evicted[e]
  BY DEF Types
<1>3. released' \in [Events -> Nat] /\ evicted' \in [Events -> Nat]
  BY DEF Types
<1> QED BY <1>1, <1>2, <1>3, OnceStays

\* A publication that gives its event up pays for the handlers it called.
LEMMA ReleasePays ==
    ASSUME Types, Once, NEW t \in Threads, event[t] \in Events,
           Return(t), Release(event[t]), UNCHANGED taken
    PROVE  Once'
<1>1. released' = [released EXCEPT ![event[t]] = @ + 1] /\ UNCHANGED <<processed, evicted>>
  BY DEF Release
<1>2. released \in [Events -> Nat] /\ evicted \in [Events -> Nat]
  BY DEF Types
<1>3. /\ released' \in [Events -> Nat] /\ released'[event[t]] = released[event[t]] + 1
      /\ \A e \in Events : released'[e] >= released[e]
  BY <1>1, <1>2, CountedUp
<1>4. released'[event[t]] > released[event[t]]
  BY <1>2, <1>3
<1>5. ASSUME NEW e \in Events, NEW h \in Handlers, Served(e, h)
      PROVE  Served(e, h)' \/ released'[e] > released[e]
  <2>1. CASE e \in ToSet(processed)
    BY <1>1, <2>1 DEF Served
  <2>2. ASSUME NEW u \in Threads,
               pc[u] = "handlers", event[u] = e, h \notin ToSet(todo[u])
        PROVE  Served(e, h)' \/ released'[e] > released[e]
    <3>1. CASE u = t
      BY <1>4, <2>2, <3>1
    <3>2. CASE u # t
      <4>1. pc'[u] = pc[u] /\ event'[u] = event[u] /\ todo'[u] = todo[u]
        BY <3>2, Returned
      <4> QED BY <2>2, <4>1 DEF Served
    <3> QED BY <3>1, <3>2
  <2> QED BY <1>5, <2>1, <2>2 DEF Served
<1>6. \A e \in Events : evicted'[e] >= evicted[e]
  BY <1>1, <1>2
<1> QED BY <1>1, <1>2, <1>3, <1>5, <1>6, OnceStays

\* A publication that commits its event leaves it in the window, and pays for an
\* event that the window loses by it.
LEMMA CommitPays ==
    ASSUME Types, Once, NEW t \in Threads, event[t] \in Events,
           Return(t), Commit(event[t]), UNCHANGED taken
    PROVE  Once'
<1> DEFINE lost == (ToSet(processed) \cup {event[t]}) \ ToSet(Remembered(event[t]))
<1>1. /\ evicted' = [x \in Events |-> IF x \in lost THEN evicted[x] + 1 ELSE evicted[x]]
      /\ processed' = Remembered(event[t]) /\ released' = released
  BY DEF Commit
<1>2. released \in [Events -> Nat] /\ evicted \in [Events -> Nat]
  BY DEF Types
<1>3. /\ evicted' \in [Events -> Nat]
      /\ \A e \in Events : evicted'[e] >= evicted[e] /\ (e \in lost => evicted'[e] > evicted[e])
  <2> HIDE DEF lost
  <2> QED BY <1>1, <1>2
<1>4. \A e \in Events : e \in ToSet(processed) \cup {event[t]} =>
          e \in ToSet(processed') \/ evicted'[e] > evicted[e]
  <2>1. \A e \in Events : e \in ToSet(processed) \cup {event[t]} =>
          e \in ToSet(processed') \/ e \in lost
    BY <1>1
  <2> HIDE DEF lost
  <2> QED BY <1>3, <2>1
<1> HIDE DEF lost
<1>5. ASSUME NEW e \in Events, NEW h \in Handlers, Served(e, h)
      PROVE  Served(e, h)' \/ evicted'[e] > evicted[e]
  <2>1. CASE e \in ToSet(processed)
    BY <1>4, <2>1 DEF Served
  <2>2. ASSUME NEW u \in Threads,
               pc[u] = "handlers", event[u] = e, h \notin ToSet(todo[u])
        PROVE  Served(e, h)' \/ evicted'[e] > evicted[e]
    <3>1. CASE u = t
      BY <1>4, <2>2, <3>1 DEF Served
    <3>2. CASE u # t
      <4>1. pc'[u] = pc[u] /\ event'[u] = event[u] /\ todo'[u] = todo[u]
        BY <3>2, Returned
      <4> QED BY <2>2, <4>1 DEF Served
    <3> QED BY <3>1, <3>2
  <2> QED BY <1>5, <2>1, <2>2 DEF Served
<1>6. \A e \in Events : released'[e] >= released[e]
  BY <1>1, <1>2
<1> QED BY <1>1, <1>2, <1>3, <1>5, <1>6, OnceStays

\* Nothing is delivered at the start.
LEMMA OnceInit == Init => Once
<1> SUFFICES ASSUME Init PROVE Once
  OBVIOUS
<1>1. \A e \in Events, h \in Handlers : taken[<<e, h>>] = 0
  BY DEF Init
<1>2. \A e \in Events : released[e] = 0 /\ evicted[e] = 0
  BY DEF Init
<1> SUFFICES ASSUME NEW e \in Events, NEW h \in Handlers
             PROVE  taken[<<e, h>>] <= 1 + released[e] + evicted[e]
                    /\ taken[<<e, h>>] <= released[e] + evicted[e]
  BY DEF Once
<1> QED BY <1>1, <1>2

\* A snapshot starts a delivery that no other is under way with, and each handler
\* is called once in it.
LEMMA OnceStep == Types /\ Claims /\ Once /\ [Next]_vars => Once'
<1> SUFFICES ASSUME Types, Claims, Once, [Next]_vars PROVE Once'
  OBVIOUS
<1>1. ASSUME NEW t \in Threads, pc[t] # "handlers",
             \A u \in Threads \ {t} :
                 pc'[u] = pc[u] /\ event'[u] = event[u] /\ todo'[u] = todo[u],
             UNCHANGED <<taken, released, evicted, processed>>
      PROVE  Once'
  BY <1>1, DeliveriesStay
<1>2. ASSUME UNCHANGED <<pc, event, todo, taken, released, evicted, processed>> PROVE Once'
  BY <1>2, DeliveriesStay
<1>3. ASSUME NEW t \in Threads, NEW e \in Events, Publish(t, e) PROVE Once'
  <2>1. CASE IsDuplicate(e)
    BY <1>2, <1>3, <2>1 DEF Publish, ctl, guard, history
  <2>2. CASE ~IsDuplicate(e)
    <3>1. /\ pc' = [pc EXCEPT ![t] = "claim"] /\ event' = [event EXCEPT ![t] = e]
          /\ pc[t] = "idle" /\ UNCHANGED <<todo, taken, released, evicted, processed>>
      BY <1>3, <2>2 DEF Publish, Goto, guard, history
    <3>2. \A u \in Threads \ {t} :
             pc'[u] = pc[u] /\ event'[u] = event[u] /\ todo'[u] = todo[u]
      BY <3>1 DEF Types
    <3> QED BY <1>1, <3>1, <3>2
  <2> QED BY <2>1, <2>2
<1>4. ASSUME NEW t \in Threads, TryClaim(t) PROVE Once'
  <2>1. pc[t] = "claim" /\ UNCHANGED <<taken, released, evicted, processed>>
    BY <1>4 DEF TryClaim, guard, history
  <2>2. \A u \in Threads \ {t} :
           pc'[u] = pc[u] /\ event'[u] = event[u] /\ todo'[u] = todo[u]
    BY <1>4, Returned DEF TryClaim, Goto, Types
  <2> QED BY <1>1, <2>1, <2>2
<1>5. ASSUME NEW t \in Threads, Persist(t) PROVE Once'
  <2>1. /\ pc[t] = "persist" /\ pc' = [pc EXCEPT ![t] = "snapshot"]
        /\ UNCHANGED <<event, todo, taken, released, evicted, processed>>
    BY <1>5 DEF Persist, Goto, guard, history
  <2> QED BY <1>1, <2>1 DEF Types
<1>6. ASSUME NEW t \in Threads, PersistFails(t) PROVE Once'
  <2>1. pc[t] = "persist" /\ event[t] \in Events /\ UNCHANGED taken
    BY <1>6 DEF PersistFails, Types
  <2>2. CASE failFast
    BY <1>6, <2>1, <2>2, ReleasePays DEF PersistFails
  <2>3. CASE ~failFast
    <3>1. /\ pc' = [pc EXCEPT ![t] = "snapshot"]
          /\ UNCHANGED <<event, todo, released, evicted, processed>>
      BY <1>6, <2>3 DEF PersistFails, Goto, guard
    <3> QED BY <1>1, <2>1, <3>1 DEF Types
  <2> QED BY <2>2, <2>3
<1>7. ASSUME NEW t \in Threads, Snapshot(t) PROVE Once'
  <2>1. /\ pc[t] = "snapshot" /\ pc' = [pc EXCEPT ![t] = "handlers"] /\ event[t] \in Events
        /\ \A u \in Threads \ {t} : todo'[u] = todo[u]
        /\ UNCHANGED <<event, taken, released, evicted, processed>>
    BY <1>7 DEF Snapshot, Goto, guard, Types
  <2> QED BY <1>1, <2>1 DEF Types
<1>8. ASSUME NEW t \in Threads, HandlerReturns(t) PROVE Once'
  <2> DEFINE g == Head(todo[t])
  <2>1. /\ pc[t] = "handlers" /\ todo[t] \in Seq(Handlers) /\ todo[t] # <<>>
        /\ Distinct(todo[t]) /\ event[t] \in Events
        /\ todo' = [todo EXCEPT ![t] = Tail(todo[t])]
        /\ taken' = [taken EXCEPT ![<<event[t], g>>] = @ + 1]
        /\ UNCHANGED <<pc, event, released, evicted, processed>>
    BY <1>8 DEF HandlerReturns, guard, Types
  <2>2. /\ g \in Handlers /\ ToSet(todo[t]) = {g} \cup ToSet(Tail(todo[t]))
        /\ g \notin ToSet(Tail(todo[t]))
    BY <2>1, TailElements
  <2> HIDE DEF g
  <2>3. todo'[t] = Tail(todo[t]) /\ \A u \in Threads \ {t} : todo'[u] = todo[u]
    BY <2>1 DEF Types
  <2>4. ASSUME NEW e \in Events, NEW h \in Handlers, e = event[t], h = g
        PROVE  ~Served(e, h) /\ Served(e, h)'
    <3>1. e \notin ToSet(processed)
      BY <2>1, <2>4 DEF Claims, Working
    <3>2. \A u \in Threads : pc[u] = "handlers" /\ event[u] = e => u = t
      BY <2>1, <2>4 DEF Claims, OneDispatcher, Working
    <3>3. h \in ToSet(todo[t])
      BY <2>2, <2>4
    <3>4. pc'[t] = "handlers" /\ event'[t] = e /\ h \notin ToSet(todo'[t])
      BY <2>1, <2>2, <2>3, <2>4
    <3>5. ~Served(e, h)
      BY <3>1, <3>2, <3>3 DEF Served
    <3>6. Served(e, h)'
      BY <3>4 DEF Served
    <3> QED BY <3>5, <3>6
  <2>6. \A e \in Events, h \in Handlers : Served(e, h) => Served(e, h)'
    <3>1. \A u \in Threads : ToSet(todo'[u]) \subseteq ToSet(todo[u])
      BY <2>2, <2>3
    <3> QED BY <2>1, <3>1 DEF Served
  <2> DEFINE k == <<event[t], g>>
  <2>7. k \in Events \X Handlers /\ taken \in [Events \X Handlers -> Nat]
    BY <2>1, <2>2 DEF Types
  <2>8. taken' = [taken EXCEPT ![k] = @ + 1]
    BY <2>1
  <2>9. \A e \in Events, h \in Handlers : <<e, h>> # k \/ (e = event[t] /\ h = g)
    OBVIOUS
  <2> HIDE DEF k
  <2>10. taken'[k] = taken[k] + 1 /\ \A x \in Events \X Handlers : x # k => taken'[x] = taken[x]
    BY <2>7, <2>8, CountedUp
  <2>11. SUFFICES ASSUME NEW e \in Events, NEW h \in Handlers
                  PROVE  /\ taken'[<<e, h>>] <= 1 + released[e] + evicted[e]
                         /\ ~Served(e, h)' => taken'[<<e, h>>] <= released[e] + evicted[e]
    BY <2>1 DEF Once
  <2>12. taken[<<e, h>>] \in Nat /\ released[e] \in Nat /\ evicted[e] \in Nat
    BY DEF Types
  <2>13. /\ taken[<<e, h>>] <= 1 + released[e] + evicted[e]
         /\ ~Served(e, h) => taken[<<e, h>>] <= released[e] + evicted[e]
    BY DEF Once
  <2>14. CASE <<e, h>> = k
    <3>1. e = event[t] /\ h = g
      BY <2>9, <2>14
    <3>2. ~Served(e, h) /\ Served(e, h)'
      BY <2>4, <3>1
    <3>3. taken'[<<e, h>>] = taken[<<e, h>>] + 1
      BY <2>10, <2>14
    <3> QED BY <2>12, <2>13, <3>2, <3>3
  <2>15. CASE <<e, h>> # k
    <3>1. taken'[<<e, h>>] = taken[<<e, h>>]
      BY <2>10, <2>15
    <3>2. Served(e, h) => Served(e, h)'
      BY <2>6
    <3> QED BY <2>12, <2>13, <3>1, <3>2
  <2> QED BY <2>14, <2>15
<1>9. ASSUME NEW t \in Threads, HandlerRaises(t) PROVE Once'
  <2>1. /\ pc[t] = "handlers" /\ event[t] \in Events /\ todo[t] \in Seq(Handlers)
        /\ todo[t] # <<>> /\ UNCHANGED taken
    BY <1>9 DEF HandlerRaises, Types
  <2>2. CASE failFast
    BY <1>9, <2>1, <2>2, ReleasePays DEF HandlerRaises
  <2>3. CASE ~failFast
    <3>1. /\ todo' = [todo EXCEPT ![t] = Tail(todo[t])]
          /\ UNCHANGED <<pc, event, processed, released, evicted>>
      BY <1>9, <2>3 DEF HandlerRaises, guard
    <3>2. ToSet(Tail(todo[t])) \subseteq ToSet(todo[t])
      BY <2>1, TailElements
    <3>3. \A u \in Threads : ToSet(todo'[u]) \subseteq ToSet(todo[u])
      BY <3>1, <3>2 DEF Types
    <3> QED BY <2>1, <3>1, <3>3, DeliveriesStay
  <2> QED BY <2>2, <2>3
<1>10. ASSUME NEW t \in Threads, Settle(t) PROVE Once'
  <2>1. event[t] \in Events /\ Return(t) /\ UNCHANGED taken
    BY <1>10 DEF Settle, Types
  <2> QED BY <1>10, <2>1, ReleasePays, CommitPays DEF Settle
<1>11. ASSUME NEW h \in Handlers, Subscribe(h) \/ Unsubscribe(h) PROVE Once'
  BY <1>2, <1>11 DEF Subscribe, Unsubscribe, ctl, guard, history
<1>12. CASE SetReplayMode \/ SetHookReplayMode \/ Flush \/ UNCHANGED vars
  BY <1>2, <1>12 DEF SetReplayMode, SetHookReplayMode, Flush, vars, ctl, guard, history
<1> QED
  BY <1>3, <1>4, <1>5, <1>6, <1>7, <1>8, <1>9, <1>10, <1>11, <1>12 DEF Next
-----------------------------------------------------------------------------
\* The log has the event, or its absence is on record.
OnRecord(e) == e \in disk \cup buffer \/ <<e, Log>> \in ToSet(dlq) \/ dropped > 0

\* While no replay has muted the log, what is past the persistence hook and what a
\* handler has had is on record.
Logged ==
    /\ replays \in Nat
    /\ replays = 0 =>
           /\ replayMode = FALSE /\ muted = FALSE
           /\ \A t \in Threads : pc[t] \in {"snapshot", "handlers"} => OnRecord(event[t])
           /\ \A e \in Events, h \in Handlers : taken[<<e, h>>] > 0 => OnRecord(e)

\* Nothing leaves the log, and the queue counts what it loses.
LEMMA StaysOnRecord ==
    ASSUME disk \cup buffer \subseteq disk' \cup buffer',
           dropped' > 0 \/ (ToSet(dlq) \subseteq ToSet(dlq') /\ dropped' = dropped)
    PROVE  \A e : OnRecord(e) => OnRecord(e)'
  BY DEF OnRecord

\* A step that keeps what is on record, and neither passes the hook nor calls a
\* handler, keeps it.
LEMMA LoggedStays ==
    ASSUME Logged, UNCHANGED <<replays, replayMode, muted, taken>>,
           \A e : OnRecord(e) => OnRecord(e)',
           \A t \in Threads : pc'[t] \in {"snapshot", "handlers"} =>
               pc[t] \in {"snapshot", "handlers"} /\ event'[t] = event[t]
    PROVE  Logged'
  BY DEF Logged

\* A dead letter is on record, and the letters before it stay so.
LEMMA PushedOnRecord ==
    ASSUME Types, NEW l \in Letters, Push(l), UNCHANGED <<disk, buffer>>
    PROVE  \A e : OnRecord(e) \/ l = <<e, Log>> => OnRecord(e)'
<1>1. /\ dropped \in Nat /\ dropped' \in Nat /\ dropped' >= dropped /\ l \in ToSet(dlq')
      /\ dropped' > 0 \/ ToSet(dlq) \subseteq ToSet(dlq')
  BY Pushed DEF Types
<1>2. dropped > 0 => dropped' > 0
  BY <1>1
<1> QED BY <1>1, <1>2 DEF OnRecord

\* Nothing has been published at the start.
LEMMA LoggedInit == Init => Logged
<1> SUFFICES ASSUME Init PROVE Logged
  OBVIOUS
<1>1. \A t \in Threads : pc[t] = "idle"
  BY DEF Init
<1>2. ASSUME NEW e \in Events, NEW h \in Handlers PROVE ~(taken[<<e, h>>] > 0)
  <2>1. taken[<<e, h>>] = 0
    BY DEF Init
  <2> QED BY <2>1
<1>3. replays = 0 /\ replayMode = FALSE /\ muted = FALSE
  BY DEF Init
<1> QED BY <1>1, <1>2, <1>3 DEF Logged

\* The hook is what brings a publication to its handlers, and nothing mutes the
\* log before the first replay.
LEMMA LoggedStep == Types /\ Logged /\ [Next]_vars => Logged'
<1> SUFFICES ASSUME Types, Logged, [Next]_vars PROVE Logged'
  OBVIOUS
<1> USE DEF mode, log, letters
<1>1. ASSUME UNCHANGED <<disk, buffer, dlq, dropped>> PROVE \A e : OnRecord(e) => OnRecord(e)'
  BY <1>1 DEF OnRecord
<1>2. ASSUME UNCHANGED <<pc, event, replays, replayMode, muted, taken>>,
             \A e : OnRecord(e) => OnRecord(e)'
      PROVE  Logged'
  BY <1>2, LoggedStays
<1>3. ASSUME NEW t \in Threads, NEW e \in Events, Publish(t, e) PROVE Logged'
  <2>1. \A u \in Threads : pc'[u] \in {"snapshot", "handlers"} =>
           pc[u] \in {"snapshot", "handlers"} /\ event'[u] = event[u]
    BY <1>3 DEF Publish, Goto, ctl, Types
  <2>2. UNCHANGED <<replays, replayMode, muted, taken, disk, buffer, dlq, dropped>>
    BY <1>3 DEF Publish, history
  <2> QED BY <1>1, <2>1, <2>2, LoggedStays
<1>4. ASSUME NEW t \in Threads, TryClaim(t) PROVE Logged'
  <2>1. \A u \in Threads : pc'[u] \in {"snapshot", "handlers"} =>
           pc[u] \in {"snapshot", "handlers"} /\ event'[u] = event[u]
    BY <1>4, Returned DEF TryClaim, Goto, Types
  <2>2. UNCHANGED <<replays, replayMode, muted, taken, disk, buffer, dlq, dropped>>
    BY <1>4 DEF TryClaim, history
  <2> QED BY <1>1, <2>1, <2>2, LoggedStays
<1>5. ASSUME NEW t \in Threads, Persist(t) PROVE Logged'
  <2>1. /\ pc' = [pc EXCEPT ![t] = "snapshot"]
        /\ UNCHANGED <<event, replays, replayMode, muted, taken, dlq, dropped>>
    BY <1>5 DEF Persist, Goto, history
  <2>2. disk \cup buffer \subseteq disk' \cup buffer'
    BY <1>5 DEF Persist
  <2>3. \A e : OnRecord(e) => OnRecord(e)'
    BY <2>1, <2>2 DEF OnRecord
  <2>4. ~muted => event[t] \in disk' \cup buffer'
    BY <1>5 DEF Persist
  <2>5. ~muted => OnRecord(event[t])'
    BY <2>1, <2>4 DEF OnRecord
  <2>6. \A u \in Threads \ {t} : pc'[u] = pc[u]
    BY <2>1 DEF Types
  <2> QED BY <2>1, <2>3, <2>5, <2>6 DEF Logged
<1>6. ASSUME NEW t \in Threads, PersistFails(t) PROVE Logged'
  <2>1. /\ event[t] \in Events /\ <<event[t], Log>> \in Letters /\ Push(<<event[t], Log>>)
        /\ UNCHANGED <<replays, replayMode, muted, taken, disk, buffer>>
    BY <1>6 DEF PersistFails, Types, Letters
  <2>2. \A e : OnRecord(e) => OnRecord(e)'
    BY <2>1, PushedOnRecord
  <2>3. CASE failFast
    <3>1. Return(t)
      BY <1>6, <2>3 DEF PersistFails
    <3>2. \A u \in Threads : pc'[u] \in {"snapshot", "handlers"} =>
             pc[u] \in {"snapshot", "handlers"} /\ event'[u] = event[u]
      BY <3>1, Returned
    <3> QED BY <2>1, <2>2, <3>2, LoggedStays
  <2>4. CASE ~failFast
    <3>1. pc' = [pc EXCEPT ![t] = "snapshot"] /\ event' = event
      BY <1>6, <2>4 DEF PersistFails, Goto
    <3>2. OnRecord(event[t])'
      BY <2>1, <3>1, PushedOnRecord
    <3>3. \A u \in Threads \ {t} : pc'[u] = pc[u]
      BY <3>1 DEF Types
    <3> QED BY <2>1, <2>2, <3>1, <3>2, <3>3 DEF Logged
  <2> QED BY <2>3, <2>4
<1>7. ASSUME NEW t \in Threads, Snapshot(t) PROVE Logged'
  <2>1. \A u \in Threads : pc'[u] \in {"snapshot", "handlers"} =>
           pc[u] \in {"snapshot", "handlers"} /\ event'[u] = event[u]
    BY <1>7 DEF Snapshot, Goto, Types
  <2>2. UNCHANGED <<replays, replayMode, muted, taken, disk, buffer, dlq, dropped>>
    BY <1>7 DEF Snapshot
  <2> QED BY <1>1, <2>1, <2>2, LoggedStays
<1>8. ASSUME NEW t \in Threads, HandlerReturns(t) PROVE Logged'
  <2> DEFINE k == <<event[t], Head(todo[t])>>
  <2>1. /\ pc[t] = "handlers" /\ event[t] \in Events /\ Head(todo[t]) \in Handlers
        /\ taken' = [taken EXCEPT ![k] = @ + 1]
        /\ UNCHANGED <<pc, event, replays, replayMode, muted, disk, buffer, dlq, dropped>>
    BY <1>8, TailElements DEF HandlerReturns, Types
  <2>2. k \in Events \X Handlers /\ taken \in [Events \X Handlers -> Nat]
    BY <2>1 DEF Types
  <2>3. \A e \in Events, h \in Handlers : <<e, h>> # k \/ e = event[t]
    OBVIOUS
  <2> HIDE DEF k
  <2>4. \A x \in Events \X Handlers : x # k => taken'[x] = taken[x]
    BY <2>1, <2>2, CountedUp
  <2>5. \A e \in Events, h \in Handlers : e # event[t] => taken'[<<e, h>>] = taken[<<e, h>>]
    BY <2>3, <2>4
  <2>6. \A e : OnRecord(e) => OnRecord(e)'
    BY <1>1, <2>1
  <2> QED BY <2>1, <2>5, <2>6 DEF Logged
<1>9. ASSUME NEW t \in Threads, HandlerRaises(t) PROVE Logged'
  <2>1. /\ pc[t] = "handlers" /\ event[t] \in Events /\ Head(todo[t]) \in Handlers
        /\ <<event[t], Head(todo[t])>> \in Letters /\ Push(<<event[t], Head(todo[t])>>)
        /\ UNCHANGED <<replays, replayMode, muted, taken, disk, buffer>>
    BY <1>9, TailElements DEF HandlerRaises, Types, Letters
  <2>2. \A e : OnRecord(e) => OnRecord(e)'
    BY <2>1, PushedOnRecord
  <2>3. Return(t) \/ UNCHANGED <<pc, event>>
    BY <1>9 DEF HandlerRaises
  <2>4. \A u \in Threads : pc'[u] \in {"snapshot", "handlers"} =>
           pc[u] \in {"snapshot", "handlers"} /\ event'[u] = event[u]
    BY <2>3, Returned
  <2> QED BY <2>1, <2>2, <2>4, LoggedStays
<1>10. ASSUME NEW t \in Threads, Settle(t) PROVE Logged'
  <2>1. /\ Return(t)
        /\ UNCHANGED <<replays, replayMode, muted, taken, disk, buffer, dlq, dropped>>
    BY <1>10 DEF Settle
  <2>2. \A u \in Threads : pc'[u] \in {"snapshot", "handlers"} =>
           pc[u] \in {"snapshot", "handlers"} /\ event'[u] = event[u]
    BY <2>1, Returned
  <2> QED BY <1>1, <2>1, <2>2, LoggedStays
<1>11. ASSUME NEW h \in Handlers, Subscribe(h) \/ Unsubscribe(h) PROVE Logged'
  BY <1>1, <1>2, <1>11 DEF Subscribe, Unsubscribe, ctl, history
<1>12. CASE SetReplayMode
  <2>1. replays' \in Nat /\ replays' # 0
    BY <1>12 DEF SetReplayMode, Logged
  <2> QED BY <2>1 DEF Logged
<1>13. CASE SetHookReplayMode
  <2>1. replays' = replays /\ muted # replayMode
    BY <1>13 DEF SetHookReplayMode
  <2>2. replays # 0
    BY <2>1 DEF Logged
  <2> QED BY <2>1, <2>2 DEF Logged
<1>14. CASE Flush
  <2>1. /\ disk' \cup buffer' = disk \cup buffer
        /\ UNCHANGED <<pc, event, replays, replayMode, muted, taken, dlq, dropped>>
    BY <1>14 DEF Flush, ctl, history
  <2>2. \A e : OnRecord(e) => OnRecord(e)'
    BY <2>1 DEF OnRecord
  <2> QED BY <1>2, <2>1, <2>2
<1>15. CASE UNCHANGED vars
  BY <1>1, <1>2, <1>15 DEF vars, ctl, history
<1> QED
  BY <1>3, <1>4, <1>5, <1>6, <1>7, <1>8, <1>9, <1>10, <1>11, <1>12, <1>13, <1>14, <1>15
  DEF Next

-----------------------------------------------------------------------------
\* The inductive invariant of publish.
Inv == Types /\ Claims /\ Taken /\ Once /\ Logged

\* Every reachable state satisfies it.
LEMMA Invariance == Spec => []Inv
<1>1. Init => Inv
  BY TypesInit, ClaimsInit, TakenInit, OnceInit, LoggedInit DEF Inv
<1>2. Inv /\ [Next]_vars => Inv'
  BY TypesStep, ClaimsStep, TakenStep, OnceStep, LoggedStep DEF Inv
<1> QED BY <1>1, <1>2, PTL DEF Spec

\* EventIdempotencyGuard.try_claim: two publications never deliver one event at
\* the same time, and the claims are those of the publications under way.
THEOREM OneDispatcherAlways == Spec => []OneDispatcher
<1>1. Inv => OneDispatcher
  BY DEF Inv, Claims
<1> QED BY <1>1, Invariance, PTL

\* EventIdempotencyGuard.commit: an event the guard refuses as processed has
\* reached every handler that was subscribed when it was dispatched.
THEOREM ProcessedWasTakenAlways == Spec => []ProcessedWasTaken
<1>1. Inv => ProcessedWasTaken
  BY DEF Inv, Taken
<1> QED BY <1>1, Invariance, PTL

\* EventBus.publish: a handler gets an event again only after a release that a
\* failure caused, or after the bounded window forgot the event.
THEOREM DeliveredOnceAlways == Spec => []DeliveredOnce
<1>1. Inv => DeliveredOnce
  BY DEF Inv, Once, DeliveredOnce
<1> QED BY <1>1, Invariance, PTL

\* EventPersistenceHook.persist before EventDispatchHook.dispatch: what a handler
\* has seen is in the log, or its absence from the log is on record.
THEOREM LoggedBeforeTakenAlways == Spec => []LoggedBeforeTaken
<1>1. Inv => LoggedBeforeTaken
  BY DEF Inv, Logged, LoggedBeforeTaken, OnRecord
<1> QED BY <1>1, Invariance, PTL

-----------------------------------------------------------------------------
\* The failures that no later delivery made good and no letter in the queue tells of.
Unrecorded == failing \ ToSet(dlq)

\* There are finitely many, no more than letters were lost.
Lost == IsFiniteSet(Unrecorded) /\ Cardinality(Unrecorded) <= dropped

\* A letter that is pushed replaces the oldest one, which is counted, or none.
LEMMA OldestIsCounted ==
    ASSUME Types, NEW l \in Letters, Push(l)
    PROVE  /\ l \in ToSet(dlq')
           /\ \/ dropped' = dropped /\ ToSet(dlq) \subseteq ToSet(dlq')
              \/ /\ dropped' = dropped + 1
                 /\ ToSet(dlq) \subseteq ToSet(dlq') \cup {Head(dlq)}
<1>1. l \in ToSet(dlq')
  BY Pushed DEF Types
<1>2. CASE Len(dlq) = DlqMax
  <2>1. dlq # <<>>
    BY <1>2, EmptySeq, BusAssumption
  <2> DEFINE w == Tail(dlq)
  <2>2. w \in Seq(Letters) /\ ToSet(dlq) = {Head(dlq)} \cup ToSet(w)
    BY <2>1, TailElements DEF Types
  <2>3. dlq' = Append(w, l) /\ dropped' = dropped + 1
    BY <1>2 DEF Push
  <2> HIDE DEF w
  <2>4. ToSet(Append(w, l)) = ToSet(w) \cup {l}
    BY <2>2, AppendElements
  <2> QED BY <1>1, <2>2, <2>3, <2>4
<1>3. CASE Len(dlq) # DlqMax
  <2>1. ToSet(Append(dlq, l)) = ToSet(dlq) \cup {l}
    <3>1. dlq \in Seq(Letters)
      BY DEF Types
    <3> QED BY <3>1, AppendElements
  <2>2. dlq' = Append(dlq, l) /\ dropped' = dropped
    BY <1>3 DEF Push
  <2> QED BY <1>1, <2>1, <2>2
<1> QED BY <1>2, <1>3

\* A step that records no failure less and counts nothing less.
LEMMA LostShrinks ==
    ASSUME Types, Lost, Unrecorded' \subseteq Unrecorded, dropped' = dropped
    PROVE  Lost'
<1> DEFINE U == Unrecorded
           V == Unrecorded'
<1>1. IsFiniteSet(U) /\ V \subseteq U /\ Cardinality(U) <= dropped /\ dropped \in Nat
  BY DEF Lost, Types
<1> HIDE DEF U, V
<1>2. IsFiniteSet(V) /\ Cardinality(V) <= Cardinality(U)
  BY <1>1, FS_Subset
<1>3. Cardinality(V) \in Nat /\ Cardinality(U) \in Nat
  BY <1>1, <1>2, FS_CardinalityType
<1>4. IsFiniteSet(V) /\ Cardinality(V) <= dropped'
  BY <1>1, <1>2, <1>3
<1> QED BY <1>4 DEF Lost, V

\* A failure that is recorded at the cost of the oldest letter.
LEMMA LostCounts ==
    ASSUME Types, Lost, NEW x, Unrecorded' \subseteq Unrecorded \cup {x},
           dropped' = dropped + 1
    PROVE  Lost'
<1> DEFINE U == Unrecorded
           V == Unrecorded'
<1>1. /\ IsFiniteSet(U) /\ V \subseteq U \cup {x}
      /\ Cardinality(U) <= dropped /\ dropped \in Nat
  BY DEF Lost, Types
<1> HIDE DEF U, V
<1>2. /\ IsFiniteSet(U \cup {x}) /\ Cardinality(U) \in Nat
      /\ Cardinality(U \cup {x}) = IF x \in U THEN Cardinality(U) ELSE Cardinality(U) + 1
  BY <1>1, FS_AddElement, FS_CardinalityType
<1>3. IsFiniteSet(V) /\ Cardinality(V) <= Cardinality(U \cup {x})
  BY <1>1, <1>2, FS_Subset
<1>4. Cardinality(V) \in Nat
  BY <1>3, FS_CardinalityType
<1>5. IsFiniteSet(V) /\ Cardinality(V) <= dropped'
  BY <1>1, <1>2, <1>3, <1>4
<1> QED BY <1>5 DEF Lost, V

\* The handler's own failure is in the letter that is pushed for it.
LEMMA LostPushed ==
    ASSUME Types, Lost, NEW l \in Letters, Push(l), failing' \subseteq failing \cup {l}
    PROVE  Lost'
<1>1. l \in ToSet(dlq')
  BY OldestIsCounted
<1>2. CASE dropped' = dropped /\ ToSet(dlq) \subseteq ToSet(dlq')
  <2>1. Unrecorded' \subseteq Unrecorded
    BY <1>1, <1>2 DEF Unrecorded
  <2> QED BY <1>2, <2>1, LostShrinks
<1>3. CASE /\ dropped' = dropped + 1
           /\ ToSet(dlq) \subseteq ToSet(dlq') \cup {Head(dlq)}
  <2>1. Unrecorded' \subseteq Unrecorded \cup {Head(dlq)}
    BY <1>1, <1>3 DEF Unrecorded
  <2> QED BY <1>3, <2>1, LostCounts
<1> QED BY <1>2, <1>3, OldestIsCounted

\* Only the two failures push a letter, and only one of them is a handler's.
LEMMA LostStep == Types /\ Lost /\ [Next]_vars => Lost'
<1> SUFFICES ASSUME Types, Lost, [Next]_vars PROVE Lost'
  OBVIOUS
<1> USE DEF letters, history
<1>1. ASSUME failing' \subseteq failing, UNCHANGED letters PROVE Lost'
  <2>1. Unrecorded' \subseteq Unrecorded /\ dropped' = dropped
    BY <1>1 DEF Unrecorded
  <2> QED BY <2>1, LostShrinks
<1>2. ASSUME NEW t \in Threads, PersistFails(t) PROVE Lost'
  <2>1. /\ <<event[t], Log>> \in Letters /\ Push(<<event[t], Log>>) /\ failing' = failing
    BY <1>2 DEF PersistFails, Types, Letters
  <2> QED BY <2>1, LostPushed
<1>3. ASSUME NEW t \in Threads, HandlerRaises(t) PROVE Lost'
  <2> DEFINE l == <<event[t], Head(todo[t])>>
  <2>1. /\ event[t] \in Events /\ Head(todo[t]) \in Handlers
        /\ Push(l) /\ failing' = failing \cup {l}
    BY <1>3, TailElements DEF HandlerRaises, Types
  <2>2. l \in Letters
    BY <2>1 DEF Letters
  <2> HIDE DEF l
  <2> QED BY <2>1, <2>2, LostPushed
<1>4. ASSUME NEW t \in Threads, HandlerReturns(t) PROVE Lost'
  <2>1. failing' \subseteq failing /\ UNCHANGED letters
    BY <1>4 DEF HandlerReturns
  <2> QED BY <1>1, <2>1
<1>5. ASSUME NEW t \in Threads, NEW e \in Events, Publish(t, e) PROVE Lost'
  BY <1>1, <1>5 DEF Publish
<1>6. ASSUME NEW t \in Threads, TryClaim(t) \/ Persist(t) \/ Snapshot(t) \/ Settle(t)
      PROVE  Lost'
  BY <1>1, <1>6 DEF TryClaim, Persist, Snapshot, Settle
<1>7. ASSUME NEW h \in Handlers, Subscribe(h) \/ Unsubscribe(h) PROVE Lost'
  BY <1>1, <1>7 DEF Subscribe, Unsubscribe
<1>8. CASE SetReplayMode \/ SetHookReplayMode \/ Flush
  BY <1>1, <1>8 DEF SetReplayMode, SetHookReplayMode, Flush
<1>9. CASE UNCHANGED vars
  BY <1>1, <1>9 DEF vars
<1> QED BY <1>2, <1>3, <1>4, <1>5, <1>6, <1>7, <1>8, <1>9 DEF Next

\* DeadLetterQueue.push, EventDispatchHook.handle_failure: as many failures are
\* without a letter as letters were counted as lost, at most.
THEOREM FailuresOnRecordAlways == Spec => []FailuresOnRecord
<1>1. Init => Lost
  <2>1. ASSUME Init PROVE Unrecorded = {} /\ dropped = 0
    BY <2>1 DEF Init, Unrecorded
  <2>2. IsFiniteSet({}) /\ Cardinality({}) = 0
    BY FS_EmptySet
  <2> QED BY <2>1, <2>2 DEF Lost
<1>2. Inv /\ Lost /\ [Next]_vars => Lost'
  BY LostStep DEF Inv
<1>3. Lost => FailuresOnRecord
  BY DEF Lost, Unrecorded, FailuresOnRecord
<1> QED BY <1>1, <1>2, <1>3, Invariance, PTL DEF Spec

-----------------------------------------------------------------------------
\* The other half of the types: flags, bounds, and what grows with a publication.
Flags ==
    /\ failFast \in BOOLEAN /\ replayMode \in BOOLEAN /\ muted \in BOOLEAN
    /\ replays \in 0 .. MaxReplays
    /\ published \in 0 .. MaxPublishes /\ changes \in 0 .. MaxChanges

Stored ==
    /\ buffer \subseteq Events /\ disk \subseteq Events
    /\ failing \subseteq Events \X Handlers

\* The window has no id twice, and the queue of letters keeps to its size.
Bounded == Distinct(processed) /\ Len(dlq) <= DlqMax

\* A publication fails on as many handlers as it has called, at most.
Budget ==
    \A t \in Threads :
        /\ failures[t] + Len(todo[t]) <= Cardinality(Handlers)
        /\ pc[t] # "handlers" => failures[t] = 0

\* A sequence without repetition is no longer than its carrier is large.
LEMMA DistinctLength ==
    ASSUME NEW S, IsFiniteSet(S), NEW s \in Seq(S), Distinct(s)
    PROVE  Len(s) <= Cardinality(S)
<1>1. Len(s) \in Nat /\ DOMAIN s = 1 .. Len(s) /\ \A i \in 1 .. Len(s) : s[i] \in S
  BY LenProperties, ElementOfSeq
<1>2. IsFiniteSet(1 .. Len(s)) /\ Cardinality(1 .. Len(s)) = Len(s)
  <2>1. \A n \in Nat : IsFiniteSet(1 .. n) /\ Cardinality(1 .. n) = n
    BY FS_Interval
  <2> QED BY <1>1, <2>1
<1>3. s \in Injection(1 .. Len(s), S)
  <2>1. s \in [1 .. Len(s) -> S]
    BY <1>1
  <2> QED BY <2>1 DEF Injection, Distinct, IsInjective
<1> QED BY <1>2, <1>3, FS_Injection

\* What the actions leave of the flags and the stores.
LEMMA FlagsStep == Flags /\ [Next]_vars => Flags'
<1> SUFFICES ASSUME Flags, [Next]_vars PROVE Flags'
  OBVIOUS
<1> USE DEF ctl, subs, mode, Flags
<1>0. MaxReplays \in Nat /\ MaxPublishes \in Nat /\ MaxChanges \in Nat
  BY BusAssumption
<1>1. ASSUME NEW t \in Threads, NEW e \in Events, Publish(t, e) PROVE Flags'
  BY <1>0, <1>1 DEF Publish
<1>2. ASSUME NEW t \in Threads, TryClaim(t) PROVE Flags'
  BY <1>2 DEF TryClaim, Return
<1>3. ASSUME NEW t \in Threads, Persist(t) \/ Snapshot(t) \/ HandlerReturns(t) PROVE Flags'
  BY <1>3 DEF Persist, Snapshot, HandlerReturns
<1>4. ASSUME NEW t \in Threads, PersistFails(t) \/ HandlerRaises(t) \/ Settle(t) PROVE Flags'
  BY <1>4 DEF PersistFails, HandlerRaises, Settle, Return
<1>5. ASSUME NEW h \in Handlers, Subscribe(h) \/ Unsubscribe(h) PROVE Flags'
  BY <1>0, <1>5 DEF Subscribe, Unsubscribe
<1>6. CASE SetReplayMode
  <2>1. replayMode' \in BOOLEAN
    BY <1>6, Zenon DEF SetReplayMode
  <2>2. replays' \in 0 .. MaxReplays
    BY <1>0, <1>6 DEF SetReplayMode
  <2> QED BY <1>6, <2>1, <2>2 DEF SetReplayMode
<1>7. CASE SetHookReplayMode \/ Flush
  BY <1>7 DEF SetHookReplayMode, Flush
<1>8. CASE UNCHANGED vars
  BY <1>8 DEF vars
<1> QED BY <1>1, <1>2, <1>3, <1>4, <1>5, <1>6, <1>7, <1>8 DEF Next

\* Every step keeps the types of what is stored.
LEMMA StoredStep == Types /\ Stored /\ [Next]_vars => Stored'
<1> SUFFICES ASSUME Types, Stored, [Next]_vars PROVE Stored'
  OBVIOUS
<1> USE DEF log, history, Stored
<1>1. ASSUME NEW t \in Threads, NEW e \in Events, Publish(t, e) PROVE Stored'
  BY <1>1 DEF Publish
<1>2. ASSUME NEW t \in Threads, TryClaim(t) \/ Snapshot(t) \/ Settle(t) PROVE Stored'
  BY <1>2 DEF TryClaim, Snapshot, Settle
<1>3. ASSUME NEW t \in Threads, Persist(t) PROVE Stored'
  <2>1. event[t] \in Events
    BY <1>3 DEF Persist, Types
  <2> QED BY <1>3, <2>1 DEF Persist
<1>4. ASSUME NEW t \in Threads, PersistFails(t) PROVE Stored'
  BY <1>4 DEF PersistFails
<1>5. ASSUME NEW t \in Threads, HandlerReturns(t) PROVE Stored'
  BY <1>5 DEF HandlerReturns
<1>6. ASSUME NEW t \in Threads, HandlerRaises(t) PROVE Stored'
  <2>1. event[t] \in Events /\ Head(todo[t]) \in Handlers
    BY <1>6, TailElements DEF HandlerRaises, Types
  <2> QED BY <1>6, <2>1 DEF HandlerRaises
<1>7. ASSUME NEW h \in Handlers, Subscribe(h) \/ Unsubscribe(h) PROVE Stored'
  BY <1>7 DEF Subscribe, Unsubscribe
<1>8. CASE SetReplayMode \/ SetHookReplayMode \/ Flush
  BY <1>8 DEF SetReplayMode, SetHookReplayMode, Flush
<1>9. CASE UNCHANGED vars
  BY <1>9 DEF vars
<1> QED BY <1>1, <1>2, <1>3, <1>4, <1>5, <1>6, <1>7, <1>8, <1>9 DEF Next

\* commit: the id that makes the window full pushes the oldest one out.
LEMMA RememberedDistinct ==
    ASSUME processed \in Seq(Events), Distinct(processed), NEW e \in Events
    PROVE  Distinct(Remembered(e))
<1> DEFINE w == Append(processed, e)
<1>1. CASE e \in ToSet(processed)
  BY <1>1 DEF Remembered
<1>2. CASE e \notin ToSet(processed)
  <2>1. w \in Seq(Events) /\ w # <<>> /\ Distinct(w)
    BY <1>2, AppendElements
  <2> HIDE DEF w
  <2>2. Distinct(Tail(w))
    BY <2>1, TailElements
  <2>3. Remembered(e) \in {w, Tail(w)}
    BY <1>2 DEF Remembered, w
  <2> QED BY <2>1, <2>2, <2>3
<1> QED BY <1>1, <1>2

\* A letter that would be one too many takes the place of the oldest.
LEMMA PushedLength ==
    ASSUME dlq \in Seq(Letters), Len(dlq) <= DlqMax, NEW l \in Letters, Push(l)
    PROVE  Len(dlq') <= DlqMax
<1>1. CASE Len(dlq) = DlqMax
  <2>1. dlq # <<>>
    BY <1>1, EmptySeq, BusAssumption
  <2>2. Tail(dlq) \in Seq(Letters) /\ Len(Tail(dlq)) = Len(dlq) - 1
    BY <2>1, HeadTailProperties
  <2> DEFINE w == Tail(dlq)
  <2>3. dlq' = Append(w, l)
    BY <1>1 DEF Push
  <2>4. w \in Seq(Letters) /\ Len(w) = DlqMax - 1
    BY <1>1, <2>2
  <2> HIDE DEF w
  <2>5. Len(Append(w, l)) = Len(w) + 1
    BY <2>4, AppendElements
  <2> QED BY <2>3, <2>4, <2>5, BusAssumption
<1>2. CASE Len(dlq) # DlqMax
  <2>1. Len(Append(dlq, l)) = Len(dlq) + 1
    BY AppendElements
  <2>2. dlq' = Append(dlq, l) /\ Len(dlq) \in Nat
    BY <1>2, LenProperties DEF Push
  <2> QED BY <1>2, <2>1, <2>2, BusAssumption
<1> QED BY <1>1, <1>2

\* Every step keeps the bounds of the window and of the letters.
LEMMA BoundedStep == Types /\ Bounded /\ [Next]_vars => Bounded'
<1> SUFFICES ASSUME Types, Bounded, [Next]_vars PROVE Bounded'
  OBVIOUS
<1> USE DEF guard, letters
<1>1. ASSUME UNCHANGED <<processed, dlq>> PROVE Bounded'
  BY <1>1 DEF Bounded
<1>2. ASSUME NEW t \in Threads, NEW e \in Events, Publish(t, e) PROVE Bounded'
  BY <1>1, <1>2 DEF Publish
<1>3. ASSUME NEW t \in Threads, TryClaim(t) \/ Persist(t) \/ Snapshot(t) \/ HandlerReturns(t)
      PROVE  Bounded'
  BY <1>1, <1>3 DEF TryClaim, Persist, Snapshot, HandlerReturns
<1>4. ASSUME NEW t \in Threads, PersistFails(t) \/ HandlerRaises(t) PROVE Bounded'
  <2>1. \E l \in Letters : Push(l)
    <3>1. event[t] \in Events
      BY <1>4 DEF PersistFails, HandlerRaises, Types
    <3>2. CASE PersistFails(t)
      <4>1. <<event[t], Log>> \in Letters
        BY <3>1 DEF Letters
      <4> QED BY <3>2, <4>1 DEF PersistFails
    <3>3. CASE HandlerRaises(t)
      <4>1. Head(todo[t]) \in Handlers
        BY <3>3, TailElements DEF HandlerRaises, Types
      <4>2. <<event[t], Head(todo[t])>> \in Letters
        BY <3>1, <4>1 DEF Letters
      <4> QED BY <3>3, <4>2 DEF HandlerRaises
    <3> QED BY <1>4, <3>2, <3>3
  <2>2. Len(dlq') <= DlqMax
    BY <2>1, PushedLength DEF Types, Bounded
  <2>3. UNCHANGED processed
    BY <1>4 DEF PersistFails, HandlerRaises, Release
  <2> QED BY <2>2, <2>3 DEF Bounded
<1>5. ASSUME NEW t \in Threads, Settle(t) PROVE Bounded'
  <2>1. event[t] \in Events /\ dlq' = dlq
    BY <1>5 DEF Settle, Types
  <2>2. processed' = processed \/ processed' = Remembered(event[t])
    BY <1>5 DEF Settle, Release, Commit
  <2>3. Distinct(Remembered(event[t]))
    BY <2>1, RememberedDistinct DEF Types, Bounded
  <2> QED BY <2>1, <2>2, <2>3 DEF Bounded
<1>6. ASSUME NEW h \in Handlers, Subscribe(h) \/ Unsubscribe(h) PROVE Bounded'
  BY <1>1, <1>6 DEF Subscribe, Unsubscribe
<1>7. CASE SetReplayMode \/ SetHookReplayMode \/ Flush
  BY <1>1, <1>7 DEF SetReplayMode, SetHookReplayMode, Flush
<1>8. CASE UNCHANGED vars
  BY <1>1, <1>8 DEF vars
<1> QED BY <1>2, <1>3, <1>4, <1>5, <1>6, <1>7, <1>8 DEF Next

\* A subscription list is no longer than there are handlers, and a snapshot of it.
LEMMA BudgetStep == Types /\ Budget /\ [Next]_vars => Budget'
<1> SUFFICES ASSUME Types, Budget, [Next]_vars PROVE Budget'
  OBVIOUS
<1> DEFINE N == Cardinality(Handlers)
           Keeps(u) == pc'[u] = pc[u] /\ todo'[u] = todo[u] /\ failures'[u] = failures[u]
           Fits(u) == /\ failures'[u] + Len(todo'[u]) <= N
                      /\ pc'[u] # "handlers" => failures'[u] = 0
<1>0. /\ IsFiniteSet(Handlers) /\ N \in Nat
      /\ \A u \in Threads : failures[u] \in Nat /\ Len(todo[u]) \in Nat
      /\ \A u \in Threads : failures[u] + Len(todo[u]) <= N
      /\ \A u \in Threads : pc[u] # "handlers" => failures[u] = 0
  BY BusAssumption, FS_CardinalityType, LenProperties DEF Types, Budget
<1>1. (\A u \in Threads : Fits(u)) => Budget'
  BY DEF Budget
<1>2. \A u \in Threads : Keeps(u) => Fits(u)
  BY <1>0
<1>3. Len(<<>>) = 0
  OBVIOUS
<1>4. ASSUME NEW t \in Threads, Return(t) PROVE \A u \in Threads : Fits(u)
  <2>1. todo' = [todo EXCEPT ![t] = <<>>] /\ failures' = [failures EXCEPT ![t] = 0]
    BY <1>4 DEF Return
  <2>2. todo'[t] = <<>> /\ failures'[t] = 0
    BY <2>1 DEF Types
  <2>3. Fits(t)
    BY <1>0, <1>3, <2>2
  <2>4. \A u \in Threads \ {t} : Keeps(u)
    BY <1>4, Returned
  <2> QED BY <1>2, <2>3, <2>4
<1> HIDE DEF N
<1>5. ASSUME NEW t \in Threads, NEW e \in Events, Publish(t, e) PROVE \A u \in Threads : Fits(u)
  <2>1. \A u \in Threads \ {t} : Keeps(u)
    BY <1>5 DEF Publish, Goto, ctl, Types
  <2>2. todo'[t] = todo[t] /\ failures'[t] = failures[t] /\ pc[t] = "idle"
    BY <1>5 DEF Publish, ctl
  <2>3. Fits(t)
    BY <1>0, <2>2
  <2> QED BY <1>2, <2>1, <2>3
<1>6. ASSUME NEW t \in Threads, TryClaim(t) PROVE \A u \in Threads : Fits(u)
  <2>1. CASE Return(t)
    BY <1>4, <2>1
  <2>2. CASE ~Return(t)
    <3>1. \A u \in Threads \ {t} : Keeps(u)
      BY <1>6, <2>2 DEF TryClaim, Goto, Types
    <3>2. todo'[t] = todo[t] /\ failures'[t] = failures[t] /\ pc[t] = "claim"
      BY <1>6, <2>2 DEF TryClaim
    <3>3. Fits(t)
      BY <1>0, <3>2
    <3> QED BY <1>2, <3>1, <3>3
  <2> QED BY <2>1, <2>2
<1>7. ASSUME NEW t \in Threads, Persist(t) PROVE \A u \in Threads : Fits(u)
  <2>1. pc[t] = "persist" /\ pc' = [pc EXCEPT ![t] = "snapshot"] /\ todo' = todo /\ failures' = failures
    BY <1>7 DEF Persist, Goto
  <2>2. \A u \in Threads \ {t} : Keeps(u)
    BY <2>1 DEF Types
  <2>3. Fits(t)
    BY <1>0, <2>1
  <2> QED BY <1>2, <2>2, <2>3
<1>8. ASSUME NEW t \in Threads, PersistFails(t) PROVE \A u \in Threads : Fits(u)
  <2>1. CASE failFast
    BY <1>4, <1>8, <2>1 DEF PersistFails
  <2>2. CASE ~failFast
    <3>1. pc[t] = "persist" /\ pc' = [pc EXCEPT ![t] = "snapshot"] /\ todo' = todo /\ failures' = failures
      BY <1>8, <2>2 DEF PersistFails, Goto
    <3>2. \A u \in Threads \ {t} : Keeps(u)
      BY <3>1 DEF Types
    <3>3. Fits(t)
      BY <1>0, <3>1
    <3> QED BY <1>2, <3>2, <3>3
  <2> QED BY <2>1, <2>2
<1>9. ASSUME NEW t \in Threads, Snapshot(t) PROVE \A u \in Threads : Fits(u)
  <2> DEFINE hs == IF replayMode THEN <<>> ELSE subscribers
  <2>1. pc[t] = "snapshot" /\ pc' = [pc EXCEPT ![t] = "handlers"]
        /\ todo' = [todo EXCEPT ![t] = hs] /\ failures' = failures
    BY <1>9 DEF Snapshot, Goto
  <2>2. Len(subscribers) <= N
    BY <1>0, DistinctLength DEF Types, N
  <2>3. Len(hs) <= N /\ Len(hs) \in Nat
    BY <1>0, <1>3, <2>2, LenProperties DEF Types
  <2> HIDE DEF hs
  <2>4. \A u \in Threads \ {t} : Keeps(u)
    BY <2>1 DEF Types
  <2>5. todo'[t] = hs /\ failures'[t] = 0 /\ pc'[t] = "handlers"
    BY <1>0, <2>1 DEF Types
  <2>6. Fits(t)
    BY <1>0, <2>3, <2>5
  <2> QED BY <1>2, <2>4, <2>6
<1>10. ASSUME NEW t \in Threads, HandlerReturns(t) PROVE \A u \in Threads : Fits(u)
  <2>1. /\ pc[t] = "handlers" /\ pc' = pc /\ failures' = failures
        /\ todo[t] # <<>> /\ todo' = [todo EXCEPT ![t] = Tail(todo[t])]
    BY <1>10 DEF HandlerReturns
  <2>2. \A u \in Threads \ {t} : Keeps(u)
    BY <2>1 DEF Types
  <2>3. todo'[t] = Tail(todo[t]) /\ Len(Tail(todo[t])) = Len(todo[t]) - 1
    BY <2>1, HeadTailProperties DEF Types
  <2>4. Fits(t)
    BY <1>0, <2>1, <2>3
  <2> QED BY <1>2, <2>2, <2>4
<1>11. ASSUME NEW t \in Threads, HandlerRaises(t) PROVE \A u \in Threads : Fits(u)
  <2>1. CASE failFast
    BY <1>4, <1>11, <2>1 DEF HandlerRaises
  <2>2. CASE ~failFast
    <3>1. /\ pc[t] = "handlers" /\ pc' = pc
          /\ failures' = [failures EXCEPT ![t] = failures[t] + 1]
          /\ todo[t] # <<>> /\ todo' = [todo EXCEPT ![t] = Tail(todo[t])]
      BY <1>11, <2>2 DEF HandlerRaises
    <3>2. \A u \in Threads \ {t} : Keeps(u)
      BY <3>1 DEF Types
    <3>3. todo'[t] = Tail(todo[t]) /\ Len(Tail(todo[t])) = Len(todo[t]) - 1
          /\ failures'[t] = failures[t] + 1
      BY <3>1, HeadTailProperties DEF Types
    <3>4. failures'[t] + Len(todo'[t]) = failures[t] + Len(todo[t])
      BY <1>0, <3>3
    <3>5. Fits(t)
      BY <1>0, <3>1, <3>4
    <3> QED BY <1>2, <3>2, <3>5
  <2> QED BY <2>1, <2>2
<1>12. ASSUME NEW t \in Threads, Settle(t) PROVE \A u \in Threads : Fits(u)
  BY <1>4, <1>12 DEF Settle
<1>13. ASSUME UNCHANGED ctl PROVE \A u \in Threads : Fits(u)
  BY <1>2, <1>13 DEF ctl
<1>14. ASSUME NEW h \in Handlers, Subscribe(h) \/ Unsubscribe(h) PROVE \A u \in Threads : Fits(u)
  BY <1>13, <1>14 DEF Subscribe, Unsubscribe
<1>15. CASE SetReplayMode \/ SetHookReplayMode \/ Flush
  BY <1>1, <1>13, <1>15 DEF SetReplayMode, SetHookReplayMode, Flush
<1>16. CASE UNCHANGED vars
  BY <1>1, <1>13, <1>16 DEF vars
<1> HIDE DEF Fits, Keeps
<1> QED
  BY <1>1, <1>5, <1>6, <1>7, <1>8, <1>9, <1>10, <1>11, <1>12, <1>14, <1>15, <1>16 DEF Next

\* All of them hold when the process starts.
LEMMA RestInit == Init => Flags /\ Stored /\ Bounded /\ Budget
<1> SUFFICES ASSUME Init PROVE Flags /\ Stored /\ Bounded /\ Budget
  OBVIOUS
<1>0. MaxReplays \in Nat /\ MaxPublishes \in Nat /\ MaxChanges \in Nat /\ DlqMax \in Nat
  BY BusAssumption
<1>1. failFast \in BOOLEAN /\ (replayMode = FALSE) /\ (muted = FALSE)
  BY DEF Init
<1>2. replayMode \in BOOLEAN /\ muted \in BOOLEAN
  BY <1>1, Zenon
<1>3. Flags
  BY <1>0, <1>1, <1>2 DEF Init, Flags
<1>4. Stored
  BY DEF Init, Stored
<1>5. Len(<<>>) = 0
  OBVIOUS
<1>6. Bounded
  BY <1>0, <1>5 DEF Init, Bounded, Distinct
<1>7. Cardinality(Handlers) \in Nat
  BY BusAssumption, FS_CardinalityType
<1>8. Budget
  BY <1>5, <1>7 DEF Init, Budget
<1> QED BY <1>3, <1>4, <1>6, <1>8

\* The parts together are the type invariant.
LEMMA TypesAreWhole == Types /\ Flags /\ Stored /\ Bounded /\ Budget => TypeOK
<1> SUFFICES ASSUME Types, Flags, Stored, Bounded, Budget PROVE TypeOK
  OBVIOUS
<1>1. failures \in [Threads -> 0 .. Cardinality(Handlers)]
  <2>1. \A t \in Threads : Len(todo[t]) \in Nat
    BY LenProperties DEF Types
  <2>2. Cardinality(Handlers) \in Nat
    BY BusAssumption, FS_CardinalityType
  <2>3. \A t \in Threads : failures[t] \in 0 .. Cardinality(Handlers)
    BY <2>1, <2>2 DEF Types, Budget
  <2> QED BY <2>3 DEF Types
<1>2. ASSUME NEW S, NEW s \in Seq(S), Distinct(s) PROVE IsInjective(s)
  BY <1>2, LenProperties DEF Distinct, IsInjective
<1>3. IsInjective(subscribers) /\ IsInjective(processed)
  BY <1>2 DEF Types, Bounded
<1> QED BY <1>1, <1>3 DEF TypeOK, Types, Flags, Stored, Bounded

\* The types and the bounds of the bus, for any number of threads, events and
\* handlers: the window never holds an id twice, the dead-letter queue never
\* outgrows its size, no publication counts more failures than it has handlers;
\* and the claims are those of the publications under way.
THEOREM BusInvAlways == Spec => []BusInv
<1>1. Init => Flags /\ Stored /\ Bounded /\ Budget
  BY RestInit
<1>2. Inv /\ Flags /\ Stored /\ Bounded /\ Budget /\ [Next]_vars
        => (Flags /\ Stored /\ Bounded /\ Budget)'
  BY FlagsStep, StoredStep, BoundedStep, BudgetStep DEF Inv
<1>3. Inv /\ Flags /\ Stored /\ Bounded /\ Budget => BusInv
  BY TypesAreWhole DEF BusInv, Inv, Claims
<1> QED BY <1>1, <1>2, <1>3, Invariance, PTL DEF Spec
=============================================================================
