------------------------ MODULE OrderPlacementProofs ------------------------
(***************************************************************************)
(* Proofs about OrderPlacement for any number of threads, correlation ids, *)
(* restarts and lapsed reservations.                                       *)
(***************************************************************************)
EXTENDS OrderPlacement, TLAPS

\* The types at the start.
LEMMA TypeInit == Init => TypeOK
  BY PlacementAssumption DEF Init, TypeOK, Phases, OrderStatus, Ids

\* What the steps write into the book is an order.
LEMMA OrderType ==
    ASSUME NEW i \in Ids, NEW c \in Corr \cup {None}, NEW s \in OrderStatus
    PROVE  Order(i, c, s) \in Orders
  BY DEF Order, Orders

\* An order written to the book has its type.
LEMMA UpsertType ==
    ASSUME TypeOK, NEW o \in Orders, UpsertOrder(o)
    PROVE  /\ orders' \in [Ids -> Orders \cup {None}]
           /\ byCorr' \in [Corr -> Orders \cup {None}]
           /\ machine' \in [Ids -> OrderStatus \cup {None}]
           /\ store' \in [Ids -> Orders \cup {None}]
<1> DEFINE existing == orders[o.id]
           changed  == existing # None /\ existing.status # o.status
           state    == IF machine[o.id] = None THEN existing.status
                       ELSE machine[o.id]
           legal    == changed => CanTransition(state, o.status)
<1>1. o.id \in Ids /\ o.status \in OrderStatus /\ o.corr \in Corr \cup {None}
  BY DEF Orders
<1>2. changed => state \in OrderStatus
  BY <1>1 DEF TypeOK, Orders
<1>3. machine' = IF ~changed THEN machine
                 ELSE [machine EXCEPT ![o.id] =
                         IF legal THEN o.status ELSE state]
  BY DEF UpsertOrder
<1>4. orders' = IF legal THEN [orders EXCEPT ![o.id] = o] ELSE orders
  BY DEF UpsertOrder
<1>5. byCorr' = IF legal /\ o.corr # None
                THEN [byCorr EXCEPT ![o.corr] = o] ELSE byCorr
  BY DEF UpsertOrder
<1>6. store' = store \/ store' = [store EXCEPT ![o.id] = o]
  BY DEF UpsertOrder
<1> HIDE DEF legal, changed, state
<1>7. machine' \in [Ids -> OrderStatus \cup {None}]
  BY <1>1, <1>2, <1>3 DEF TypeOK
<1>8. orders' \in [Ids -> Orders \cup {None}]
  BY <1>1, <1>4 DEF TypeOK
<1>9. byCorr' \in [Corr -> Orders \cup {None}]
  BY <1>1, <1>5 DEF TypeOK
<1>10. store' \in [Ids -> Orders \cup {None}]
  BY <1>1, <1>6 DEF TypeOK
<1> QED BY <1>7, <1>8, <1>9, <1>10

\* What the ledger or the book returns for a correlation id is an order.
LEMMA ExistingType ==
    ASSUME TypeOK, NEW c \in Corr, NEW readable \in BOOLEAN,
           ExistingOrder(c, readable) # None
    PROVE  ExistingOrder(c, readable) \in Orders
<1>1. CASE byCorr[c] # None
  BY <1>1 DEF ExistingOrder, TypeOK
<1>2. CASE byCorr[c] = None
  <2>1. intents[c] \in OmIds /\ intents[c] \in Ids
    BY <1>2 DEF ExistingOrder, DurableOrder, TypeOK, Ids
  <2>2. RecoveredStatus(intents[c]) \in OrderStatus
    BY DEF RecoveredStatus, OrderStatus
  <2>3. Order(intents[c], c, RecoveredStatus(intents[c])) \in Orders
    BY <2>1, <2>2, OrderType
  <2> QED BY <1>2, <2>1, <2>3 DEF ExistingOrder, DurableOrder, TypeOK
<1> QED BY <1>1, <1>2

\* So is what the venue reports.
LEMMA ReportType ==
    ASSUME TypeOK, NEW c \in Corr, venue[c] # None
    PROVE  VenueReport(c) \subseteq Orders
<1>1. VenueId(c) \in Ids
  BY DEF Ids
<1>2. \A tag \in {c, None}, s \in {"OPEN", venue[c]} :
         Order(VenueId(c), tag, s) \in Orders
  BY <1>1, OrderType DEF TypeOK, OrderStatus
<1> QED BY <1>2 DEF VenueReport

\* An order marked UNKNOWN is an order.
LEMMA UnknownType ==
    ASSUME NEW o \in Orders
    PROVE  [o EXCEPT !.status = "UNKNOWN"] \in Orders
  BY DEF Orders, OrderStatus

\* Types and the shape of a call are preserved by every step.
LEMMA TypeNext ==
    TypeOK /\ PlacementInv /\ [Next]_vars => TypeOK' /\ CallInv'
<1> SUFFICES ASSUME TypeOK, PlacementInv, [Next]_vars
             PROVE  TypeOK' /\ CallInv'
  OBVIOUS
<1> USE DEF Goto, Carry, Return, threadVars, bookVars, ledgerVars, venueVars
<1>0. CallInv
  BY DEF PlacementInv
<1>1. ASSUME NEW t \in Threads, Approve(t) PROVE TypeOK' /\ CallInv'
  BY <1>0, <1>1 DEF Approve, TypeOK, CallInv, Phases, Results
<1>2. ASSUME NEW t \in Threads, Reject(t) PROVE TypeOK' /\ CallInv'
  BY <1>0, <1>2 DEF Reject, TypeOK, CallInv, Phases, Results
<1>3. ASSUME NEW t \in Threads, SkipSubmit(t) PROVE TypeOK' /\ CallInv'
  BY <1>0, <1>3 DEF SkipSubmit, TypeOK, CallInv, Phases, Results
<1>4. ASSUME NEW t \in Threads, StoreStub(t) PROVE TypeOK' /\ CallInv'
  BY <1>0, <1>4 DEF StoreStub, TypeOK, CallInv, Phases, Orders
<1>5. ASSUME NEW t \in Threads, RecordIntent(t) PROVE TypeOK' /\ CallInv'
  <2>1. ord[t].id \in OmIds
    BY <1>5 DEF RecordIntent, PlacementInv, OwnIdInv, OwnId, Undecided,
       BeforeIntent, TypeOK
  <2> QED BY <1>0, <1>5, <2>1 DEF RecordIntent, TypeOK, CallInv, Phases
<1>6. ASSUME NEW t \in Threads, IntentFails(t) PROVE TypeOK' /\ CallInv'
  BY <1>0, <1>6 DEF IntentFails, TypeOK, CallInv, Phases, Results
<1>7. ASSUME NEW t \in Threads, Send(t) PROVE TypeOK' /\ CallInv'
  BY <1>0, <1>7 DEF Send, TypeOK, CallInv, Phases, Results
<1>8. ASSUME NEW t \in Threads, Reply(t) PROVE TypeOK' /\ CallInv'
  <2>1. req[t] \in Corr
    BY <1>0, <1>8 DEF Reply, CallInv
  <2>2. \A s \in {"OPEN", venue[req[t]]} :
           Order(VenueId(req[t]), req[t], s) \in Orders
    BY <1>8, <2>1, OrderType DEF Reply, TypeOK, OrderStatus, Ids
  <2> QED BY <1>0, <1>8, <2>1, <2>2 DEF Reply, TypeOK, CallInv, Phases
<1>9. ASSUME NEW t \in Threads, SubmitFails(t) PROVE TypeOK' /\ CallInv'
  BY <1>0, <1>9 DEF SubmitFails, TypeOK, CallInv, Phases, Results
<1>10. ASSUME NEW t \in Threads, StoreUnknown(t) PROVE TypeOK' /\ CallInv'
  <2>1. req[t] \in Corr /\ ord[t] \in Orders
    BY <1>0, <1>10 DEF StoreUnknown, CallInv
  <2> QED BY <1>0, <1>10, <2>1, UnknownType
          DEF StoreUnknown, TypeOK, CallInv, Phases
<1>11. ASSUME NEW t \in Threads, RecordUnknown(t) PROVE TypeOK' /\ CallInv'
  BY <1>0, <1>11 DEF RecordUnknown, TypeOK, CallInv, Phases, Results
<1>12. ASSUME NEW t \in Threads, RecordAccepted(t) PROVE TypeOK' /\ CallInv'
  BY <1>0, <1>12 DEF RecordAccepted, TypeOK, CallInv, Phases
<1>13. ASSUME NEW t \in Threads, AcceptedUnrecorded(t)
       PROVE  TypeOK' /\ CallInv'
  <2>1. req[t] \in Corr /\ ord[t] \in Orders
    BY <1>0, <1>13 DEF AcceptedUnrecorded, CallInv
  <2> DEFINE unknown == [ord[t] EXCEPT !.status = "UNKNOWN"]
  <2>2. unknown \in Orders
    BY <2>1, UnknownType
  <2> HIDE DEF unknown
  <2>3. CASE WithStatusAllowed(ord[t].status, "UNKNOWN")
    <3>1. /\ orders' = [orders EXCEPT ![unknown.id] = unknown]
          /\ byCorr' = [byCorr EXCEPT ![req[t]] = unknown]
          /\ ord' = [ord EXCEPT ![t] = unknown]
      BY <1>13, <2>3 DEF AcceptedUnrecorded, unknown
    <3> QED BY <1>0, <1>13, <2>1, <2>2, <2>3, <3>1
            DEF AcceptedUnrecorded, TypeOK, CallInv, Phases, Results
  <2>4. CASE ~WithStatusAllowed(ord[t].status, "UNKNOWN")
    BY <1>0, <1>13, <2>1, <2>4
    DEF AcceptedUnrecorded, TypeOK, CallInv, Phases, Results
  <2> QED BY <2>3, <2>4
<1>14. ASSUME NEW t \in Threads, PublishUnknown(t) PROVE TypeOK' /\ CallInv'
  <2>1. ord[t] \in Orders /\ UpsertOrder(ord[t])
    BY <1>0, <1>14 DEF PublishUnknown, CallInv
  <2> QED BY <1>0, <1>14, <2>1, UpsertType
          DEF PublishUnknown, TypeOK, CallInv, Phases
<1>15. ASSUME NEW t \in Threads, ReleasePending(t) PROVE TypeOK' /\ CallInv'
  BY <1>0, <1>15 DEF ReleasePending, TypeOK, CallInv, Phases, Results
<1>16. ASSUME NEW t \in Threads, ReleaseRisk(t) PROVE TypeOK' /\ CallInv'
  BY <1>0, <1>16 DEF ReleaseRisk, TypeOK, CallInv, Phases, Results
<1>17. ASSUME NEW t \in Threads, RecordAndPublish(t) PROVE TypeOK' /\ CallInv'
  BY <1>0, <1>17 DEF RecordAndPublish, TypeOK, CallInv, Phases, Orders
<1>18. ASSUME NEW t \in Threads, Persist(t) PROVE TypeOK' /\ CallInv'
  BY <1>0, <1>18 DEF Persist, TypeOK, CallInv, Phases, Results, Orders
<1>19. ASSUME NEW t \in Threads, NEW c \in Corr, ReturnExisting(t, c)
      PROVE  TypeOK' /\ CallInv'
  <2>1. PICK readable \in BOOLEAN :
               /\ ExistingOrder(c, readable) # None
               /\ orders' = IF byCorr[c] # None THEN orders
                            ELSE [orders EXCEPT ![ExistingOrder(c, readable).id] =
                                    ExistingOrder(c, readable)]
               /\ byCorr' = [byCorr EXCEPT ![c] = ExistingOrder(c, readable)]
    BY <1>19 DEF ReturnExisting
  <2>2. ExistingOrder(c, readable) \in Orders
    BY <2>1, ExistingType
  <2> QED BY <1>0, <1>19, <2>1, <2>2
          DEF ReturnExisting, TypeOK, CallInv, Results
<1>20. ASSUME NEW t \in Threads, NEW c \in Corr, LookupRaises(t, c)
      PROVE  TypeOK' /\ CallInv'
  BY <1>0, <1>20 DEF LookupRaises, TypeOK, CallInv, Results
<1>21. ASSUME NEW t \in Threads, NEW c \in Corr, ReportInFlight(t, c)
      PROVE  TypeOK' /\ CallInv'
  BY <1>0, <1>21 DEF ReportInFlight, TypeOK, CallInv, Results
<1>22. ASSUME NEW t \in Threads, NEW c \in Corr, Reserve(t, c)
      PROVE  TypeOK' /\ CallInv'
  <2>1. \A i \in OmIds : Order(i, c, "OPEN") \in Orders
    BY OrderType DEF Ids, OrderStatus
  <2> QED BY <1>0, <1>22, <2>1 DEF Reserve, TypeOK, CallInv, Phases
<1>23. ASSUME NEW c \in Corr, PendingExpires(c) PROVE TypeOK' /\ CallInv'
  BY <1>0, <1>23 DEF PendingExpires, TypeOK, CallInv
<1>24. ASSUME NEW c \in Corr, RiskPendingExpires(c) PROVE TypeOK' /\ CallInv'
  BY <1>0, <1>24 DEF RiskPendingExpires, TypeOK, CallInv
<1>25. ASSUME NEW c \in Corr, VenueAccepts(c) PROVE TypeOK' /\ CallInv'
  BY <1>0, <1>25 DEF VenueAccepts, TypeOK, CallInv, OrderStatus
<1>26. ASSUME NEW c \in Corr, VenueDrops(c) PROVE TypeOK' /\ CallInv'
  BY <1>0, <1>26 DEF VenueDrops, TypeOK, CallInv
<1>27. ASSUME NEW c \in Corr, VenueFinishes(c) PROVE TypeOK' /\ CallInv'
  BY <1>0, <1>27, PlacementAssumption
  DEF VenueFinishes, TypeOK, CallInv, OrderStatus, Terminal
<1>28. ASSUME NEW c \in Corr, FeedUpdate(c) PROVE TypeOK' /\ CallInv'
  <2>1. PICK o \in VenueReport(c) : UpsertOrder(o)
    BY <1>28 DEF FeedUpdate
  <2>2. o \in Orders
    BY <1>28, ReportType DEF FeedUpdate
  <2> QED BY <1>0, <1>28, <2>1, <2>2, UpsertType
          DEF FeedUpdate, TypeOK, CallInv
<1>29. ASSUME NEW c \in Corr, ApplyMassStatus(c) PROVE TypeOK' /\ CallInv'
  <2>1. PICK o \in VenueReport(c) : UpsertOrder(o)
    BY <1>29 DEF ApplyMassStatus
  <2>2. o \in Orders
    BY <1>29, ReportType DEF ApplyMassStatus
  <2> QED BY <1>0, <1>29, <2>1, <2>2, UpsertType
          DEF ApplyMassStatus, TypeOK, CallInv
<1>30. CASE Crash
  BY <1>30 DEF Crash, TypeOK, CallInv, Phases
<1>31. CASE UNCHANGED vars
  BY <1>0, <1>31 DEF vars, TypeOK, CallInv
<1> QED BY <1>1, <1>2, <1>3, <1>4, <1>5, <1>6, <1>7, <1>8, <1>9, <1>10,
     <1>11, <1>12, <1>13, <1>14, <1>15, <1>16, <1>17, <1>18, <1>19, <1>20,
     <1>21, <1>22, <1>23, <1>24, <1>25, <1>26, <1>27, <1>28, <1>29, <1>30,
     <1>31 DEF Next, ThreadStep

\* Ownership of ids, intents before sends, and single sends are preserved.
LEMMA InvNext == TypeOK /\ PlacementInv /\ [Next]_vars => PlacementInv'
<1> SUFFICES ASSUME TypeOK, PlacementInv, [Next]_vars
             PROVE  OwnIdInv' /\ IntentInv' /\ SentInv'
  BY TypeNext DEF PlacementInv
<1> USE DEF Goto, Carry, Return, threadVars, bookVars, ledgerVars, venueVars
<1>0. CallInv /\ OwnIdInv /\ IntentInv /\ SentInv
  BY DEF PlacementInv
<1>1. ASSUME NEW t \in Threads, Approve(t)
      PROVE  OwnIdInv' /\ IntentInv' /\ SentInv'
  BY <1>0, <1>1, PlacementAssumption
  DEF Approve, TypeOK, CallInv, OwnIdInv, IntentInv,
      SentInv, OwnId, Undecided, BeforeIntent, Ids, Orders
<1>2. ASSUME NEW t \in Threads, Reject(t)
      PROVE  OwnIdInv' /\ IntentInv' /\ SentInv'
  BY <1>0, <1>2, PlacementAssumption
  DEF Reject, TypeOK, CallInv, OwnIdInv, IntentInv,
      SentInv, OwnId, Undecided, BeforeIntent, Ids, Orders
<1>3. ASSUME NEW t \in Threads, SkipSubmit(t)
      PROVE  OwnIdInv' /\ IntentInv' /\ SentInv'
  BY <1>0, <1>3, PlacementAssumption
  DEF SkipSubmit, TypeOK, CallInv, OwnIdInv, IntentInv,
      SentInv, OwnId, Undecided, BeforeIntent, Ids, Orders
<1>4. ASSUME NEW t \in Threads, StoreStub(t)
      PROVE  OwnIdInv' /\ IntentInv' /\ SentInv'
  BY <1>0, <1>4, PlacementAssumption
  DEF StoreStub, TypeOK, CallInv, OwnIdInv, IntentInv,
      SentInv, OwnId, Undecided, BeforeIntent, Ids, Orders
<1>5. ASSUME NEW t \in Threads, RecordIntent(t)
      PROVE  OwnIdInv' /\ IntentInv' /\ SentInv'
  BY <1>0, <1>5, PlacementAssumption
  DEF RecordIntent, TypeOK, CallInv, OwnIdInv, IntentInv,
      SentInv, OwnId, Undecided, BeforeIntent, Ids, Orders
<1>6. ASSUME NEW t \in Threads, IntentFails(t)
      PROVE  OwnIdInv' /\ IntentInv' /\ SentInv'
  BY <1>0, <1>6, PlacementAssumption
  DEF IntentFails, TypeOK, CallInv, OwnIdInv, IntentInv,
      SentInv, OwnId, Undecided, BeforeIntent, Ids, Orders
<1>7. ASSUME NEW t \in Threads, Send(t)
      PROVE  OwnIdInv' /\ IntentInv' /\ SentInv'
  BY <1>0, <1>7, PlacementAssumption
  DEF Send, TypeOK, CallInv, OwnIdInv, IntentInv,
      SentInv, OwnId, Undecided, BeforeIntent, Ids, Orders
<1>8. ASSUME NEW t \in Threads, Reply(t)
      PROVE  OwnIdInv' /\ IntentInv' /\ SentInv'
  BY <1>0, <1>8, PlacementAssumption
  DEF Reply, TypeOK, CallInv, OwnIdInv, IntentInv,
      SentInv, OwnId, Undecided, BeforeIntent, Ids, Orders
<1>9. ASSUME NEW t \in Threads, SubmitFails(t)
      PROVE  OwnIdInv' /\ IntentInv' /\ SentInv'
  BY <1>0, <1>9, PlacementAssumption
  DEF SubmitFails, TypeOK, CallInv, OwnIdInv, IntentInv,
      SentInv, OwnId, Undecided, BeforeIntent, Ids, Orders
<1>10. ASSUME NEW t \in Threads, StoreUnknown(t)
      PROVE  OwnIdInv' /\ IntentInv' /\ SentInv'
  BY <1>0, <1>10, PlacementAssumption
  DEF StoreUnknown, TypeOK, CallInv, OwnIdInv, IntentInv,
      SentInv, OwnId, Undecided, BeforeIntent, Ids, Orders
<1>11. ASSUME NEW t \in Threads, RecordUnknown(t)
      PROVE  OwnIdInv' /\ IntentInv' /\ SentInv'
  BY <1>0, <1>11, PlacementAssumption
  DEF RecordUnknown, TypeOK, CallInv, OwnIdInv, IntentInv,
      SentInv, OwnId, Undecided, BeforeIntent, Ids, Orders
<1>12. ASSUME NEW t \in Threads, RecordAccepted(t)
      PROVE  OwnIdInv' /\ IntentInv' /\ SentInv'
  BY <1>0, <1>12, PlacementAssumption
  DEF RecordAccepted, TypeOK, CallInv, OwnIdInv, IntentInv,
      SentInv, OwnId, Undecided, BeforeIntent, Ids, Orders
<1>13. ASSUME NEW t \in Threads, AcceptedUnrecorded(t)
      PROVE  OwnIdInv' /\ IntentInv' /\ SentInv'
  <2>1. /\ pc[t] = "outcome"
        /\ \E p \in {"publish_unknown", "release"} : pc' = [pc EXCEPT ![t] = p]
    BY <1>13 DEF AcceptedUnrecorded
  <2>2. \E o : ord' = [ord EXCEPT ![t] = o]
    BY <1>13 DEF AcceptedUnrecorded, TypeOK
  <2>3. UNCHANGED <<req, intents, outcomes, usedIds, sent, wire, venue>>
    BY <1>13 DEF AcceptedUnrecorded
  <2> QED BY <1>0, <2>1, <2>2, <2>3 DEF TypeOK, CallInv, OwnIdInv, IntentInv,
      SentInv, OwnId, Undecided, BeforeIntent
<1>14. ASSUME NEW t \in Threads, PublishUnknown(t)
      PROVE  OwnIdInv' /\ IntentInv' /\ SentInv'
  BY <1>0, <1>14, PlacementAssumption
  DEF PublishUnknown, TypeOK, CallInv, OwnIdInv, IntentInv,
      SentInv, OwnId, Undecided, BeforeIntent, Ids, Orders
<1>15. ASSUME NEW t \in Threads, ReleasePending(t)
      PROVE  OwnIdInv' /\ IntentInv' /\ SentInv'
  BY <1>0, <1>15, PlacementAssumption
  DEF ReleasePending, TypeOK, CallInv, OwnIdInv, IntentInv,
      SentInv, OwnId, Undecided, BeforeIntent, Ids, Orders
<1>16. ASSUME NEW t \in Threads, ReleaseRisk(t)
      PROVE  OwnIdInv' /\ IntentInv' /\ SentInv'
  BY <1>0, <1>16, PlacementAssumption
  DEF ReleaseRisk, TypeOK, CallInv, OwnIdInv, IntentInv,
      SentInv, OwnId, Undecided, BeforeIntent, Ids, Orders
<1>17. ASSUME NEW t \in Threads, RecordAndPublish(t)
      PROVE  OwnIdInv' /\ IntentInv' /\ SentInv'
  BY <1>0, <1>17, PlacementAssumption
  DEF RecordAndPublish, TypeOK, CallInv, OwnIdInv, IntentInv,
      SentInv, OwnId, Undecided, BeforeIntent, Ids, Orders
<1>18. ASSUME NEW t \in Threads, Persist(t)
      PROVE  OwnIdInv' /\ IntentInv' /\ SentInv'
  BY <1>0, <1>18, PlacementAssumption
  DEF Persist, TypeOK, CallInv, OwnIdInv, IntentInv,
      SentInv, OwnId, Undecided, BeforeIntent, Ids, Orders
<1>19. ASSUME NEW t \in Threads, NEW c \in Corr, ReturnExisting(t, c)
      PROVE  OwnIdInv' /\ IntentInv' /\ SentInv'
  BY <1>0, <1>19, PlacementAssumption
  DEF ReturnExisting, TypeOK, CallInv, OwnIdInv, IntentInv,
      SentInv, OwnId, Undecided, BeforeIntent, Order, Ids
<1>20. ASSUME NEW t \in Threads, NEW c \in Corr, LookupRaises(t, c)
      PROVE  OwnIdInv' /\ IntentInv' /\ SentInv'
  BY <1>0, <1>20, PlacementAssumption
  DEF LookupRaises, TypeOK, CallInv, OwnIdInv, IntentInv,
      SentInv, OwnId, Undecided, BeforeIntent, Order, Ids
<1>21. ASSUME NEW t \in Threads, NEW c \in Corr, ReportInFlight(t, c)
      PROVE  OwnIdInv' /\ IntentInv' /\ SentInv'
  BY <1>0, <1>21, PlacementAssumption
  DEF ReportInFlight, TypeOK, CallInv, OwnIdInv, IntentInv,
      SentInv, OwnId, Undecided, BeforeIntent, Order, Ids
<1>22. ASSUME NEW t \in Threads, NEW c \in Corr, Reserve(t, c)
      PROVE  OwnIdInv' /\ IntentInv' /\ SentInv'
  BY <1>0, <1>22, PlacementAssumption
  DEF Reserve, TypeOK, CallInv, OwnIdInv, IntentInv,
      SentInv, OwnId, Undecided, BeforeIntent, Order, Ids
<1>23. ASSUME NEW c \in Corr, PendingExpires(c)
      PROVE  OwnIdInv' /\ IntentInv' /\ SentInv'
  BY <1>0, <1>23
  DEF PendingExpires, TypeOK, CallInv, OwnIdInv, IntentInv,
      SentInv, OwnId, Undecided, BeforeIntent
<1>24. ASSUME NEW c \in Corr, RiskPendingExpires(c)
      PROVE  OwnIdInv' /\ IntentInv' /\ SentInv'
  BY <1>0, <1>24
  DEF RiskPendingExpires, TypeOK, CallInv, OwnIdInv, IntentInv,
      SentInv, OwnId, Undecided, BeforeIntent
<1>25. ASSUME NEW c \in Corr, VenueAccepts(c)
      PROVE  OwnIdInv' /\ IntentInv' /\ SentInv'
  BY <1>0, <1>25
  DEF VenueAccepts, TypeOK, CallInv, OwnIdInv, IntentInv,
      SentInv, OwnId, Undecided, BeforeIntent
<1>26. ASSUME NEW c \in Corr, VenueDrops(c)
      PROVE  OwnIdInv' /\ IntentInv' /\ SentInv'
  BY <1>0, <1>26
  DEF VenueDrops, TypeOK, CallInv, OwnIdInv, IntentInv,
      SentInv, OwnId, Undecided, BeforeIntent
<1>27. ASSUME NEW c \in Corr, VenueFinishes(c)
      PROVE  OwnIdInv' /\ IntentInv' /\ SentInv'
  BY <1>0, <1>27, PlacementAssumption
  DEF VenueFinishes, TypeOK, CallInv, OwnIdInv, IntentInv,
      SentInv, OwnId, Undecided, BeforeIntent, OrderStatus
<1>28. ASSUME NEW c \in Corr, FeedUpdate(c)
      PROVE  OwnIdInv' /\ IntentInv' /\ SentInv'
  BY <1>0, <1>28
  DEF FeedUpdate, TypeOK, CallInv, OwnIdInv, IntentInv,
      SentInv, OwnId, Undecided, BeforeIntent
<1>29. ASSUME NEW c \in Corr, ApplyMassStatus(c)
      PROVE  OwnIdInv' /\ IntentInv' /\ SentInv'
  BY <1>0, <1>29
  DEF ApplyMassStatus, TypeOK, CallInv, OwnIdInv, IntentInv,
      SentInv, OwnId, Undecided, BeforeIntent
<1>30. CASE Crash
  BY <1>0, <1>30 DEF Crash, TypeOK, CallInv, OwnIdInv, IntentInv,
      SentInv, OwnId, Undecided, BeforeIntent
<1>31. CASE UNCHANGED vars
  BY <1>0, <1>31 DEF vars, TypeOK, CallInv, OwnIdInv, IntentInv,
      SentInv, OwnId, Undecided, BeforeIntent
<1> QED BY <1>1, <1>2, <1>3, <1>4, <1>5, <1>6, <1>7, <1>8, <1>9, <1>10,
     <1>11, <1>12, <1>13, <1>14, <1>15, <1>16, <1>17, <1>18, <1>19, <1>20,
     <1>21, <1>22, <1>23, <1>24, <1>25, <1>26, <1>27, <1>28, <1>29, <1>30,
     <1>31 DEF Next, ThreadStep

\* Types and PlacementInv hold in every reachable state, for any number of
\* threads, correlation ids, restarts and lapsed reservations.
THEOREM PlacementInvariant == Spec => [](TypeOK /\ PlacementInv)
<1>1. Init => TypeOK /\ PlacementInv
  <2>1. Init => PlacementInv
    BY DEF Init, PlacementInv, CallInv, OwnIdInv, IntentInv, SentInv,
       Undecided, BeforeIntent
  <2> QED BY <2>1, TypeInit
<1>2. TypeOK /\ PlacementInv /\ [Next]_vars => (TypeOK /\ PlacementInv)'
  BY TypeNext, InvNext
<1> QED BY <1>1, <1>2, PTL DEF Spec

\* Type correctness of the placement state.
THEOREM TypeCorrect == Spec => []TypeOK
  BY PlacementInvariant, PTL

\* No correlation id is submitted to the venue twice by submit_to_broker.
THEOREM NoDoubleSubmission == Spec => []SubmittedOnce
<1>1. PlacementInv => SubmittedOnce
  BY DEF PlacementInv, SentInv, SubmittedOnce
<1> QED BY <1>1, PlacementInvariant, PTL

\* An order the venue has or is about to get is found by the next place_order
\* of its correlation id: check_and_reserve or _lookup_durable_order has it.
THEOREM VenueOrdersRecoverable == Spec => []VenueOrderFound
<1>1. ASSUME TypeOK, PlacementInv, NEW c \in Corr,
             c \in wire \/ venue[c] # None
      PROVE  ExistingOrder(c, TRUE) # None
  <2>1. intents[c] # None /\ intents[c] \in Ids
    BY <1>1 DEF PlacementInv, SentInv, TypeOK, Ids
  <2>2. RecoveredStatus(intents[c]) \in OrderStatus
    BY DEF RecoveredStatus, OrderStatus
  <2>3. Order(intents[c], c, RecoveredStatus(intents[c])) # None
    BY <2>1, <2>2, OrderType, PlacementAssumption
  <2> QED BY <2>1, <2>3 DEF ExistingOrder, DurableOrder
<1>2. TypeOK /\ PlacementInv => VenueOrderFound
  BY <1>1 DEF VenueOrderFound
<1> QED BY <1>2, PlacementInvariant, PTL

\* An intent is never replaced and an outcome never overwritten, although
\* record_outcome is an upsert.
THEOREM LedgerIsStable == Spec => LedgerStable
<1> DEFINE Stable ==
      /\ \A c \in Corr : intents[c] # None => intents'[c] = intents[c]
      /\ \A i \in OmIds : outcomes[i] # None => outcomes'[i] = outcomes[i]
<1>1. ASSUME TypeOK, PlacementInv, Next PROVE Stable
  <2> USE DEF Goto, Carry, Return, ledgerVars
  <2>1. ASSUME NEW t \in Threads, RecordIntent(t) PROVE Stable
    BY <1>1, <2>1 DEF RecordIntent, PlacementInv, CallInv, IntentInv, TypeOK,
       BeforeIntent
  <2>2. ASSUME NEW t \in Threads, RecordUnknown(t) PROVE Stable
    BY <1>1, <2>2 DEF RecordUnknown, PlacementInv, CallInv, OwnIdInv, OwnId,
       TypeOK, Undecided
  <2>3. ASSUME NEW t \in Threads, RecordAccepted(t) PROVE Stable
    BY <1>1, <2>3 DEF RecordAccepted, PlacementInv, CallInv, OwnIdInv, OwnId,
       TypeOK, Undecided
  <2>4. ASSUME NEW t \in Threads, ThreadStep(t),
               ~RecordIntent(t), ~RecordUnknown(t), ~RecordAccepted(t)
        PROVE  UNCHANGED ledgerVars
    BY <2>4 DEF ThreadStep, Approve, Reject, SkipSubmit, StoreStub,
       IntentFails, Send, Reply, SubmitFails, StoreUnknown,
       AcceptedUnrecorded, PublishUnknown, ReleasePending, ReleaseRisk,
       RecordAndPublish, Persist
  <2>5. ASSUME NEW t \in Threads, NEW c \in Corr,
               \/ ReturnExisting(t, c) \/ LookupRaises(t, c)
               \/ ReportInFlight(t, c) \/ Reserve(t, c)
        PROVE  UNCHANGED ledgerVars
    BY <2>5 DEF ReturnExisting, LookupRaises, ReportInFlight, Reserve
  <2>6. ASSUME NEW c \in Corr,
               \/ PendingExpires(c) \/ RiskPendingExpires(c)
               \/ VenueAccepts(c) \/ VenueDrops(c) \/ VenueFinishes(c)
               \/ FeedUpdate(c) \/ ApplyMassStatus(c)
        PROVE  UNCHANGED ledgerVars
    BY <2>6 DEF PendingExpires, RiskPendingExpires, VenueAccepts, VenueDrops,
       VenueFinishes, FeedUpdate, ApplyMassStatus
  <2>7. CASE Crash
    BY <2>7 DEF Crash
  <2>8. ASSUME UNCHANGED ledgerVars PROVE Stable
    BY <2>8
  <2> QED BY <1>1, <2>1, <2>2, <2>3, <2>4, <2>5, <2>6, <2>7, <2>8 DEF Next
<1>2. TypeOK /\ PlacementInv /\ [Next]_vars => [Stable]_vars
  BY <1>1
<1>3. LedgerStable <=> [][Stable]_vars
  BY DEF LedgerStable
<1> QED BY <1>2, <1>3, PlacementInvariant, PTL DEF Spec

\* place_order implements AtMostOnceSubmission: every step commits, submits or
\* accepts one correlation id in that order, or changes none of the three.
THEOREM PlacementKeepsPromise == Spec => KeepsPromise
<1> DEFINE committed == {c \in Corr : intents[c] # None}
           held == {c \in Corr : venue[c] # None}
           pvars == <<committed, sent, held>>
<1>1. Init => Promise!Init
  BY DEF Init, Promise!Init
<1>2. ASSUME TypeOK, PlacementInv, Next
      PROVE  Promise!Next \/ UNCHANGED pvars
  <2> USE DEF Goto, Carry, Return, ledgerVars, venueVars
  <2>1. ASSUME NEW t \in Threads, RecordIntent(t)
        PROVE  Promise!Next
    <3>1. req[t] \in Corr /\ intents[req[t]] = None /\ ord[t].id \in OmIds
      BY <1>2, <2>1 DEF RecordIntent, PlacementInv, CallInv, OwnIdInv,
         IntentInv, OwnId, TypeOK, Undecided, BeforeIntent
    <3>2. ord[t].id # None
      BY <3>1, PlacementAssumption DEF Ids
    <3>3. committed' = committed \cup {req[t]}
      BY <1>2, <2>1, <3>1, <3>2 DEF RecordIntent, TypeOK
    <3>4. Promise!Commit(req[t])
      BY <2>1, <3>1, <3>3 DEF RecordIntent, Promise!Commit
    <3> QED BY <3>1, <3>4 DEF Promise!Next, Promise!Commit
  <2>2. ASSUME NEW t \in Threads, Send(t)
        PROVE  Promise!Next
    <3>1. req[t] \in Corr /\ intents[req[t]] # None /\ sent[req[t]] = 0
      BY <1>2, <2>2, PlacementAssumption DEF Send, PlacementInv, CallInv,
         OwnIdInv, IntentInv, OwnId, TypeOK, Undecided, Ids
    <3>2. Promise!Submit(req[t])
      BY <1>2, <2>2, <3>1 DEF Send, Promise!Submit, TypeOK
    <3> QED BY <3>1, <3>2 DEF Promise!Next
  <2>3. ASSUME NEW c \in Corr, VenueAccepts(c) PROVE Promise!Next
    <3>1. sent[c] = 1
      BY <1>2, <2>3 DEF VenueAccepts, PlacementInv, SentInv
    <3>2. held' = held \cup {c}
      BY <1>2, <2>3, PlacementAssumption DEF VenueAccepts, TypeOK, OrderStatus
    <3>3. Promise!Accept(c)
      BY <2>3, <3>1, <3>2 DEF VenueAccepts, Promise!Accept
    <3> QED BY <3>3 DEF Promise!Next
  <2>4. ASSUME NEW c \in Corr, VenueFinishes(c) PROVE UNCHANGED pvars
    <3>1. held' = held
      BY <1>2, <2>4, PlacementAssumption
      DEF VenueFinishes, TypeOK, OrderStatus, Terminal
    <3> QED BY <2>4, <3>1 DEF VenueFinishes
  <2>5. ASSUME NEW t \in Threads, ThreadStep(t), ~RecordIntent(t), ~Send(t)
        PROVE  UNCHANGED pvars
    BY <2>5 DEF ThreadStep, Approve, Reject, SkipSubmit, StoreStub,
       IntentFails, Reply, SubmitFails, StoreUnknown, RecordUnknown,
       RecordAccepted, AcceptedUnrecorded, PublishUnknown, ReleasePending,
       ReleaseRisk, RecordAndPublish, Persist
  <2>6. ASSUME NEW t \in Threads, NEW c \in Corr,
               \/ ReturnExisting(t, c) \/ LookupRaises(t, c)
               \/ ReportInFlight(t, c) \/ Reserve(t, c)
        PROVE  UNCHANGED pvars
    BY <2>6 DEF ReturnExisting, LookupRaises, ReportInFlight, Reserve
  <2>7. ASSUME NEW c \in Corr,
               \/ PendingExpires(c) \/ RiskPendingExpires(c) \/ VenueDrops(c)
               \/ FeedUpdate(c) \/ ApplyMassStatus(c)
        PROVE  UNCHANGED pvars
    BY <2>7 DEF PendingExpires, RiskPendingExpires, VenueDrops, FeedUpdate,
       ApplyMassStatus
  <2>8. CASE Crash
    BY <2>8 DEF Crash
  <2> HIDE DEF pvars
  <2> QED BY <1>2, <2>1, <2>2, <2>3, <2>4, <2>5, <2>6, <2>7, <2>8 DEF Next
<1>3. TypeOK /\ PlacementInv /\ [Next]_vars => [Promise!Next]_pvars
  BY <1>2 DEF vars, ledgerVars, venueVars
<1>4. KeepsPromise <=> Promise!Init /\ [][Promise!Next]_pvars
  BY DEF KeepsPromise, Promise!Spec
<1> QED BY <1>1, <1>3, <1>4, PlacementInvariant, PTL DEF Spec

-----------------------------------------------------------------------------
\* A step of a thread that keeps its reservation, and lets the others keep theirs.
LEMMA PlacerMoves ==
    ASSUME TypeOK, SinglePlacer, NEW t \in Threads, NEW p,
           pc[t] \notin {"idle", "release_risk", "persist"},
           p \notin {"idle", "release_risk", "persist"},
           pc' = [pc EXCEPT ![t] = p], UNCHANGED <<req, pending>>
    PROVE  SinglePlacer'
<1>1. \A u \in Threads, c \in Corr : Placing(u, c)' <=> Placing(u, c)
  BY DEF Placing, TypeOK
<1> QED BY <1>1 DEF SinglePlacer

\* A thread that gives its reservation back was the only one placing its id.
LEMMA PlacerLeaves ==
    ASSUME TypeOK, CallInv, SinglePlacer, NEW t \in Threads,
           NEW p \in {"release_risk", "persist"},
           pc[t] \notin {"idle", "release_risk", "persist"},
           pc' = [pc EXCEPT ![t] = p], req' = req, pending' = pending \ {req[t]}
    PROVE  SinglePlacer'
<1>1. req[t] \in Corr /\ Placing(t, req[t])
  BY DEF CallInv, Placing
<1>2. \A u \in Threads, c \in Corr : Placing(u, c)' <=> u # t /\ Placing(u, c)
  BY DEF Placing, TypeOK
<1>3. \A c \in Corr : Placing(t, c) => c = req[t]
  BY DEF Placing
<1> QED BY <1>1, <1>2, <1>3 DEF SinglePlacer

\* A step of a thread that holds no reservation, before and after.
LEMMA PlacerAbsent ==
    ASSUME TypeOK, SinglePlacer, NEW t \in Threads,
           pc[t] \in {"idle", "release_risk", "persist"},
           pc' = [pc EXCEPT ![t] = "idle"], pending' = pending,
           \A u \in Threads \ {t} : req'[u] = req[u]
    PROVE  SinglePlacer'
<1>1. \A u \in Threads, c \in Corr : Placing(u, c)' <=> Placing(u, c)
  BY DEF Placing, TypeOK
<1> QED BY <1>1 DEF SinglePlacer

\* check_and_reserve, _release_pending and record_and_publish hand the reservation
\* on, the other steps leave it where it is.
LEMMA SinglePlacerStep ==
    TypeOK /\ CallInv /\ SinglePlacer /\ [Next]_vars => SinglePlacer'
<1> SUFFICES ASSUME TypeOK, CallInv, SinglePlacer, [Next]_vars
             PROVE  SinglePlacer'
  OBVIOUS
<1> USE DEF Goto, threadVars
<1>1. CASE PendingExpiry
  BY <1>1 DEF SinglePlacer
<1>2. ASSUME NEW t \in Threads,
             \/ Approve(t) \/ Reject(t) \/ SkipSubmit(t) \/ StoreStub(t)
             \/ RecordIntent(t) \/ IntentFails(t) \/ Send(t) \/ Reply(t)
             \/ SubmitFails(t) \/ StoreUnknown(t)
      PROVE  SinglePlacer'
  BY <1>2, PlacerMoves DEF Approve, Reject, SkipSubmit, StoreStub, RecordIntent,
     IntentFails, Send, Reply, SubmitFails, StoreUnknown
<1>3. ASSUME NEW t \in Threads,
             \/ RecordUnknown(t) \/ RecordAccepted(t) \/ AcceptedUnrecorded(t)
             \/ PublishUnknown(t)
      PROVE  SinglePlacer'
  BY <1>3, PlacerMoves DEF RecordUnknown, RecordAccepted, AcceptedUnrecorded,
     PublishUnknown
<1>4. ASSUME NEW t \in Threads, ReleasePending(t) \/ RecordAndPublish(t)
      PROVE  SinglePlacer'
  BY <1>4, PlacerLeaves DEF ReleasePending, RecordAndPublish
<1>5. ASSUME NEW t \in Threads, ReleaseRisk(t) \/ Persist(t) PROVE SinglePlacer'
  BY <1>5, PlacerAbsent DEF ReleaseRisk, Persist
<1>6. ASSUME NEW t \in Threads, NEW c \in Corr,
             ReturnExisting(t, c) \/ LookupRaises(t, c) \/ ReportInFlight(t, c)
      PROVE  SinglePlacer'
  <2>1. /\ pc[t] = "idle" /\ pc' = pc /\ pending' = pending
        /\ req' = [req EXCEPT ![t] = c]
    BY <1>6 DEF ReturnExisting, LookupRaises, ReportInFlight
  <2> QED BY <2>1, PlacerAbsent DEF TypeOK
<1>7. ASSUME NEW t \in Threads, NEW c \in Corr, Reserve(t, c), ~PendingExpiry
      PROVE  SinglePlacer'
  <2>1. /\ pc[t] = "idle" /\ c \notin pending /\ pending' = pending \cup {c}
        /\ pc' = [pc EXCEPT ![t] = "validate"] /\ req' = [req EXCEPT ![t] = c]
    BY <1>7 DEF Reserve
  <2>2. \A u \in Threads, b \in Corr :
           Placing(u, b)' <=> IF u = t THEN b = c ELSE Placing(u, b)
    BY <2>1 DEF Placing, TypeOK
  <2>3. \A u \in Threads : ~Placing(u, c)
    BY <1>7, <2>1 DEF SinglePlacer
  <2>4. \A b \in Corr : ~Placing(t, b)
    BY <2>1 DEF Placing
  <2>5. \A b \in Corr : b \in pending' <=> \E u \in Threads : Placing(u, b)'
    BY <1>7, <2>1, <2>2, <2>4 DEF SinglePlacer
  <2>6. \A u, v \in Threads, b \in Corr : Placing(u, b)' /\ Placing(v, b)' => u = v
    BY <1>7, <2>2, <2>3 DEF SinglePlacer
  <2> QED BY <2>5, <2>6 DEF SinglePlacer
<1>8. ASSUME UNCHANGED <<pc, req, pending>> PROVE SinglePlacer'
  BY <1>8 DEF SinglePlacer, Placing
<1>9. ASSUME NEW c \in Corr,
             \/ RiskPendingExpires(c) \/ VenueAccepts(c) \/ VenueDrops(c)
             \/ VenueFinishes(c) \/ FeedUpdate(c) \/ ApplyMassStatus(c)
      PROVE  SinglePlacer'
  BY <1>8, <1>9 DEF RiskPendingExpires, VenueAccepts, VenueDrops, VenueFinishes,
     FeedUpdate, ApplyMassStatus
<1>10. ASSUME NEW c \in Corr, PendingExpires(c) PROVE SinglePlacer'
  BY <1>1, <1>10 DEF PendingExpires
<1>11. CASE Crash
  BY <1>11 DEF Crash, SinglePlacer, Placing
<1>12. CASE UNCHANGED vars
  BY <1>8, <1>12 DEF vars
<1> QED BY <1>1, <1>2, <1>3, <1>4, <1>5, <1>6, <1>7, <1>9, <1>10, <1>11, <1>12
        DEF Next, ThreadStep

\* check_and_reserve: while reservations do not lapse, one thread at a time is
\* placing a correlation id, across failures and restarts.
THEOREM OnePlacerAtATime == Spec => []SinglePlacer
<1>1. Init => SinglePlacer
  BY DEF Init, SinglePlacer, Placing
<1>2. TypeOK /\ PlacementInv /\ SinglePlacer /\ [Next]_vars => SinglePlacer'
  BY SinglePlacerStep DEF PlacementInv
<1> QED BY <1>1, <1>2, PlacementInvariant, PTL DEF Spec

-----------------------------------------------------------------------------
\* An order the book knows by its correlation id is never forgotten, but by a
\* restart.
LEMMA KnownStays ==
    ASSUME TypeOK, CallInv, Next, ~Crash, NEW c \in Corr, byCorr[c] # None
    PROVE  byCorr'[c] # None
<1>1. \A o \in Orders : o # None /\ o.status \in OrderStatus
  BY PlacementAssumption DEF Orders
<1>2. ASSUME NEW o \in Orders, UpsertOrder(o) PROVE byCorr'[c] # None
  <2>1. byCorr' = byCorr \/ (o.corr # None /\ byCorr' = [byCorr EXCEPT ![o.corr] = o])
    BY <1>2 DEF UpsertOrder
  <2> QED BY <1>1, <2>1 DEF TypeOK
<1>3. ASSUME NEW t \in Threads, NEW o \in Orders, byCorr' = [byCorr EXCEPT ![req[t]] = o]
      PROVE  byCorr'[c] # None
  BY <1>1, <1>3 DEF TypeOK
<1>4. ASSUME byCorr' = byCorr PROVE byCorr'[c] # None
  BY <1>4
<1>5. ASSUME NEW t \in Threads, pc[t] # "idle"
      PROVE  ord[t] \in Orders /\ [ord[t] EXCEPT !.status = "UNKNOWN"] \in Orders
  BY <1>5, UnknownType DEF CallInv
<1>6. ASSUME NEW t \in Threads, StoreStub(t) \/ RecordAndPublish(t) \/ StoreUnknown(t)
      PROVE  byCorr'[c] # None
  BY <1>3, <1>5, <1>6 DEF StoreStub, RecordAndPublish, StoreUnknown
<1>7. ASSUME NEW t \in Threads, AcceptedUnrecorded(t) PROVE byCorr'[c] # None
  BY <1>3, <1>4, <1>5, <1>7 DEF AcceptedUnrecorded
<1>8. ASSUME NEW t \in Threads, PublishUnknown(t) PROVE byCorr'[c] # None
  BY <1>2, <1>5, <1>8 DEF PublishUnknown
<1>9. ASSUME NEW b \in Corr, FeedUpdate(b) \/ ApplyMassStatus(b)
      PROVE  byCorr'[c] # None
  BY <1>2, <1>9, ReportType DEF FeedUpdate, ApplyMassStatus
<1>10. ASSUME NEW t \in Threads, NEW b \in Corr, ReturnExisting(t, b)
       PROVE  byCorr'[c] # None
  <2>1. PICK o : o # None /\ byCorr' = [byCorr EXCEPT ![b] = o]
    BY <1>10 DEF ReturnExisting
  <2> QED BY <2>1 DEF TypeOK
<1>11. ASSUME NEW t \in Threads, NEW b \in Corr,
              LookupRaises(t, b) \/ ReportInFlight(t, b) \/ Reserve(t, b)
       PROVE  byCorr'[c] # None
  BY <1>4, <1>11 DEF LookupRaises, ReportInFlight, Reserve, bookVars
<1>12. ASSUME NEW t \in Threads,
              \/ Approve(t) \/ Reject(t) \/ SkipSubmit(t) \/ RecordIntent(t)
              \/ IntentFails(t) \/ Send(t) \/ Reply(t) \/ SubmitFails(t)
              \/ RecordUnknown(t) \/ RecordAccepted(t) \/ ReleasePending(t)
              \/ ReleaseRisk(t) \/ Persist(t)
       PROVE  byCorr'[c] # None
  BY <1>4, <1>12 DEF Approve, Reject, SkipSubmit, RecordIntent, IntentFails, Send,
     Reply, SubmitFails, RecordUnknown, RecordAccepted, ReleasePending, ReleaseRisk,
     Persist, bookVars
<1>13. ASSUME NEW b \in Corr,
              \/ PendingExpires(b) \/ RiskPendingExpires(b) \/ VenueAccepts(b)
              \/ VenueDrops(b) \/ VenueFinishes(b)
       PROVE  byCorr'[c] # None
  BY <1>4, <1>13 DEF PendingExpires, RiskPendingExpires, VenueAccepts, VenueDrops,
     VenueFinishes, bookVars
<1> QED BY <1>6, <1>7, <1>8, <1>9, <1>10, <1>11, <1>12, <1>13 DEF Next, ThreadStep

\* Exposure is reserved for an order of the book or a running call, and a call
\* that has recorded its order has it in the book.
Backed ==
    /\ NoStrandedExposure
    /\ \A t \in Threads : pc[t] = "persist" => byCorr[req[t]] # None

\* A step under which calls stay what they are and no exposure is added.
LEMMA BackedStays ==
    ASSUME TypeOK, Backed,
           riskPending' \subseteq riskPending,
           \A c \in Corr : byCorr[c] # None => byCorr'[c] # None,
           \A t \in Threads : req[t] \in Corr \/ pc[t] = "idle",
           \A t \in Threads : pc[t] # "idle" => pc'[t] # "idle" /\ req'[t] = req[t],
           \A t \in Threads : pc'[t] = "persist" => pc[t] = "persist"
    PROVE  Backed'
<1>1. \A t \in Threads : pc'[t] = "persist" => byCorr'[req'[t]] # None
  BY DEF Backed
<1>2. \A c \in riskPending' : c \in Corr
  BY DEF TypeOK
<1>3. ASSUME NEW c \in riskPending'
      PROVE  byCorr'[c] # None \/ \E t \in Threads : req'[t] = c /\ pc'[t] # "idle"
  BY <1>2 DEF Backed, NoStrandedExposure
<1> QED BY <1>1, <1>3 DEF Backed, NoStrandedExposure

\* A call leaves its exposure behind only once its order is in the book.
LEMMA BackedStep == TypeOK /\ CallInv /\ Backed /\ [Next]_vars => Backed'
<1> SUFFICES ASSUME TypeOK, CallInv, Backed, [Next]_vars PROVE Backed'
  OBVIOUS
<1> USE DEF Goto, threadVars
<1>1. \A t \in Threads : req[t] \in Corr \/ pc[t] = "idle"
  BY DEF CallInv
<1>2. CASE Crash
  BY <1>2 DEF Crash, Backed, NoStrandedExposure
<1>3. CASE UNCHANGED vars
  BY <1>3 DEF vars, bookVars, Backed, NoStrandedExposure
<1>4. ASSUME Next, ~Crash PROVE Backed'
  <2>1. \A c \in Corr : byCorr[c] # None => byCorr'[c] # None
    BY <1>4, KnownStays
  <2>2. ASSUME NEW t \in Threads, pc[t] # "idle",
               NEW p \in Phases \ {"idle", "persist"}, pc' = [pc EXCEPT ![t] = p],
               UNCHANGED <<req, riskPending>>
        PROVE  Backed'
    BY <1>1, <2>1, <2>2, BackedStays DEF TypeOK
  <2>3. ASSUME NEW t \in Threads,
               \/ Reject(t) \/ SkipSubmit(t) \/ StoreStub(t) \/ RecordIntent(t)
               \/ IntentFails(t) \/ Send(t) \/ Reply(t) \/ SubmitFails(t)
               \/ StoreUnknown(t) \/ RecordUnknown(t)
        PROVE  Backed'
    BY <2>2, <2>3 DEF Reject, SkipSubmit, StoreStub, RecordIntent, IntentFails,
       Send, Reply, SubmitFails, StoreUnknown, RecordUnknown, Phases
  <2>4. ASSUME NEW t \in Threads,
               \/ RecordAccepted(t) \/ AcceptedUnrecorded(t) \/ PublishUnknown(t)
               \/ ReleasePending(t)
        PROVE  Backed'
    BY <2>2, <2>4 DEF RecordAccepted, AcceptedUnrecorded, PublishUnknown,
       ReleasePending, Phases
  <2>5. ASSUME NEW t \in Threads, Approve(t) PROVE Backed'
    <3>1. /\ pc[t] # "idle" /\ pc' = [pc EXCEPT ![t] = "submit"]
          /\ byCorr' = byCorr /\ req' = req
          /\ riskPending' = riskPending \cup {req[t]}
      BY <2>5 DEF Approve, bookVars
    <3>2. \A u \in Threads : /\ pc[u] # "idle" => pc'[u] # "idle"
                             /\ pc'[u] = "persist" => pc[u] = "persist"
      BY <3>1 DEF TypeOK
    <3>3. req'[t] = req[t] /\ pc'[t] # "idle"
      BY <3>1 DEF TypeOK
    <3> QED BY <3>1, <3>2, <3>3 DEF Backed, NoStrandedExposure
  <2>6. ASSUME NEW t \in Threads, RecordAndPublish(t) PROVE Backed'
    <3>1. /\ pc[t] # "idle" /\ pc' = [pc EXCEPT ![t] = "persist"]
          /\ byCorr' = [byCorr EXCEPT ![req[t]] = ord[t]]
          /\ UNCHANGED <<req, riskPending>>
      BY <2>6 DEF RecordAndPublish
    <3>2. ord[t] # None /\ req[t] \in Corr
      BY <3>1, PlacementAssumption DEF CallInv
    <3>3. byCorr'[req[t]] # None
      BY <3>1, <3>2 DEF TypeOK
    <3>4. \A u \in Threads : pc'[u] = "persist" => u = t \/ pc[u] = "persist"
      BY <3>1 DEF TypeOK
    <3>5. \A u \in Threads : pc[u] # "idle" => pc'[u] # "idle"
      BY <3>1 DEF TypeOK
    <3>6. \A u \in Threads : pc'[u] = "persist" => byCorr'[req'[u]] # None
      BY <1>1, <2>1, <3>1, <3>3, <3>4 DEF Backed
    <3>7. riskPending \subseteq Corr
      BY DEF TypeOK
    <3> QED BY <2>1, <3>1, <3>5, <3>6, <3>7 DEF Backed, NoStrandedExposure
  <2>7. ASSUME NEW t \in Threads, Persist(t) \/ ReleaseRisk(t) PROVE Backed'
    <3>1. /\ pc[t] # "idle" /\ pc' = [pc EXCEPT ![t] = "idle"]
          /\ byCorr' = byCorr /\ req' = req
          /\ riskPending' \subseteq riskPending
          /\ req[t] \in riskPending' => byCorr[req[t]] # None
      BY <2>7 DEF Persist, ReleaseRisk, bookVars, Backed
    <3>2. \A u \in Threads : u # t => pc'[u] = pc[u]
      BY <3>1 DEF TypeOK
    <3>3. pc'[t] # "persist"
      BY <3>1 DEF TypeOK
    <3>4. \A u \in Threads : pc'[u] = "persist" => byCorr'[req'[u]] # None
      BY <3>1, <3>2, <3>3 DEF Backed
    <3>5. ASSUME NEW c \in riskPending'
          PROVE  byCorr'[c] # None \/ \E u \in Threads : req'[u] = c /\ pc'[u] # "idle"
      <4>1. CASE c = req[t]
        BY <3>1, <4>1
      <4>2. CASE c # req[t]
        BY <3>1, <3>2, <4>2 DEF Backed, NoStrandedExposure
      <4> QED BY <4>1, <4>2
    <3> QED BY <3>4, <3>5 DEF Backed, NoStrandedExposure
  <2>8. ASSUME NEW t \in Threads, NEW c \in Corr,
               \/ ReturnExisting(t, c) \/ LookupRaises(t, c) \/ ReportInFlight(t, c)
               \/ Reserve(t, c)
        PROVE  Backed'
    <3>1. /\ pc[t] = "idle"
          /\ req' = [req EXCEPT ![t] = c] /\ riskPending' = riskPending
      BY <2>8 DEF ReturnExisting, LookupRaises, ReportInFlight, Reserve
    <3>2. \A u \in Threads : pc[u] # "idle" => pc'[u] # "idle" /\ req'[u] = req[u]
      BY <2>8 DEF ReturnExisting, LookupRaises, ReportInFlight, Reserve, TypeOK
    <3>3. \A u \in Threads : pc'[u] = "persist" => pc[u] = "persist"
      BY <2>8 DEF ReturnExisting, LookupRaises, ReportInFlight, Reserve, TypeOK
    <3> QED BY <1>1, <2>1, <3>1, <3>2, <3>3, BackedStays
  <2>9. ASSUME UNCHANGED <<pc, req>>, riskPending' \subseteq riskPending PROVE Backed'
    BY <1>1, <2>1, <2>9, BackedStays
  <2>10. ASSUME NEW c \in Corr,
                \/ PendingExpires(c) \/ RiskPendingExpires(c) \/ VenueAccepts(c)
                \/ VenueDrops(c) \/ VenueFinishes(c) \/ FeedUpdate(c)
                \/ ApplyMassStatus(c)
         PROVE  Backed'
    BY <2>9, <2>10 DEF PendingExpires, RiskPendingExpires, VenueAccepts, VenueDrops,
       VenueFinishes, FeedUpdate, ApplyMassStatus
  <2> QED BY <1>4, <2>3, <2>4, <2>5, <2>6, <2>7, <2>8, <2>10 DEF Next, ThreadStep
<1> QED BY <1>2, <1>3, <1>4

\* place_order, _release_pending: no refusal, failure or overlap of calls leaves
\* exposure reserved for an order nobody knows.
THEOREM ExposureNeverStranded == Spec => []NoStrandedExposure
<1>1. Init => Backed
  BY DEF Init, Backed, NoStrandedExposure
<1>2. TypeOK /\ PlacementInv /\ Backed /\ [Next]_vars => Backed'
  BY BackedStep DEF PlacementInv
<1>3. Backed => NoStrandedExposure
  BY DEF Backed
<1> QED BY <1>1, <1>2, <1>3, PlacementInvariant, PTL DEF Spec

=============================================================================
