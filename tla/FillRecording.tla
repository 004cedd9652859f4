--------------------------- MODULE FillRecording ---------------------------
(***************************************************************************)
(* How a fill at the venue reaches the order book, the execution ledger,   *)
(* the processed-trade marks and the position book: the Upstox portfolio   *)
(* stream (src/brokers/providers/upstox/websocket/portfolio_stream.py),    *)
(* TradeRecorder, FillReducer and PositionManager (src/application/oms),   *)
(* with the reconciliation loop and the end of place_order as the other    *)
(* writers of the same books.                                              *)
(*                                                                         *)
(* All orders are in one symbol; quantities are in lots.  record_trade and *)
(* upsert_order hold the OMS lock, so a step is one durable write, or all  *)
(* a critical section does between two durable writes.  A handler that     *)
(* raises is dead-lettered by the event bus and the publisher goes on.     *)
(*                                                                         *)
(* OrderStatus has no is_terminal (src/domain/enums.py:18): after a status *)
(* change upsert_order raises where it asks for it, with the book written  *)
(* and the buffered trades, the publication and the save not reached.      *)
(***************************************************************************)
EXTENDS OrderStatuses, Integers, Sequences, FiniteSets, Functions

CONSTANTS OrderIds,       \* orders the venue has accepted
          OrderQty,       \* their quantities
          Sign,           \* 1 for a BUY, -1 for a SELL
          BufferMax,      \* _pending_trades_max_per_order (32)
          SeenMax,        \* length of _processed_trade_id_order (10_000)
          MaxCrashes,     \* bound on process restarts
          Reconciles,     \* whether the reconciliation loop runs
          MemoryExpires,  \* whether _last_cumulative_filled entries time out
          TradeUpdates,   \* whether the venue also sends trade updates
          WritesFail,     \* the writes that may fail: "store", "ledger", "mark"
          None

ASSUME FillAssumption ==
    /\ IsFiniteSet(OrderIds)
    /\ OrderQty \in [OrderIds -> Nat \ {0}]
    /\ Sign \in [OrderIds -> {1, -1}]
    /\ BufferMax \in Nat /\ SeenMax \in Nat \ {0} /\ MaxCrashes \in Nat
    /\ {Reconciles, MemoryExpires, TradeUpdates} \subseteq BOOLEAN
    /\ WritesFail \subseteq {"store", "ledger", "mark"}

\* An order as the book, the store, the venue and its messages describe it.
Order(s, q) == [status |-> s, filled |-> q]
Orders == [status : OrderStatus, filled : Nat]
Updates == [order : OrderIds, is : Orders]

\* A trade names the venue's cumulative quantity it reaches and what brought
\* it: derived by the stream from an order update (trade_id "order:cumulative")
\* or a trade update with the exchange's own id.
Sources == {"order", "trade"}
Trades == [order : OrderIds, cum : Nat \ {0}, qty : Nat \ {0}, via : Sources]

\* TradeIdKey.from_trade: the quantity is not part of a trade's identity.
Keys == OrderIds \X Nat \X Sources
Key(t) == <<t.order, t.cum, t.via>>

Actors == {"stream", "recon", "placer"}
PositionStates == {"FLAT", "OPEN", "REDUCING", "CLOSED", "REVERSED"}

VARIABLES
    venue,      \* the order at the venue
    messages,   \* order updates the venue has emitted, [order, is]
    executions, \* trade updates the venue has emitted
    pc,         \* where each actor is in its handler
    snap,       \* the order an actor is about to save, [order, is]
    work,       \* trades the lock holder is recording
    last,       \* UpstoxPortfolioStream._last_cumulative_filled
    fetched,    \* the broker's order list a reconciliation run holds
    todo,       \* the orders of that list still to be healed
    net,        \* the broker's net position the run holds
    placed,     \* orders whose placement has been recorded
    orders,     \* OrderManager._orders
    machine,    \* OrderStateValidator._state_machines
    store,      \* table orders of SqliteOrderStore
    buffer,     \* TradeRecorder._pending_trades_by_order
    processed,  \* ProcessedTradeRepository, in memory
    marks,      \* ProcessedTradeRepository, on disk
    seenFills,  \* FillReducer._seen_fill_ids
    cumulative, \* FillReducer._cumulative_by_order
    fills,      \* table fill_events of the execution ledger
    position,   \* net quantity of the position book
    posState,   \* PositionManager._position_states
    posSeen,    \* PositionManager._processed_trade_id_order
    crashes,
    \* History of this process life: quantity the position book took over per
    \* order, the trades it took over, and the marks it started from.
    booked, counted, loaded

venueVars == <<venue, messages, executions>>
reconVars == <<fetched, todo, net>>
bookVars  == <<orders, machine>>
markVars  == <<processed, marks>>
fillVars  == <<seenFills, cumulative>>
posVars   == <<position, posState, posSeen, booked, counted>>
vars == <<venueVars, pc, snap, work, last, reconVars, placed, bookVars, store,
          buffer, markVars, fillVars, fills, posVars, crashes, loaded>>

Phases == {"idle", "trade", "apply", "flush_check", "flush_apply",
           "save_order", "read_order", "save_fill", "fetch_positions"}

TypeOK ==
    /\ venue \in [OrderIds -> Orders]
    /\ messages \subseteq Updates /\ executions \subseteq Trades
    /\ pc \in [Actors -> Phases]
    /\ snap \in [Actors -> Updates \cup {None}]
    /\ work \in Seq(Trades)
    /\ last \in [OrderIds -> Nat]
    /\ fetched \in [OrderIds -> Orders] \cup {None}
    /\ net \in Int \cup {None}
    /\ todo \subseteq OrderIds /\ placed \subseteq OrderIds
    /\ orders \in [OrderIds -> Orders \cup {None}]
    /\ store \in [OrderIds -> Orders \cup {None}]
    /\ machine \in [OrderIds -> OrderStatus \cup {None}]
    /\ buffer \in [OrderIds -> Seq(Trades)]
    /\ \A o \in OrderIds : Len(buffer[o]) <= BufferMax
    /\ processed \subseteq Keys /\ marks \subseteq Keys
    /\ seenFills \subseteq Keys /\ fills \subseteq Keys
    /\ cumulative \in [OrderIds -> Nat]
    /\ position \in Int /\ posState \in PositionStates
    /\ posSeen \in Seq(Keys) /\ Len(posSeen) <= SeenMax
    /\ crashes \in 0 .. MaxCrashes
    /\ booked \in [OrderIds -> Nat]
    /\ counted \subseteq Keys /\ loaded \subseteq Keys

Init ==
    /\ venue = [o \in OrderIds |-> Order("OPEN", 0)]
    /\ messages = {[order |-> o, is |-> Order("OPEN", 0)] : o \in OrderIds}
    /\ executions = {}
    /\ pc = [a \in Actors |-> "idle"]
    /\ snap = [a \in Actors |-> None]
    /\ work = <<>>
    /\ last = [o \in OrderIds |-> 0]
    /\ fetched = None /\ todo = {} /\ net = None /\ placed = {}
    /\ orders = [o \in OrderIds |-> None]
    /\ machine = [o \in OrderIds |-> None]
    /\ store = [o \in OrderIds |-> None]
    /\ buffer = [o \in OrderIds |-> <<>>]
    /\ processed = {} /\ marks = {}
    /\ seenFills = {}
    /\ cumulative = [o \in OrderIds |-> 0]
    /\ fills = {}
    /\ position = 0 /\ posState = "FLAT" /\ posSeen = <<>>
    /\ crashes = 0
    /\ booked = [o \in OrderIds |-> 0]
    /\ counted = {} /\ loaded = {}

Goto(a, phase) ==
    /\ pc' = [pc EXCEPT ![a] = phase]
    /\ snap' = IF phase = "idle" THEN [snap EXCEPT ![a] = None] ELSE snap

\* A handler's own order is set, or dropped when the handler is through.
Enter(a, phase, m) ==
    /\ pc' = [pc EXCEPT ![a] = phase]
    /\ snap' = IF phase = "idle" THEN snap ELSE [snap EXCEPT ![a] = m]

\* The OMS lock is held from the first durable write of a critical section on.
Locked == \E a \in Actors : pc[a] \in {"apply", "flush_check", "flush_apply"}

(***************************************************************************)
(* The venue: external.  It fills and cancels its orders and emits updates *)
(* each time; the stream may deliver any of them at any time, more than    *)
(* once, late or never.  A part-filled order may still be called OPEN.     *)
(***************************************************************************)
Emit(o, is) ==
    /\ venue' = [venue EXCEPT ![o] = is]
    /\ messages' = messages \cup {[order |-> o, is |-> is]}
    /\ UNCHANGED <<pc, snap, work, last, reconVars, placed, bookVars, store,
                   buffer, markVars, fillVars, fills, posVars, crashes, loaded>>

VenueFills(o) ==
    /\ venue[o].status \in {"OPEN", "PARTIALLY_FILLED"}
    /\ \E n \in venue[o].filled + 1 .. OrderQty[o] :
         \E s \in IF n = OrderQty[o] THEN {"FILLED"}
                  ELSE {"OPEN", "PARTIALLY_FILLED"} :
            /\ Emit(o, Order(s, n))
            /\ executions' = IF ~TradeUpdates THEN executions
                             ELSE executions \cup
                                    {[order |-> o, cum |-> n, via |-> "trade",
                                      qty |-> n - venue[o].filled]}

VenueCancels(o) ==
    /\ venue[o].status \in {"OPEN", "PARTIALLY_FILLED"}
    /\ Emit(o, [venue[o] EXCEPT !.status = "CANCELLED"])
    /\ UNCHANGED executions

(***************************************************************************)
(* upsert_order of update m by actor a.  Buffered trades are popped and    *)
(* recorded before the lock is released; then m itself is saved, not what  *)
(* the buffered trades made of it.                                         *)
(***************************************************************************)
\* Where an actor goes on when its upsert_order has returned or raised.
AfterUpsert(a) == IF a = "stream" THEN "trade" ELSE "idle"

UpsertOrder(a, m) ==
    LET o        == m.order
        existing == orders[o]
        changed  == existing # None /\ existing.status # m.is.status
        state    == IF machine[o] = None THEN existing.status ELSE machine[o]
        legal    == changed => CanTransition(state, m.is.status)
    IN  /\ ~Locked
        /\ machine' = IF ~changed THEN machine
                      ELSE [machine EXCEPT ![o] =
                              IF legal THEN m.is.status ELSE state]
        /\ orders' = IF legal THEN [orders EXCEPT ![o] = m.is] ELSE orders
        /\ IF changed
           THEN Enter(a, AfterUpsert(a), m) /\ UNCHANGED <<work, buffer>>
           ELSE /\ work' = buffer[o]
                /\ buffer' = [buffer EXCEPT ![o] = <<>>]
                /\ Enter(a, IF buffer[o] = <<>> THEN "save_order"
                            ELSE "flush_check", m)
        /\ UNCHANGED <<venueVars, last, store, markVars, fillVars, fills,
                       posVars, crashes, loaded>>

\* The stream publishes ORDER_UPDATED for a message of the venue.
FeedOrder(m) ==
    /\ pc["stream"] = "idle"
    /\ UpsertOrder("stream", m)
    /\ UNCHANGED <<reconVars, placed>>

\* _persist_order, outside the lock; a failing write is logged and dropped.
SaveOrder(a) ==
    /\ pc[a] \in {"save_order", "save_fill"}
    /\ \/ store' = [store EXCEPT ![snap[a].order] = snap[a].is]
       \/ "store" \in WritesFail /\ UNCHANGED store
    /\ Goto(a, IF pc[a] = "save_order" THEN AfterUpsert(a) ELSE "idle")
    /\ UNCHANGED <<venueVars, work, last, reconVars, placed, bookVars,
                   buffer, markVars, fillVars, fills, posVars, crashes, loaded>>

(***************************************************************************)
(* The TRADE event the stream derives from the cumulative quantity of the  *)
(* same message, and record_trade up to the ledger write.                  *)
(***************************************************************************)

\* Mutant: the cumulative quantity taken for the increment.
DerivedTradeCumulative(m) ==
    [order |-> m.order, cum |-> m.is.filled, via |-> "order",
     qty |-> m.is.filled]

DerivedTrade(m) ==
    [order |-> m.order, cum |-> m.is.filled, via |-> "order",
     qty |-> m.is.filled - last[m.order]]

\* FillReducer.validate, on the cumulative quantity of fill_from_trade.
FillCumulative(t) == orders[t.order].filled + t.qty

\* Mutant: no check against the order's quantity.
ValidFillUnbounded(t) ==
    /\ Key(t) \notin seenFills
    /\ FillCumulative(t) >= cumulative[t.order]

ValidFill(t) ==
    /\ Key(t) \notin seenFills
    /\ FillCumulative(t) >= cumulative[t.order]
    /\ FillCumulative(t) <= OrderQty[t.order]

\* FillReducer.commit.
CommitFill(t) ==
    /\ seenFills' = seenFills \cup {Key(t)}
    /\ cumulative' = [cumulative EXCEPT ![t.order] = FillCumulative(t)]

\* No TRADE for a message whose cumulative quantity is not above the last.
NothingNew(m) == m.is.filled <= last[m.order]

FeedNothingNew ==
    /\ pc["stream"] = "trade"
    /\ NothingNew(snap["stream"])
    /\ Goto("stream", "idle")
    /\ UNCHANGED <<venueVars, work, last, reconVars, placed, bookVars,
                   store, buffer, markVars, fillVars, fills, posVars, crashes,
                   loaded>>

\* Mutant: a failing ledger write is dropped, the fill goes on.
LedgerWriteDropped(t) == fills' \in {fills, fills \cup {Key(t)}}

\* record_fill; when it raises, nothing more of the trade happens.
LedgerWrite(t) == fills' = fills \cup {Key(t)}

\* record_trade up to the ledger write.
RecordTrade(t) ==
    LET known == orders[t.order] # None
        fits  == Len(buffer[t.order]) < BufferMax
    IN  /\ ~Locked
        /\ \/ /\ \/ Key(t) \in processed
                 \/ known /\ ("ledger" \in WritesFail \/ ~ValidFill(t))
              /\ Goto("stream", "idle")
              /\ UNCHANGED <<work, buffer, fills>>
           \/ /\ Key(t) \notin processed /\ ~known
              /\ buffer' = IF fits THEN [buffer EXCEPT ![t.order] = Append(@, t)]
                           ELSE buffer
              /\ Goto("stream", "idle")
              /\ UNCHANGED <<work, fills>>
           \/ /\ Key(t) \notin processed /\ known /\ ValidFill(t)
              /\ LedgerWrite(t)
              /\ work' = <<t>>
              /\ Enter("stream", "apply",
                       [order |-> t.order, is |-> orders[t.order]])
              /\ UNCHANGED buffer
        /\ UNCHANGED <<venueVars, reconVars, placed, bookVars, store, markVars,
                       fillVars, posVars, crashes, loaded>>

\* _publish_trade_for_order, after the order update of the same message.
FeedTrade ==
    /\ pc["stream"] = "trade"
    /\ ~NothingNew(snap["stream"])
    /\ last' = [last EXCEPT ![snap["stream"].order] = snap["stream"].is.filled]
    /\ RecordTrade(DerivedTrade(snap["stream"]))

\* A trade update of the stream.
FeedTradeUpdate(t) ==
    /\ pc["stream"] = "idle"
    /\ RecordTrade(t)
    /\ UNCHANGED last

(***************************************************************************)
(* flush_pending_trades_locked: the buffered trades, one after the other.  *)
(* The reducer is told of a fill before the fill is on the ledger.         *)
(***************************************************************************)
Continue(a, rest) ==
    /\ work' = rest
    /\ Goto(a, IF rest = <<>> THEN "save_order" ELSE "flush_check")

\* A trade that raises ends the loop; the remaining ones are forgotten.  The
\* reconciliation loop's flush runs in a nested handler, whose exception the
\* bus takes, and its save is reached.
AbandonFlush(a) ==
    /\ work' = <<>>
    /\ Goto(a, IF a = "recon" THEN "save_order" ELSE AfterUpsert(a))

FlushCheck(a) ==
    /\ pc[a] = "flush_check"
    /\ LET t  == Head(work)
           ok == Key(t) \notin processed /\ ValidFill(t)
       IN  \/ /\ ~ok
              /\ Continue(a, Tail(work))
              /\ UNCHANGED <<fillVars, fills>>
           \/ /\ ok
              /\ CommitFill(t)
              /\ LedgerWrite(t)
              /\ Goto(a, "flush_apply")
              /\ UNCHANGED work
           \/ /\ ok /\ "ledger" \in WritesFail
              /\ CommitFill(t)
              /\ AbandonFlush(a)
              /\ UNCHANGED fills
    /\ UNCHANGED <<venueVars, last, reconVars, placed, bookVars, store,
                   buffer, markVars, posVars, crashes, loaded>>

(***************************************************************************)
(* apply_trade on the order, TRADE_APPLIED to the position book, then the  *)
(* processed mark, which is in memory before it is on disk.                *)
(***************************************************************************)
AppliedOrder(t) ==
    LET n == FillCumulative(t) IN
    Order(IF n >= OrderQty[t.order] THEN "FILLED" ELSE "PARTIALLY_FILLED", n)

POSITION_STATE_TRANSITIONS ==
    [s \in PositionStates |->
        CASE s = "FLAT"     -> {"OPEN", "REVERSED"}
          [] s = "OPEN"     -> {"OPEN", "REDUCING", "CLOSED", "REVERSED"}
          [] s = "REDUCING" -> {"FLAT", "OPEN", "REVERSED", "CLOSED"}
          [] s = "CLOSED"   -> {"FLAT", "OPEN"}
          [] s = "REVERSED" -> {"FLAT", "OPEN", "REDUCING", "CLOSED"}]

Abs(n) == IF n < 0 THEN -n ELSE n

\* The state a trade puts a position of quantity old into when it becomes new.
NewPositionState(old, new) ==
    CASE old = 0 /\ new # 0 -> "OPEN"
      [] old # 0 /\ new = 0 -> "CLOSED"
      [] old = 0 /\ new = 0 -> posState
      [] old # 0 /\ new # 0 ->
            IF Abs(new) < Abs(old) THEN "REDUCING"
            ELSE IF (old > 0) # (new > 0) THEN "REVERSED" ELSE "OPEN"

\* PositionManager.on_trade_applied: the id is remembered before apply_trade,
\* which raises on an illegal transition and leaves the position as it was.
TradeApplied(t) ==
    IF \E i \in 1 .. Len(posSeen) : posSeen[i] = Key(t) THEN UNCHANGED posVars
    ELSE LET new == position + Sign[t.order] * t.qty
             s   == NewPositionState(position, new)
         IN  /\ posSeen' = Append(IF Len(posSeen) = SeenMax THEN Tail(posSeen)
                                  ELSE posSeen, Key(t))
             /\ IF s = posState \/ s \in POSITION_STATE_TRANSITIONS[posState]
                THEN /\ position' = new
                     /\ posState' = s
                     /\ booked' = [booked EXCEPT ![t.order] = @ + t.qty]
                     /\ counted' = counted \cup {Key(t)}
                ELSE UNCHANGED <<position, posState, booked, counted>>

ApplyFill(a) ==
    /\ pc[a] \in {"apply", "flush_apply"}
    /\ LET t == Head(work)
           flushing == pc[a] = "flush_apply"
       IN  /\ WithStatusAllowed(orders[t.order].status, AppliedOrder(t).status)
           /\ orders' = [orders EXCEPT ![t.order] = AppliedOrder(t)]
           /\ TradeApplied(t)
           /\ processed' = processed \cup {Key(t)}
           /\ \/ /\ marks' = marks \cup {Key(t)}
                 /\ IF flushing
                    THEN Continue(a, Tail(work)) /\ UNCHANGED fillVars
                    ELSE /\ CommitFill(t)
                         /\ work' = <<>>
                         /\ Goto(a, "read_order")
              \/ /\ "mark" \in WritesFail
                 /\ IF flushing THEN AbandonFlush(a)
                    ELSE work' = <<>> /\ Goto(a, "idle")
                 /\ UNCHANGED <<marks, fillVars>>
    /\ UNCHANGED <<venueVars, last, reconVars, placed, machine, store,
                   buffer, fills, crashes, loaded>>

\* Mutant: the mark is written although apply_trade raised (Defect R6).
ApplyRaisesMarked(a) ==
    /\ pc[a] \in {"apply", "flush_apply"}
    /\ LET t == Head(work) IN
       /\ ~WithStatusAllowed(orders[t.order].status, AppliedOrder(t).status)
       /\ processed' = processed \cup {Key(t)}
       /\ marks' = marks \cup {Key(t)}
    /\ IF pc[a] = "flush_apply" THEN AbandonFlush(a)
       ELSE work' = <<>> /\ Goto(a, "idle")
    /\ UNCHANGED <<venueVars, last, reconVars, placed, bookVars, store,
                   buffer, fillVars, fills, posVars, crashes, loaded>>

\* with_status raises: the fill is on the ledger, not on the order.
ApplyRaises(a) ==
    /\ pc[a] \in {"apply", "flush_apply"}
    /\ LET t == Head(work) IN
       ~WithStatusAllowed(orders[t.order].status, AppliedOrder(t).status)
    /\ IF pc[a] = "flush_apply" THEN AbandonFlush(a)
       ELSE work' = <<>> /\ Goto(a, "idle")
    /\ UNCHANGED <<venueVars, last, reconVars, placed, bookVars, store,
                   buffer, markVars, fillVars, fills, posVars, crashes, loaded>>

\* OrderManager.record_trade reads the order again after the lock, to save it.
ReadOrder ==
    /\ pc["stream"] = "read_order" /\ ~Locked
    /\ Enter("stream", "save_fill",
             [snap["stream"] EXCEPT !.is = orders[snap["stream"].order]])
    /\ UNCHANGED <<venueVars, work, last, reconVars, placed, bookVars, store,
                   buffer, markVars, fillVars, fills, posVars, crashes, loaded>>

(***************************************************************************)
(* The other writers: place_order's phase 4, reconciliation, restart.      *)
(***************************************************************************)

\* record_and_publish stores the venue's reply over what the book holds; the
\* trades buffered for the order stay where they are.
RecordPlacement(o) ==
    /\ pc["placer"] = "idle" /\ ~Locked
    /\ o \notin placed
    /\ placed' = placed \cup {o}
    /\ orders' = [orders EXCEPT ![o] = Order("OPEN", 0)]
    /\ Enter("placer", "save_order", [order |-> o, is |-> Order("OPEN", 0)])
    /\ UNCHANGED <<venueVars, work, last, reconVars, machine, store, buffer,
                   markVars, fillVars, fills, posVars, crashes, loaded>>

\* The venue's net position when its orders are filled as book says.
NetPosition(book) ==
    SumFunctionOnSet([o \in OrderIds |-> Sign[o] * book[o].filled], OrderIds)

\* A reconciliation run asks the broker for its orders and then for its
\* positions; a list it does not get is empty and heals nothing.
FetchMassStatus ==
    /\ Reconciles
    /\ pc["recon"] = "idle" /\ fetched = None
    /\ fetched' = venue
    /\ todo' \in {OrderIds, {}}
    /\ Goto("recon", "fetch_positions")
    /\ UNCHANGED <<venueVars, work, last, net, placed, bookVars, store,
                   buffer, markVars, fillVars, fills, posVars, crashes, loaded>>

FetchPositions ==
    /\ pc["recon"] = "fetch_positions"
    /\ net' \in {NetPosition(venue), None}
    /\ Goto("recon", "idle")
    /\ UNCHANGED <<venueVars, work, last, fetched, todo, placed, bookVars,
                   store, buffer, markVars, fillVars, fills, posVars, crashes,
                   loaded>>

\* apply_mass_status: an order that is missing or differs is upserted.
HealOrder(o) ==
    /\ pc["recon"] = "idle"
    /\ o \in todo
    /\ todo' = todo \ {o}
    /\ IF orders[o] = fetched[o]
       THEN /\ ~Locked
            /\ UNCHANGED <<venueVars, pc, snap, work, last, bookVars, store,
                           buffer, markVars, fillVars, fills, posVars, crashes,
                           loaded>>
       ELSE UpsertOrder("recon", [order |-> o, is |-> fetched[o]])
    /\ UNCHANGED <<fetched, net, placed>>

\* upsert_position to the fetched net; the position's state is not touched.
HealPosition ==
    /\ pc["recon"] = "idle"
    /\ fetched # None /\ todo = {}
    /\ position' = IF net = None THEN position ELSE net
    /\ fetched' = None /\ net' = None
    /\ UNCHANGED <<venueVars, pc, snap, work, last, todo, placed, bookVars,
                   store, buffer, markVars, fillVars, fills, posState, posSeen,
                   booked, counted, crashes, loaded>>

\* An entry of _last_cumulative_filled lives one hour.
ForgetCumulative(o) ==
    /\ MemoryExpires
    /\ last[o] > 0
    /\ last' = [last EXCEPT ![o] = 0]
    /\ UNCHANGED <<venueVars, pc, snap, work, reconVars, placed, bookVars,
                   store, buffer, markVars, fillVars, fills, posVars, crashes,
                   loaded>>

\* The process dies and starts without an event-log replay: the order store
\* and the marks are loaded, the position book is empty.
Crash ==
    /\ crashes < MaxCrashes
    /\ crashes' = crashes + 1
    /\ pc' = [a \in Actors |-> "idle"]
    /\ snap' = [a \in Actors |-> None]
    /\ work' = <<>>
    /\ last' = [o \in OrderIds |-> 0]
    /\ fetched' = None /\ todo' = {} /\ net' = None
    /\ placed' = OrderIds
    /\ orders' = store
    /\ machine' = [o \in OrderIds |-> None]
    /\ buffer' = [o \in OrderIds |-> <<>>]
    /\ processed' = marks /\ loaded' = marks
    /\ seenFills' = {}
    /\ cumulative' = [o \in OrderIds |-> 0]
    /\ position' = 0 /\ posState' = "FLAT" /\ posSeen' = <<>>
    /\ booked' = [o \in OrderIds |-> 0]
    /\ counted' = {}
    /\ UNCHANGED <<venueVars, store, marks, fills>>

Next ==
    \/ \E o \in OrderIds : \/ VenueFills(o) \/ VenueCancels(o)
                           \/ RecordPlacement(o) \/ HealOrder(o)
                           \/ ForgetCumulative(o)
    \/ \E m \in messages : FeedOrder(m)
    \/ \E t \in executions : FeedTradeUpdate(t)
    \/ FeedNothingNew \/ FeedTrade \/ ReadOrder
    \/ \E a \in Actors : \/ SaveOrder(a) \/ FlushCheck(a)
                         \/ ApplyFill(a) \/ ApplyRaises(a)
    \/ FetchMassStatus \/ FetchPositions \/ HealPosition
    \/ Crash

Spec == Init /\ [][Next]_vars

(***************************************************************************)
(* Properties.                                                             *)
(***************************************************************************)

\* A fill that was marked processed is on the execution ledger: the durable
\* mark, which stops every later delivery, never outlives the fill itself,
\* whatever write failed and wherever the process died.
MarksOnLedger == marks \subseteq fills

\* The position book never takes over more of an order
\* than the venue has filled, however its updates are repeated, reordered,
\* buffered, half recorded or delivered again after a restart.
PositionNotAhead == \A o \in OrderIds : booked[o] <= venue[o].filled

\* A trade this process marked has been counted by the position book: no
\* delivery, flush or failing write marks a fill the book never saw.
ProcessedReachedPosition == processed \ loaded \subseteq counted

\* No order of the book or of the store is filled beyond its quantity.
FilledWithinOrder ==
    \A o \in OrderIds : /\ orders[o] # None => orders[o].filled <= OrderQty[o]
                        /\ store[o] # None => store[o].filled <= OrderQty[o]

\* The types, and that no order is filled beyond its quantity.
FillInv == TypeOK /\ FilledWithinOrder

(***************************************************************************)
(* What the documentation says and the code does not do.                   *)
(***************************************************************************)

\* 03-domain-model.md: the net quantity is the sum of the fills.  When the
\* stream has nothing in hand and nothing is buffered, the position book has
\* taken over what the stream reported.  The stream's order update already
\* carries the fill, so the reducer refuses its trade as an overfill.
PositionIsSumOfFills ==
    (pc["stream"] = "idle" /\ \A o \in OrderIds : buffer[o] = <<>>)
        => \A o \in OrderIds : booked[o] = last[o]

\* trade_recorder.py: no silent lost fill.  A fill marked on disk is in the
\* order the next start loads.  The mark is written before the order is.
MarkedFillReloaded ==
    [][crashes' # crashes =>
         \A k \in marks : orders'[k[1]] # None /\ orders'[k[1]].filled >= k[2]]_vars
=============================================================================
