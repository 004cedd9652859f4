-------------------------- MODULE ExposureLimits --------------------------
(***************************************************************************)
(* The exposure limits of RiskManager.check_order                          *)
(* (src/application/oms/_internal/risk_manager.py), the pending            *)
(* reservations of MarginChecker, and the fills that turn the one into     *)
(* positions.                                                              *)
(*                                                                         *)
(* check_order holds the risk lock, but reads positions and reservations   *)
(* one after the other, and neither the fills (OMS lock, position lock)    *)
(* nor reduce_pending and release_pending (no lock) wait for it; each read *)
(* and each write is a step.  One feed thread delivers trades.  Every      *)
(* price is 1, so the notional of an order is lots times multiplier;       *)
(* capital does not change, so the limits are amounts.  The multiplier of  *)
(* the instrument is known to the order only: no position of the book is   *)
(* given one, and the check values a position with the default of 1.       *)
(***************************************************************************)
EXTENDS Integers, FiniteSets, Functions

CONSTANTS Orders,                  \* orders, one correlation id each
          Symbols,
          SymbolOf, Sign, Lots,    \* of an order: symbol, 1 buy or -1 sell, quantity
          Multiplier,              \* of the instrument of a symbol
          SymbolLimit, GrossLimit, \* max_position_pct, max_gross_exposure_pct
          NoOrder

ASSUME ExposureAssumption ==
    /\ IsFiniteSet(Orders) /\ IsFiniteSet(Symbols)
    /\ SymbolOf \in [Orders -> Symbols]
    /\ Sign \in [Orders -> {1, -1}] /\ Lots \in [Orders -> Nat \ {0}]
    /\ Multiplier \in [Symbols -> Nat \ {0}]
    /\ SymbolLimit \in Nat /\ GrossLimit \in Nat
    /\ NoOrder \notin Orders

VARIABLES
    pc,          \* where place_order is with each order
    riskLock,    \* RiskManager._lock
    seen,        \* what the check under way has read so far
    pending,     \* _pending_by_correlation, 0 for no entry
    dated,       \* _pending_at and _pending_meta, which are set together
    aged,        \* those of dated past _PENDING_TTL_SECONDS
    position,    \* signed lots of each symbol in the position book
    filled,      \* lots of each order the book has counted
    atVenue,     \* orders working at the venue
    feed,        \* what the feed thread does after record_trade
    \* History: working orders whose reservation the sweep removed, filled orders
    \* that lost in it what the book does not count of them, and whether a fill
    \* moved from pending to position inside one check.
    lapsed, forgotten, torn

swept == <<lapsed, forgotten>>
exposureVars == <<pc, riskLock, seen, pending, dated, aged, position, filled, atVenue,
          feed, swept, torn>>

Phases == {"new", "symbol", "positions", "decide", "sending", "open",
           "rejected", "failed", "cancelled"}
NoReads == [current |-> 0, symbol |-> 0, gross |-> 0]
Idle == [step |-> "idle", order |-> NoOrder, lots |-> 0, read |-> 0, check |-> NoOrder]

Notional(o) == Lots[o] * Multiplier[SymbolOf[o]]
Remaining(o) == Lots[o] - filled[o]
Magnitude(n) == IF n < 0 THEN -n ELSE n

\* What the check takes a position for: Position.multiplier is never set.
BookNotional(s) == Magnitude(position[s])
GrossPositions == SumFunctionOnSet([s \in Symbols |-> BookNotional(s)], Symbols)

\* What it is worth.
Owned(s) == Magnitude(position[s]) * Multiplier[s]

Working == {o \in Orders : pc[o] \in {"sending", "open"}}

ExposureTypeOK ==
    /\ pc \in [Orders -> Phases]
    /\ riskLock \in Orders \cup {NoOrder}
    /\ seen \in [current : Nat, symbol : Nat, gross : Nat]
    /\ pending \in [Orders -> Nat]
    /\ dated \subseteq Orders /\ aged \subseteq dated
    /\ \A o \in Orders : pending[o] <= Notional(o)
    /\ position \in [Symbols -> Int]
    /\ filled \in [Orders -> Nat] /\ \A o \in Orders : filled[o] <= Lots[o]
    /\ atVenue \subseteq Orders /\ lapsed \subseteq Orders /\ forgotten \subseteq Orders
    /\ feed \in [step : {"idle", "read", "write"}, order : Orders \cup {NoOrder},
                 lots : Nat, read : Nat, check : Orders \cup {NoOrder}]
    /\ torn \in BOOLEAN

ExposureInit ==
    /\ pc = [o \in Orders |-> "new"] /\ riskLock = NoOrder /\ seen = NoReads
    /\ pending = [o \in Orders |-> 0] /\ dated = {} /\ aged = {}
    /\ position = [s \in Symbols |-> 0] /\ filled = [o \in Orders |-> 0]
    /\ atVenue = {} /\ feed = Idle
    /\ lapsed = {} /\ forgotten = {} /\ torn = FALSE

Goto(o, p) == pc' = [pc EXCEPT ![o] = p]

(***************************************************************************)
(* The reservations.                                                       *)
(***************************************************************************)
\* What _sweep_expired leaves of an amount.
Swept(o) == IF o \in aged THEN 0 ELSE pending[o]

Sweep(reserved) ==
    /\ pending' = [o \in Orders |-> IF o \in DOMAIN reserved THEN reserved[o]
                                    ELSE Swept(o)]
    /\ dated' = (dated \ aged) \cup DOMAIN reserved
    /\ aged' = {}
    /\ lapsed' = lapsed \cup {o \in aged \cap Working : Remaining(o) > 0 \/ feed.order = o}
    /\ forgotten' = forgotten
           \cup {o \in aged : filled[o] > 0 /\ Multiplier[SymbolOf[o]] > 1}

Nothing == [o \in {} |-> 0]

ReleasePending(o) ==
    /\ pending' = [pending EXCEPT ![o] = 0]
    /\ dated' = dated \ {o} /\ aged' = aged \ {o}

\* pending_gross, and pending_symbol_notional: of the entries that are left and
\* still say which symbol they are for.
PendingGross == SumFunctionOnSet([o \in Orders |-> Swept(o)], Orders)

PendingSymbol(s) ==
    SumFunctionOnSet([o \in Orders |-> Swept(o)],
                     {o \in dated \ aged : SymbolOf[o] = s})

\* A reservation gets older than the TTL.
Age(o) ==
    /\ o \in dated \ aged
    /\ aged' = aged \cup {o}
    /\ UNCHANGED <<pc, riskLock, seen, pending, dated, position, filled,
                   atVenue, feed, swept, torn>>

(***************************************************************************)
(* check_order, under the risk lock.                                       *)
(***************************************************************************)
\* The lock, and the position of the symbol.
BeginCheck(o) ==
    /\ pc[o] = "new" /\ riskLock = NoOrder
    /\ riskLock' = o
    /\ seen' = [seen EXCEPT !.current = BookNotional(SymbolOf[o])]
    /\ Goto(o, "symbol")
    /\ UNCHANGED <<pending, dated, aged, position, filled, atVenue, feed,
                   swept, torn>>

\* The reservations of the symbol, swept before they are read.
ReadPendingSymbol(o) ==
    /\ pc[o] = "symbol"
    /\ Sweep(Nothing)
    /\ seen' = [seen EXCEPT !.symbol = PendingSymbol(SymbolOf[o])]
    /\ Goto(o, "positions")
    /\ UNCHANGED <<riskLock, position, filled, atVenue, feed, torn>>

ReadPositions(o) ==
    /\ pc[o] = "positions"
    /\ seen' = [seen EXCEPT !.gross = GrossPositions]
    /\ Goto(o, "decide")
    /\ UNCHANGED <<riskLock, pending, dated, aged, position, filled, atVenue,
                   feed, swept, torn>>

\* Mutant: orders that are not filled yet do not count.
WithinLimitsOfPositions(o) ==
    /\ seen.current + Notional(o) <= SymbolLimit
    /\ seen.gross + Notional(o) <= GrossLimit

\* RiskGate: concentration in the symbol, and gross exposure.
WithinLimits(o) ==
    /\ seen.current + seen.symbol + Notional(o) <= SymbolLimit
    /\ seen.gross + PendingGross + Notional(o) <= GrossLimit

\* pending_gross is swept and read, the gate decides and the order reserves.
Approve(o) ==
    /\ pc[o] = "decide" /\ WithinLimits(o)
    /\ Sweep([x \in {o} |-> Notional(o)])
    /\ riskLock' = NoOrder /\ seen' = NoReads
    /\ Goto(o, "sending")
    /\ UNCHANGED <<position, filled, atVenue, feed, torn>>

\* Any policy before the limits may refuse as well, or raise; place_order
\* releases what the order does not have.
Reject(o) ==
    /\ riskLock = o
    /\ pc[o] = "decide" => ~WithinLimits(o)
    /\ ReleasePending(o)
    /\ riskLock' = NoOrder /\ seen' = NoReads
    /\ Goto(o, "rejected")
    /\ UNCHANGED <<position, filled, atVenue, feed, swept, torn>>

(***************************************************************************)
(* The order at the venue.                                                 *)
(***************************************************************************)
VenueAccepts(o) ==
    /\ pc[o] = "sending" /\ o \notin atVenue
    /\ atVenue' = atVenue \cup {o}
    /\ UNCHANGED <<pc, riskLock, seen, pending, dated, aged, position, filled,
                   feed, swept, torn>>

SubmitReturns(o) ==
    /\ pc[o] = "sending" /\ o \in atVenue
    /\ Goto(o, "open")
    /\ UNCHANGED <<riskLock, seen, pending, dated, aged, position, filled,
                   atVenue, feed, swept, torn>>

\* submit_fn raised, whether or not the venue has the order.
SubmitFails(o) ==
    /\ pc[o] = "sending"
    /\ ReleasePending(o)
    /\ Goto(o, "failed")
    /\ UNCHANGED <<riskLock, seen, position, filled, atVenue, feed, swept, torn>>

\* A cancelled order keeps its reservation: upsert_order and record_trade stop
\* at is_terminal, which the status does not have, before they release it.
VenueCancels(o) ==
    /\ pc[o] = "open" /\ o \in atVenue /\ feed.order # o
    /\ atVenue' = atVenue \ {o}
    /\ Goto(o, "cancelled")
    /\ UNCHANGED <<riskLock, seen, pending, dated, aged, position, filled, feed,
                   swept, torn>>

(***************************************************************************)
(* A fill: the position first, then the reservation.                       *)
(***************************************************************************)
\* record_trade, which publishes TRADE_APPLIED to the position book.
RecordTrade(o, n) ==
    /\ feed = Idle /\ o \in atVenue /\ n \in 1 .. Remaining(o)
    /\ filled' = [filled EXCEPT ![o] = @ + n]
    /\ position' = [position EXCEPT ![SymbolOf[o]] = @ + Sign[o] * n]
    /\ feed' = [step |-> "read", order |-> o, lots |-> n, read |-> 0,
                check |-> riskLock]
    /\ UNCHANGED <<pc, riskLock, seen, pending, dated, aged, atVenue, swept, torn>>

\* reduce_pending reads the entry ...
ReduceReads ==
    /\ feed.step = "read"
    /\ feed' = [feed EXCEPT !.step = "write", !.read = pending[feed.order]]
    /\ UNCHANGED <<pc, riskLock, seen, pending, dated, aged, position, filled,
                   atVenue, swept, torn>>

\* Mutant: the quantity of the order is subtracted instead of the trade's.
ReducedByOrder(f) ==
    IF f.read > Lots[f.order] THEN f.read - Lots[f.order] ELSE 0

\* The multiplier the reservation was made with is not applied here.
Reduced(f) == IF f.read > f.lots THEN f.read - f.lots ELSE 0

\* ... and writes it back, without looking again.
ReduceWrites ==
    /\ feed.step = "write"
    /\ IF Reduced(feed) = 0
       THEN ReleasePending(feed.order)
       ELSE /\ pending' = [pending EXCEPT ![feed.order] = Reduced(feed)]
            /\ UNCHANGED <<dated, aged>>
    /\ torn' = (torn \/ (feed.check # NoOrder /\ feed.check = riskLock))
    /\ feed' = Idle
    /\ UNCHANGED <<pc, riskLock, seen, position, filled, atVenue, swept>>

ExposureNext ==
    \/ \E o \in Orders :
           \/ BeginCheck(o) \/ ReadPendingSymbol(o) \/ ReadPositions(o)
           \/ Approve(o) \/ Reject(o)
           \/ VenueAccepts(o) \/ SubmitReturns(o) \/ SubmitFails(o)
           \/ VenueCancels(o) \/ Age(o)
           \/ \E n \in 1 .. Lots[o] : RecordTrade(o, n)
    \/ ReduceReads \/ ReduceWrites

ExposureSpec == ExposureInit /\ [][ExposureNext]_exposureVars

(***************************************************************************)
(* Properties.                                                             *)
(***************************************************************************)
OpenNotional(o) == Remaining(o) * Multiplier[SymbolOf[o]]

\* What a check can know of an order by its reservation only: what it may still
\* be filled with and, of what it was filled with, what the book does not count.
Unbooked(o) == (IF o \in Working THEN OpenNotional(o) ELSE 0)
                 + filled[o] * (Multiplier[SymbolOf[o]] - 1)

\* A reservation holds at least that until it outlives the TTL, unless the order
\* was given up: repeated partial fills and the unlocked reduce never give back
\* more than the book has taken over.
ReservationCovers ==
    \A o \in Orders \ (lapsed \cup forgotten) :
        pc[o] # "failed" => pending[o] >= Unbooked(o)

\* The types, that no reservation exceeds its order, and that it covers the rest
\* of it.
ReservationInv == ExposureTypeOK /\ ReservationCovers

OpenOf(os) == SumFunctionOnSet([o \in Orders |-> OpenNotional(o)], os)

\* What the account owns plus what it may still be filled with.
Exposed == SumFunctionOnSet([s \in Symbols |-> Owned(s)], Symbols) + OpenOf(Working)
ExposedIn(s) == Owned(s) + OpenOf({o \in Working : SymbolOf[o] = s})

WithinBothLimits ==
    Exposed <= GrossLimit /\ \A s \in Symbols : ExposedIn(s) <= SymbolLimit

\* Every order the venue has is known, and no sweep removed a reservation that
\* stood for something: of a working order, or of a filled one whose lots the
\* book counts for less than they are worth.
Accounted ==
    lapsed = {} /\ forgotten = {} /\ \A o \in atVenue : pc[o] # "failed"

\* Positions, at their worth, and working orders stay within both limits however
\* checks, fills, releases and sweeps of what is spent interleave, although the
\* check values positions for less: as long as all is accounted for, and no fill
\* moved from the reservations to the positions between the reads of one check.
ExposureWithinLimits == Accounted /\ ~torn => WithinBothLimits

(***************************************************************************)
(* "check_order takes the lock for the duration of the read": the limits   *)
(* hold whenever all is accounted for.                                     *)
(***************************************************************************)
CheckSeesWholeState == Accounted => WithinBothLimits

(***************************************************************************)
(* "Effective notional for pre-trade risk ... F&O uses contract            *)
(* multiplier" (domain/risk/notional.py): filled lots count with theirs,   *)
(* also when a sweep has removed what is left of their reservation.        *)
(***************************************************************************)
FilledLotsCount ==
    lapsed = {} /\ ~torn /\ (\A o \in atVenue : pc[o] # "failed") => WithinBothLimits
=============================================================================
