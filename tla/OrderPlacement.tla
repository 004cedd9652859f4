--------------------------- MODULE OrderPlacement ---------------------------
(***************************************************************************)
(* OrderManager.place_order (src/application/oms/order_manager.py) and its *)
(* collaborators: the idempotency guard, the order book, the execution     *)
(* ledger, the order store, the risk reservation and the venue's order     *)
(* feed.  Several threads place orders by correlation id; the process may  *)
(* crash between any two steps and restart from what is durable.           *)
(*                                                                         *)
(* A step of a thread is one critical section of the OMS lock, one durable *)
(* write, or one message to the venue: the points between which other      *)
(* threads and crashes interleave.                                         *)
(*                                                                         *)
(* OrderStatus defines no is_terminal (src/domain/enums.py:18), so the     *)
(* attribute access in OrderLifecycle.upsert_order after a status change   *)
(* raises AttributeError: the book is updated, the publication and         *)
(* _persist_order that follow are not reached.  UpsertOrder says so.       *)
(***************************************************************************)
EXTENDS OrderStatuses, Naturals, FiniteSets

CONSTANTS Threads,        \* callers of place_order
          Corr,           \* correlation ids
          OmIds,          \* the uuids check_and_reserve draws its OM- ids from
          VenueFinal,     \* statuses in which the venue may finish an order
          MaxCrashes,     \* bound on process restarts
          PendingExpiry,  \* whether reservations may outlive their TTL
          None

\* The id the venue gives the order it accepts for correlation id c.
VenueId(c) == <<"venue", c>>
Ids == OmIds \cup {VenueId(c) : c \in Corr}

Order(i, c, s) == [id |-> i, corr |-> c, status |-> s]
Orders == [id : Ids, corr : Corr \cup {None}, status : OrderStatus]

ASSUME PlacementAssumption ==
    /\ VenueFinal \subseteq Terminal
    /\ MaxCrashes \in Nat
    /\ PendingExpiry \in BOOLEAN
    /\ \A c \in Corr : VenueId(c) \notin OmIds
    /\ None \notin Ids \cup Corr \cup OrderStatus \cup Orders

VARIABLES
    pc,          \* where each thread is in place_order
    req,         \* the correlation id of a thread's current or last call
    ord,         \* the order value a thread carries between phases
    result,      \* what a thread's last call returned
    pending,     \* IdempotencyGuard._pending
    orders,      \* OrderManager._orders
    byCorr,      \* OrderManager._orders_by_correlation
    machine,     \* OrderStateValidator._state_machines
    riskPending, \* MarginChecker._pending_by_correlation
    intents,     \* table order_intents: correlation id -> intent id
    outcomes,    \* table submission_outcomes: intent id -> state
    store,       \* table orders of SqliteOrderStore
    wire,        \* submissions on their way to the venue
    venue,       \* status of the order the venue holds for a correlation id
    sent,        \* how often a correlation id was submitted
    usedIds,     \* OM ids already drawn
    crashes

threadVars == <<pc, req, ord, result>>
bookVars   == <<orders, byCorr, machine>>
ledgerVars == <<intents, outcomes>>
venueVars  == <<wire, venue, sent>>
vars == <<threadVars, bookVars, ledgerVars, venueVars, pending, riskPending,
          store, usedIds, crashes>>

Phases == {"idle", "validate", "submit", "intent", "send", "wait", "outcome",
           "store_unknown", "unknown_outcome", "publish_unknown",
           "release", "release_risk", "record", "persist"}
Results == {"ACCEPTED", "UNKNOWN", "IN_FLIGHT", "REJECTED", "RAISED"}

TypeOK ==
    /\ pc \in [Threads -> Phases]
    /\ req \in [Threads -> Corr \cup {None}]
    /\ ord \in [Threads -> Orders \cup {None}]
    /\ result \in [Threads -> Results \cup {None}]
    /\ pending \subseteq Corr
    /\ riskPending \subseteq Corr
    /\ orders \in [Ids -> Orders \cup {None}]
    /\ byCorr \in [Corr -> Orders \cup {None}]
    /\ machine \in [Ids -> OrderStatus \cup {None}]
    /\ intents \in [Corr -> OmIds \cup {None}]
    /\ outcomes \in [OmIds -> {"ACCEPTED", "UNKNOWN", None}]
    /\ store \in [Ids -> Orders \cup {None}]
    /\ wire \subseteq Corr
    /\ venue \in [Corr -> OrderStatus \cup {None}]
    /\ sent \in [Corr -> Nat]
    /\ usedIds \subseteq OmIds
    /\ crashes \in Nat

Init ==
    /\ pc = [t \in Threads |-> "idle"]
    /\ req = [t \in Threads |-> None]
    /\ ord = [t \in Threads |-> None]
    /\ result = [t \in Threads |-> None]
    /\ pending = {} /\ riskPending = {}
    /\ orders = [i \in Ids |-> None]
    /\ byCorr = [c \in Corr |-> None]
    /\ machine = [i \in Ids |-> None]
    /\ intents = [c \in Corr |-> None]
    /\ outcomes = [i \in OmIds |-> None]
    /\ store = [i \in Ids |-> None]
    /\ wire = {} /\ venue = [c \in Corr |-> None]
    /\ sent = [c \in Corr |-> 0]
    /\ usedIds = {} /\ crashes = 0

Goto(t, phase) == pc' = [pc EXCEPT ![t] = phase]
Carry(t, o)    == ord' = [ord EXCEPT ![t] = o]
Return(t, r)   == result' = [result EXCEPT ![t] = r]

(***************************************************************************)
(* Phase 1: check_and_reserve, under the lock.                             *)
(***************************************************************************)

\* Mutant: the outcome's state taken for an order status.
RecoveredStatusRaw(i) == IF outcomes[i] = None THEN "OPEN" ELSE outcomes[i]

\* The status _lookup_durable_order gives an order recovered from its intent;
\* an intent without an outcome counts as OPEN.
RecoveredStatus(i) == IF outcomes[i] = "UNKNOWN" THEN "UNKNOWN" ELSE "OPEN"

\* Mutant: an intent without an outcome is not recovered.
DurableOrderDecided(c, readable) ==
    IF ~readable \/ intents[c] = None THEN None
    ELSE IF outcomes[intents[c]] = None THEN None
    ELSE Order(intents[c], c, RecoveredStatus(intents[c]))

\* _lookup_durable_order: a ledger read that raises is answered with None.
DurableOrder(c, readable) ==
    IF ~readable \/ intents[c] = None THEN None
    ELSE IF orders[intents[c]] # None THEN orders[intents[c]]
    ELSE Order(intents[c], c, RecoveredStatus(intents[c]))

ExistingOrder(c, readable) ==
    IF byCorr[c] # None THEN byCorr[c] ELSE DurableOrder(c, readable)

ReturnExisting(t, c) ==
    /\ pc[t] = "idle"
    /\ \E readable \in BOOLEAN :
         LET existing == ExistingOrder(c, readable) IN
         /\ existing # None
         /\ orders' = IF byCorr[c] # None THEN orders
                      ELSE [orders EXCEPT ![existing.id] = existing]
         /\ byCorr' = [byCorr EXCEPT ![c] = existing]
         /\ Return(t, IF existing.status = "UNKNOWN" THEN "UNKNOWN"
                      ELSE "ACCEPTED")
    /\ req' = [req EXCEPT ![t] = c]
    /\ UNCHANGED <<pc, ord, machine, ledgerVars, venueVars, pending,
                   riskPending, store, usedIds, crashes>>

\* The outcome read of _lookup_durable_order is outside its try block.
LookupRaises(t, c) ==
    /\ pc[t] = "idle"
    /\ byCorr[c] = None /\ intents[c] # None
    /\ orders[intents[c]] = None
    /\ req' = [req EXCEPT ![t] = c]
    /\ Return(t, "RAISED")
    /\ UNCHANGED <<pc, ord, bookVars, ledgerVars, venueVars, pending,
                   riskPending, store, usedIds, crashes>>

ReportInFlight(t, c) ==
    /\ pc[t] = "idle"
    /\ \E readable \in BOOLEAN : ExistingOrder(c, readable) = None
    /\ c \in pending
    /\ req' = [req EXCEPT ![t] = c]
    /\ Return(t, "IN_FLIGHT")
    /\ UNCHANGED <<pc, ord, bookVars, ledgerVars, venueVars, pending,
                   riskPending, store, usedIds, crashes>>

\* Mutant: the pending reservation is not consulted.
ReserveUnchecked(t, c) ==
    /\ pc[t] = "idle"
    /\ \E readable \in BOOLEAN : ExistingOrder(c, readable) = None
    /\ pending' = pending \cup {c}
    /\ \E i \in OmIds \ usedIds :
         /\ usedIds' = usedIds \cup {i}
         /\ Carry(t, Order(i, c, "OPEN"))
    /\ req' = [req EXCEPT ![t] = c]
    /\ Return(t, None)
    /\ Goto(t, "validate")
    /\ UNCHANGED <<bookVars, ledgerVars, venueVars, riskPending, store,
                   crashes>>

Reserve(t, c) ==
    /\ pc[t] = "idle"
    /\ \E readable \in BOOLEAN : ExistingOrder(c, readable) = None
    /\ c \notin pending
    /\ pending' = pending \cup {c}
    /\ \E i \in OmIds \ usedIds :
         /\ usedIds' = usedIds \cup {i}
         /\ Carry(t, Order(i, c, "OPEN"))
    /\ req' = [req EXCEPT ![t] = c]
    /\ Return(t, None)
    /\ Goto(t, "validate")
    /\ UNCHANGED <<bookVars, ledgerVars, venueVars, riskPending, store,
                   crashes>>

\* _PendingStore.get drops a reservation older than 24 h.
PendingExpires(c) ==
    /\ PendingExpiry
    /\ c \in pending
    /\ pending' = pending \ {c}
    /\ UNCHANGED <<threadVars, bookVars, ledgerVars, venueVars, riskPending,
                   store, usedIds, crashes>>

\* _sweep_expired drops a risk reservation older than 10 minutes.
RiskPendingExpires(c) ==
    /\ PendingExpiry
    /\ c \in riskPending
    /\ riskPending' = riskPending \ {c}
    /\ UNCHANGED <<threadVars, bookVars, ledgerVars, venueVars, pending, store,
                   usedIds, crashes>>

(***************************************************************************)
(* Phase 2: build_and_validate, without the lock.  The placement gate and  *)
(* the risk checks may answer either way; approval reserves exposure.      *)
(***************************************************************************)

Approve(t) ==
    /\ pc[t] = "validate"
    /\ riskPending' = riskPending \cup {req[t]}
    /\ Goto(t, "submit")
    /\ UNCHANGED <<req, ord, result, bookVars, ledgerVars, venueVars, pending,
                   store, usedIds, crashes>>

\* Refused by the gate or by risk, or by the kill-switch guard of phase 3.
Reject(t) ==
    /\ pc[t] \in {"validate", "submit"}
    /\ Return(t, "REJECTED")
    /\ Goto(t, "release")
    /\ UNCHANGED <<req, ord, bookVars, ledgerVars, venueVars, pending,
                   riskPending, store, usedIds, crashes>>

(***************************************************************************)
(* Phase 3: submit_to_broker.                                              *)
(***************************************************************************)

\* submit_fn is None: a local order, neither stubbed nor submitted.
SkipSubmit(t) ==
    /\ pc[t] = "submit"
    /\ Goto(t, "record")
    /\ UNCHANGED <<req, ord, result, bookVars, ledgerVars, venueVars, pending,
                   riskPending, store, usedIds, crashes>>

StoreStub(t) ==
    /\ pc[t] = "submit"
    /\ orders' = [orders EXCEPT ![ord[t].id] = ord[t]]
    /\ byCorr' = [byCorr EXCEPT ![req[t]] = ord[t]]
    /\ Goto(t, "intent")
    /\ UNCHANGED <<req, ord, result, machine, ledgerVars, venueVars, pending,
                   riskPending, store, usedIds, crashes>>

\* Mutant: INSERT OR REPLACE, the newcomer's row replaces the old one.
RecordIntentReplaces(t) ==
    /\ pc[t] = "intent"
    /\ intents' = [intents EXCEPT ![req[t]] = ord[t].id]
    /\ Goto(t, "send")
    /\ UNCHANGED <<req, ord, result, bookVars, outcomes, venueVars, pending,
                   riskPending, store, usedIds, crashes>>

\* record_intent: correlation_id is UNIQUE, another intent's row raises.
RecordIntent(t) ==
    /\ pc[t] = "intent"
    /\ intents[req[t]] \in {None, ord[t].id}
    /\ intents' = [intents EXCEPT ![req[t]] = ord[t].id]
    /\ Goto(t, "send")
    /\ UNCHANGED <<req, ord, result, bookVars, outcomes, venueVars, pending,
                   riskPending, store, usedIds, crashes>>

\* Mutant: a failing ledger does not stop the submission.
IntentFailsAndSends(t) ==
    /\ pc[t] = "intent"
    /\ Goto(t, "send")
    /\ UNCHANGED <<req, ord, result, bookVars, ledgerVars, venueVars, pending,
                   riskPending, store, usedIds, crashes>>

\* A correlation id collision, or the ledger's database failing.
IntentFails(t) ==
    /\ pc[t] = "intent"
    /\ Goto(t, "store_unknown")
    /\ UNCHANGED <<req, ord, result, bookVars, ledgerVars, venueVars, pending,
                   riskPending, store, usedIds, crashes>>

\* Mutant: a transport that retries a call it has no answer for.
SendRetrying(t) ==
    /\ pc[t] \in {"send", "wait"}
    /\ sent' = [sent EXCEPT ![req[t]] = @ + 1]
    /\ wire' = wire \cup {req[t]}
    /\ Goto(t, "wait")
    /\ UNCHANGED <<req, ord, result, bookVars, ledgerVars, venue, pending,
                   riskPending, store, usedIds, crashes>>

Send(t) ==
    /\ pc[t] = "send"
    /\ sent' = [sent EXCEPT ![req[t]] = @ + 1]
    /\ wire' = wire \cup {req[t]}
    /\ Goto(t, "wait")
    /\ UNCHANGED <<req, ord, result, bookVars, ledgerVars, venue, pending,
                   riskPending, store, usedIds, crashes>>

\* The venue's acceptance comes back, with the status it had or has now.
Reply(t) ==
    /\ pc[t] = "wait"
    /\ venue[req[t]] # None
    /\ \E s \in {"OPEN", venue[req[t]]} :
         Carry(t, Order(VenueId(req[t]), req[t], s))
    /\ Goto(t, "outcome")
    /\ UNCHANGED <<req, result, bookVars, ledgerVars, venueVars, pending,
                   riskPending, store, usedIds, crashes>>

\* Mutant: only a definite refusal ends the wait, no timeout.
SubmitRefused(t) ==
    /\ pc[t] = "wait"
    /\ req[t] \notin wire
    /\ Goto(t, "store_unknown")
    /\ UNCHANGED <<req, ord, result, bookVars, ledgerVars, venueVars, pending,
                   riskPending, store, usedIds, crashes>>

\* submit_fn raises: refusal, timeout or lost answer, the caller cannot tell.
SubmitFails(t) ==
    /\ pc[t] = "wait"
    /\ Goto(t, "store_unknown")
    /\ UNCHANGED <<req, ord, result, bookVars, ledgerVars, venueVars, pending,
                   riskPending, store, usedIds, crashes>>

StoreUnknown(t) ==
    /\ pc[t] = "store_unknown"
    /\ LET unknown == [ord[t] EXCEPT !.status = "UNKNOWN"] IN
         /\ orders' = [orders EXCEPT ![unknown.id] = unknown]
         /\ byCorr' = [byCorr EXCEPT ![req[t]] = unknown]
         /\ Carry(t, unknown)
    /\ Goto(t, "unknown_outcome")
    /\ UNCHANGED <<req, result, machine, ledgerVars, venueVars, pending,
                   riskPending, store, usedIds, crashes>>

\* record_outcome(unknown); when it raises, nothing is published.
RecordUnknown(t) ==
    /\ pc[t] = "unknown_outcome"
    /\ \/ /\ outcomes' = [outcomes EXCEPT ![ord[t].id] = "UNKNOWN"]
          /\ Return(t, "UNKNOWN")
          /\ Goto(t, "publish_unknown")
       \/ /\ Return(t, "RAISED")
          /\ Goto(t, "release")
          /\ UNCHANGED outcomes
    /\ UNCHANGED <<req, ord, bookVars, intents, venueVars, pending,
                   riskPending, store, usedIds, crashes>>

\* record_outcome(accepted), on the intent id this thread drew.
RecordAccepted(t) ==
    /\ pc[t] = "outcome"
    /\ outcomes' = [outcomes EXCEPT ![intents[req[t]]] = "ACCEPTED"]
    /\ Goto(t, "record")
    /\ UNCHANGED <<req, ord, result, bookVars, intents, venueVars, pending,
                   riskPending, store, usedIds, crashes>>

\* The accepted outcome cannot be written: the venue's order becomes UNKNOWN,
\* unless its status has no transition there, when with_status raises.
AcceptedUnrecorded(t) ==
    /\ pc[t] = "outcome"
    /\ IF WithStatusAllowed(ord[t].status, "UNKNOWN")
       THEN LET unknown == [ord[t] EXCEPT !.status = "UNKNOWN"] IN
              /\ orders' = [orders EXCEPT ![unknown.id] = unknown]
              /\ byCorr' = [byCorr EXCEPT ![req[t]] = unknown]
              /\ Carry(t, unknown)
              /\ Return(t, "UNKNOWN")
              /\ Goto(t, "publish_unknown")
       ELSE /\ Return(t, "RAISED")
            /\ Goto(t, "release")
            /\ UNCHANGED <<ord, orders, byCorr>>
    /\ UNCHANGED <<req, machine, ledgerVars, venueVars, pending, riskPending,
                   store, usedIds, crashes>>

(***************************************************************************)
(* upsert_order for order o, run by on_order_update for every ORDER_UPDATED*)
(* event.  The transition is checked against the cached state machine, not *)
(* against the stored order; _persist_order swallows a failing write and is*)
(* not reached after a status change (see the head of this module).        *)
(***************************************************************************)
UpsertOrder(o) ==
    LET existing == orders[o.id]
        changed  == existing # None /\ existing.status # o.status
        state    == IF machine[o.id] = None THEN existing.status
                    ELSE machine[o.id]
        legal    == changed => CanTransition(state, o.status)
    IN  /\ machine' = IF ~changed THEN machine
                      ELSE [machine EXCEPT ![o.id] =
                              IF legal THEN o.status ELSE state]
        /\ orders' = IF legal THEN [orders EXCEPT ![o.id] = o] ELSE orders
        /\ byCorr' = IF legal /\ o.corr # None
                     THEN [byCorr EXCEPT ![o.corr] = o] ELSE byCorr
        /\ \/ ~changed /\ store' = [store EXCEPT ![o.id] = o]
           \/ UNCHANGED store

PublishUnknown(t) ==
    /\ pc[t] = "publish_unknown"
    /\ UpsertOrder(ord[t])
    /\ Goto(t, "release")
    /\ UNCHANGED <<req, ord, result, ledgerVars, venueVars, pending,
                   riskPending, usedIds, crashes>>

\* Mutant: only the idempotency reservation is released.
ReleasePendingOnly(t) ==
    /\ pc[t] = "release"
    /\ pending' = pending \ {req[t]}
    /\ Carry(t, None)
    /\ Goto(t, "idle")
    /\ UNCHANGED <<req, result, bookVars, ledgerVars, venueVars,
                   riskPending, store, usedIds, crashes>>

\* _release_pending: the reservation under the lock, then the exposure.
ReleasePending(t) ==
    /\ pc[t] = "release"
    /\ pending' = pending \ {req[t]}
    /\ Goto(t, "release_risk")
    /\ UNCHANGED <<req, ord, result, bookVars, ledgerVars, venueVars,
                   riskPending, store, usedIds, crashes>>

ReleaseRisk(t) ==
    /\ pc[t] = "release_risk"
    /\ riskPending' = riskPending \ {req[t]}
    /\ Carry(t, None)
    /\ Goto(t, "idle")
    /\ UNCHANGED <<req, result, bookVars, ledgerVars, venueVars, pending,
                   store, usedIds, crashes>>

(***************************************************************************)
(* Phase 4: record_and_publish under the lock, then _persist_order.        *)
(***************************************************************************)

RecordAndPublish(t) ==
    /\ pc[t] = "record"
    /\ pending' = pending \ {req[t]}
    /\ LET prior == byCorr[req[t]] IN
       orders' = [i \in Ids |->
                    IF i = ord[t].id THEN ord[t]
                    ELSE IF prior # None /\ prior.id = i THEN None
                    ELSE orders[i]]
    /\ byCorr' = [byCorr EXCEPT ![req[t]] = ord[t]]
    /\ Goto(t, "persist")
    /\ UNCHANGED <<req, ord, result, machine, ledgerVars, venueVars,
                   riskPending, store, usedIds, crashes>>

Persist(t) ==
    /\ pc[t] = "persist"
    /\ \/ store' = [store EXCEPT ![ord[t].id] = ord[t]]
       \/ UNCHANGED store
    /\ Return(t, "ACCEPTED")
    /\ Carry(t, None)
    /\ Goto(t, "idle")
    /\ UNCHANGED <<req, bookVars, ledgerVars, venueVars, pending, riskPending,
                   usedIds, crashes>>

(***************************************************************************)
(* The venue, its order feed, and the process.                             *)
(***************************************************************************)

VenueAccepts(c) ==
    /\ c \in wire
    /\ wire' = wire \ {c}
    /\ venue' = [venue EXCEPT ![c] = "OPEN"]
    /\ UNCHANGED <<threadVars, bookVars, ledgerVars, sent, pending,
                   riskPending, store, usedIds, crashes>>

VenueDrops(c) ==
    /\ c \in wire
    /\ wire' = wire \ {c}
    /\ UNCHANGED <<threadVars, bookVars, ledgerVars, venue, sent, pending,
                   riskPending, store, usedIds, crashes>>

VenueFinishes(c) ==
    /\ venue[c] = "OPEN"
    /\ \E s \in VenueFinal : venue' = [venue EXCEPT ![c] = s]
    /\ UNCHANGED <<threadVars, bookVars, ledgerVars, wire, sent, pending,
                   riskPending, store, usedIds, crashes>>

\* The order as the venue reports it, now or in a message that was overtaken;
\* only Upstox's carries the tag that to_order turns into the correlation id.
VenueReport(c) == {Order(VenueId(c), tag, s) :
                      tag \in {c, None}, s \in {"OPEN", venue[c]}}

\* An order update of the venue's stream, through on_order_update.
FeedUpdate(c) ==
    /\ venue[c] # None
    /\ \E o \in VenueReport(c) : UpsertOrder(o)
    /\ UNCHANGED <<threadVars, ledgerVars, venueVars, pending, riskPending,
                   usedIds, crashes>>

\* Mutant: only known orders are healed.
ApplyMassStatusKnown(c) ==
    /\ venue[c] # None
    /\ orders[VenueId(c)] # None
    /\ \E o \in VenueReport(c) :
         /\ orders[o.id].status # o.status
         /\ UpsertOrder(o)
    /\ UNCHANGED <<threadVars, ledgerVars, venueVars, pending, riskPending,
                   usedIds, crashes>>

\* ReconciliationService._run_once: apply_mass_status upserts the orders of the
\* broker's list that the book lacks or holds with another status.  A filled
\* quantity that differs makes it upsert too: the same step as FeedUpdate.
ApplyMassStatus(c) ==
    /\ venue[c] # None
    /\ \E o \in VenueReport(c) :
         /\ orders[o.id] # None => orders[o.id].status # o.status
         /\ UpsertOrder(o)
    /\ UNCHANGED <<threadVars, ledgerVars, venueVars, pending, riskPending,
                   usedIds, crashes>>

\* The process dies and OrderManager.__init__ reloads the order store; when
\* several rows carry one correlation id the last one read stays.
Crash ==
    /\ crashes < MaxCrashes
    /\ crashes' = crashes + 1
    /\ pc' = [t \in Threads |-> "idle"]
    /\ req' = [t \in Threads |-> None]
    /\ ord' = [t \in Threads |-> None]
    /\ result' = [t \in Threads |-> None]
    /\ pending' = {} /\ riskPending' = {}
    /\ orders' = store
    /\ machine' = [i \in Ids |-> None]
    /\ byCorr' \in [Corr -> {store[i] : i \in Ids} \cup {None}]
    /\ \A c \in Corr :
         LET rows == {i \in Ids : store[i] # None /\ store[i].corr = c} IN
         IF rows = {} THEN byCorr'[c] = None
         ELSE \E i \in rows : byCorr'[c] = store[i]
    /\ UNCHANGED <<ledgerVars, venueVars, store, usedIds>>

ThreadStep(t) ==
    \/ Approve(t) \/ Reject(t) \/ SkipSubmit(t) \/ StoreStub(t)
    \/ RecordIntent(t) \/ IntentFails(t) \/ Send(t) \/ Reply(t)
    \/ SubmitFails(t) \/ StoreUnknown(t) \/ RecordUnknown(t)
    \/ RecordAccepted(t) \/ AcceptedUnrecorded(t) \/ PublishUnknown(t)
    \/ ReleasePending(t) \/ ReleaseRisk(t) \/ RecordAndPublish(t)
    \/ Persist(t)

Next ==
    \/ \E t \in Threads :
         \/ ThreadStep(t)
         \/ \E c \in Corr : \/ ReturnExisting(t, c)
                            \/ LookupRaises(t, c)
                            \/ ReportInFlight(t, c)
                            \/ Reserve(t, c)
    \/ \E c \in Corr : \/ PendingExpires(c) \/ RiskPendingExpires(c)
                       \/ VenueAccepts(c) \/ VenueDrops(c)
                       \/ VenueFinishes(c) \/ FeedUpdate(c)
                       \/ ApplyMassStatus(c)
    \/ Crash

Spec == Init /\ [][Next]_vars

\* The scheduler runs every thread, a venue call ends in an answer or in the
\* transport's timeout, and the reconciliation loop runs on its timer.  The
\* venue's stream is not fair: its messages may be lost.
Fairness ==
    /\ \A t \in Threads : WF_vars(ThreadStep(t))
    /\ \A c \in Corr : WF_vars(ApplyMassStatus(c))
FairSpec == Spec /\ Fairness

(***************************************************************************)
(* Properties.                                                             *)
(***************************************************************************)

\* A thread holds the reservation of c from check_and_reserve until
\* _release_pending or record_and_publish gives it back.
Placing(t, c) == req[t] = c /\ pc[t] \notin {"idle", "release_risk", "persist"}

\* place_order is idempotent on the correlation id: whatever the retries, the
\* concurrent callers, the ledger failures, the lapsed reservations and the
\* restarts, one correlation id is submitted to the venue at most once.
SubmittedOnce == \A c \in Corr : sent[c] <= 1

\* Record-then-submit: an order that is on its way to the venue or that the
\* venue holds is found again by the next place_order of its correlation id,
\* so that a crash after the acceptance leaves a reconcilable order.
VenueOrderFound ==
    \A c \in Corr :
        c \in wire \/ venue[c] # None => ExistingOrder(c, TRUE) # None

\* While its reservation cannot lapse, one thread at a time is placing a
\* correlation id, and it is the one whose reservation is pending.
SinglePlacer ==
    PendingExpiry \/
    /\ \A c \in Corr : c \in pending <=> \E t \in Threads : Placing(t, c)
    /\ \A t, u \in Threads, c \in Corr :
           Placing(t, c) /\ Placing(u, c) => t = u

\* Exposure stays reserved only for an order of the book or for a call that
\* is still running: no refusal, failure or overlap of two calls of one
\* correlation id leaves a reservation behind that blocks other orders.
NoStrandedExposure ==
    \A c \in riskPending :
        byCorr[c] # None \/ \E t \in Threads : req[t] = c /\ pc[t] # "idle"

\* The ledger is a record of what happened: an intent is never replaced and a
\* recorded outcome is never overwritten by a later phase or thread.
LedgerStable ==
    [][/\ \A c \in Corr : intents[c] # None => intents'[c] = intents[c]
       /\ \A i \in OmIds : outcomes[i] # None => outcomes'[i] = outcomes[i]]_vars

(***************************************************************************)
(* The inductive invariant behind SubmittedOnce and LedgerStable.  A thread *)
(* owns the OM id it drew until the outcome of its submission is recorded. *)
(***************************************************************************)
BeforeIntent == {"validate", "submit", "intent"}
Undecided == BeforeIntent \cup {"send", "wait", "outcome", "store_unknown",
                                "unknown_outcome"}
OwnId(t) == IF pc[t] = "outcome" THEN intents[req[t]] ELSE ord[t].id

CallInv ==
    \A t \in Threads : pc[t] # "idle" => req[t] \in Corr /\ ord[t] \in Orders

OwnIdInv ==
    /\ \A t \in Threads :
         pc[t] \in Undecided =>
            /\ OwnId(t) \in usedIds
            /\ outcomes[OwnId(t)] = None
    /\ \A t, u \in Threads :
         /\ pc[t] \in Undecided
         /\ pc[u] \in Undecided
         /\ OwnId(t) = OwnId(u)
         => t = u

IntentInv ==
    /\ \A t \in Threads :
         /\ pc[t] \in BeforeIntent => \A c \in Corr : intents[c] # ord[t].id
         /\ pc[t] \in {"send", "wait"} => intents[req[t]] = ord[t].id
         /\ pc[t] = "send" => sent[req[t]] = 0
    /\ \A c \in Corr : intents[c] # None => intents[c] \in usedIds
    /\ \A i \in OmIds : outcomes[i] # None => i \in usedIds

SentInv ==
    \A c \in Corr :
        /\ sent[c] \in {0, 1}
        /\ sent[c] = 1 => intents[c] # None
        /\ c \in wire \/ venue[c] # None => sent[c] = 1

\* Every thread's OM id is its own, an intent is on the ledger before the send
\* and nothing is sent twice: what any interleaving of placements, failures,
\* lapsed reservations and restarts preserves.
PlacementInv == CallInv /\ OwnIdInv /\ IntentInv /\ SentInv

Promise == INSTANCE AtMostOnceSubmission
             WITH committed <- {c \in Corr : intents[c] # None},
                  held <- {c \in Corr : venue[c] # None}

\* place_order implements its promise, through crashes and failing ledger
\* writes: committed, then submitted at most once, then held by the venue.
KeepsPromise == Promise!Spec

\* Every place_order call returns.
PlacementReturns == \A t \in Threads : pc[t] # "idle" ~> pc[t] = "idle"

\* An order the venue holds shows up in the book under the venue's id and
\* stays there, also when its submission ended UNKNOWN or the process died.
VenueOrderSurfaces ==
    \A c \in Corr : venue[c] # None ~> [](orders[VenueId(c)] # None)

(***************************************************************************)
(* What the documentation says and the code does not do.                   *)
(***************************************************************************)

\* idempotency_guard.py: a caller that arrives while its correlation id is
\* being placed is told so.  StoreStub puts the stub where check_and_reserve
\* looks first, so it is told ACCEPTED before anything was submitted.
InFlightReported ==
    [][\A t, u \in Threads :
          /\ pc[t] = "idle" /\ pc'[t] = "idle"
          /\ result'[t] \notin {None, result[t]}
          /\ Placing(u, req'[t])
          => result'[t] = "IN_FLIGHT"]_vars

\* The orders of the book that stand for correlation id c.
BookOrders(c) == {i \in Ids : orders[i] # None
                               /\ (orders[i].corr = c \/ i = VenueId(c))}

\* QA-resiliency-3: once every call came back ACCEPTED the book holds one order
\* for the correlation id.  When the feed's order arrives before phase 4 the
\* stub is no longer the prior order and record_and_publish leaves it OPEN.
OneOrderPerPlacement ==
    (\A t \in Threads : pc[t] = "idle" /\ result[t] \in {None, "ACCEPTED"})
        => \A c \in Corr : Cardinality(BookOrders(c)) <= 1

\* 03-domain-model.md: terminal states are immutable.  record_and_publish
\* stores the placement's reply over whatever the feed has reported since.
TerminalImmutable ==
    [][\A i \in Ids :
          orders[i] # None /\ orders'[i] # None /\ orders[i].status \in Terminal
            => orders'[i].status = orders[i].status]_vars
=============================================================================
