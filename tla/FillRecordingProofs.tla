------------------------ MODULE FillRecordingProofs ------------------------
(***************************************************************************)
(* Proofs about FillRecording, for any orders, quantities and bounds, and  *)
(* with every write failing, trade updates, reconciliation, expiring       *)
(* memory and restarts allowed, unless a theorem says otherwise.           *)
(*                                                                         *)
(* The results about the ledger and the orders rest on the OMS lock: the   *)
(* trade its holder has validated is still the one it applies, and the     *)
(* order it applies it to is the one it validated it against. The result   *)
(* about the position book follows the lots from the venue to the book:    *)
(* what the stream derived of an order is what the trades in hand, in the  *)
(* buffer and taken over add up to, at most.                               *)
(***************************************************************************)
EXTENDS FillRecording, CollectionLemmas

\* The types the argument needs; a buffered trade is of its own order.
Types ==
    /\ venue \in [OrderIds -> Orders]
    /\ messages \subseteq Updates /\ executions \subseteq Trades
    /\ pc \in [Actors -> Phases]
    /\ snap \in [Actors -> Updates \cup {None}]
    /\ work \in Seq(Trades)
    /\ last \in [OrderIds -> Nat]
    /\ todo \subseteq OrderIds
    /\ orders \in [OrderIds -> Orders \cup {None}]
    /\ store \in [OrderIds -> Orders \cup {None}]
    /\ buffer \in [OrderIds -> Seq(Trades)]
    /\ \A o \in OrderIds : \A i \in 1 .. Len(buffer[o]) : buffer[o][i].order = o

\* An order described as filled no further than its quantity.
Sound(o, is) == is \in Orders /\ is.filled <= OrderQty[o]

\* Where an actor holds the lock, is applying a trade, or has an order to save.
LockPhases == {"apply", "flush_check", "flush_apply"}
Applying == {"apply", "flush_apply"}
Saving == LockPhases \cup {"trade", "save_order", "read_order", "save_fill"}

\* Nothing an order may be overwritten with is filled beyond its quantity.
Within ==
    /\ \A o \in OrderIds : venue[o].filled <= OrderQty[o]
    /\ \A m \in messages : m.is.filled <= OrderQty[m.order]
    /\ \A a \in Actors : pc[a] \in Saving =>
           /\ snap[a] \in Updates
           /\ snap[a].is.filled <= OrderQty[snap[a].order]
    /\ \A o \in todo : Sound(o, fetched[o])
    /\ FilledWithinOrder

\* One actor holds the lock; the orders of its trades are in the book, and the
\* trade it is applying is on the ledger and fits its order.
Holder ==
    /\ \A a, b \in Actors : pc[a] \in LockPhases /\ pc[b] \in LockPhases => a = b
    /\ \A a \in Actors : pc[a] \in LockPhases =>
           /\ work # <<>>
           /\ \A i \in 1 .. Len(work) : orders[work[i].order] \in Orders
    /\ \A a \in Actors : pc[a] \in Applying =>
           /\ Key(Head(work)) \in fills
           /\ FillCumulative(Head(work)) <= OrderQty[Head(work).order]
    /\ \A a \in Actors : pc[a] = "apply" => snap[a].order = Head(work).order
    /\ \A a \in Actors : pc[a] = "read_order" => Sound(snap[a].order, orders[snap[a].order])

\* The inductive invariant.
Inv == Types /\ Within /\ Holder /\ MarksOnLedger

\* What the head and the tail of a sequence of trades are.
LEMMA WorkFacts ==
    ASSUME NEW w \in Seq(Trades), w # <<>>
    PROVE  /\ Head(w) \in Trades /\ Head(w) = w[1] /\ 1 \in 1 .. Len(w)
           /\ Tail(w) \in Seq(Trades)
           /\ \A i \in 1 .. Len(Tail(w)) : i + 1 \in 1 .. Len(w) /\ Tail(w)[i] = w[i + 1]
  BY HeadTailProperties, LenProperties, EmptySeq

\* What appending a trade to a buffer gives.
LEMMA BufferFacts ==
    ASSUME NEW w \in Seq(Trades), NEW t \in Trades, NEW o,
           t.order = o, \A i \in 1 .. Len(w) : w[i].order = o
    PROVE  /\ Append(w, t) \in Seq(Trades)
           /\ \A i \in 1 .. Len(Append(w, t)) : Append(w, t)[i].order = o
  BY AppendProperties, LenProperties

\* The invariant holds when the venue has accepted the orders.
LEMMA FillInit == Init => Inv
<1> SUFFICES ASSUME Init PROVE Inv
  OBVIOUS
<1>1. \A o \in OrderIds : OrderQty[o] \in Nat /\ OrderQty[o] > 0
  BY FillAssumption
<1>2. <<>> \in Seq(Trades) /\ Len(<<>>) = 0
  BY EmptySeq
<1>3. Order("OPEN", 0) \in Orders /\ Order("OPEN", 0).filled = 0
  BY DEF Order, Orders, OrderStatus
<1>4. Types
  BY <1>2, <1>3 DEF Init, Types, Updates, Phases
<1>5. Within
  BY <1>1, <1>3 DEF Init, Within, Saving, LockPhases, FilledWithinOrder, Sound
<1>6. Holder
  BY DEF Init, Holder, LockPhases, Applying
<1> QED BY <1>4, <1>5, <1>6 DEF Init, Inv, MarksOnLedger

\* upsert_order of a sound update keeps the invariant.
LEMMA UpsertKeeps ==
    ASSUME Inv, NEW a \in Actors, NEW m \in Updates,
           m.is.filled <= OrderQty[m.order],
           UpsertOrder(a, m), todo' \subseteq todo, fetched' = fetched
    PROVE  Inv'
<1>1. /\ orders' = [orders EXCEPT ![m.order] = m.is] \/ orders' = orders
      /\ m.order \in OrderIds /\ m.is \in Orders
      /\ ~Locked
      /\ UNCHANGED <<venueVars, last, store, marks, fills>>
  BY DEF UpsertOrder, Updates, markVars
<1>2. \/ /\ Enter(a, AfterUpsert(a), m) /\ UNCHANGED <<work, buffer>>
      \/ /\ work' = buffer[m.order]
         /\ buffer' = [buffer EXCEPT ![m.order] = <<>>]
         /\ buffer[m.order] = <<>> /\ Enter(a, "save_order", m)
      \/ /\ work' = buffer[m.order]
         /\ buffer' = [buffer EXCEPT ![m.order] = <<>>]
         /\ orders' = [orders EXCEPT ![m.order] = m.is]
         /\ buffer[m.order] # <<>> /\ Enter(a, "flush_check", m)
  BY DEF UpsertOrder
<1>3. \A b \in Actors : pc[b] \notin LockPhases
  BY <1>1 DEF Locked, LockPhases
<1>4. <<>> \in Seq(Trades) /\ Len(<<>>) = 0
  BY EmptySeq
<1>5. AfterUpsert(a) \in {"trade", "idle"}
  BY DEF AfterUpsert
<1>6. /\ \A b \in Actors \ {a} : pc'[b] = pc[b] /\ snap'[b] = snap[b]
      /\ pc'[a] \in {"trade", "idle", "save_order", "flush_check"}
      /\ pc'[a] # "idle" => snap'[a] = m
      /\ snap' \in [Actors -> Updates \cup {None}] /\ pc' \in [Actors -> Phases]
      /\ pc'[a] = "flush_check" =>
            /\ work' = buffer[m.order] /\ buffer[m.order] # <<>>
            /\ orders' = [orders EXCEPT ![m.order] = m.is]
  <2>1. PICK p \in {"trade", "idle", "save_order", "flush_check"} :
           /\ Enter(a, p, m)
           /\ p = "flush_check" =>
                /\ work' = buffer[m.order] /\ buffer[m.order] # <<>>
                /\ orders' = [orders EXCEPT ![m.order] = m.is]
    BY <1>2, <1>5
  <2>2. p \in Phases
    BY DEF Phases
  <2>3. pc' = [pc EXCEPT ![a] = p] /\ pc' \in [Actors -> Phases] /\ pc'[a] = p
    BY <2>1, <2>2 DEF Enter, Inv, Types
  <2>4. snap' = snap \/ snap' = [snap EXCEPT ![a] = m]
    BY <2>1 DEF Enter
  <2>5. snap' \in [Actors -> Updates \cup {None}]
    BY <2>4 DEF Inv, Types
  <2>6. p # "idle" => snap'[a] = m
    BY <2>1 DEF Enter, Inv, Types
  <2>7. \A b \in Actors \ {a} : pc'[b] = pc[b] /\ snap'[b] = snap[b]
    BY <2>3, <2>4 DEF Inv, Types
  <2> QED BY <2>1, <2>3, <2>5, <2>6, <2>7
<1>7. work' \in Seq(Trades) /\ buffer' \in [OrderIds -> Seq(Trades)]
  <2>1. buffer[m.order] \in Seq(Trades) /\ work \in Seq(Trades)
    BY <1>1 DEF Inv, Types
  <2>2. work' = work \/ work' = buffer[m.order]
    BY <1>2
  <2>3. buffer' = buffer \/ buffer' = [buffer EXCEPT ![m.order] = <<>>]
    BY <1>2
  <2> QED BY <1>4, <2>1, <2>2, <2>3 DEF Inv, Types
<1>8. \A o \in OrderIds : \A i \in 1 .. Len(buffer'[o]) : buffer'[o][i].order = o
  <2>1. buffer \in [OrderIds -> Seq(Trades)]
        /\ \A o \in OrderIds : \A i \in 1 .. Len(buffer[o]) : buffer[o][i].order = o
    BY DEF Inv, Types
  <2>2. buffer' = buffer \/ buffer' = [buffer EXCEPT ![m.order] = <<>>]
    BY <1>2
  <2>3. \A o \in OrderIds : buffer'[o] = buffer[o] \/ buffer'[o] = <<>>
    BY <2>1, <2>2
  <2> QED BY <1>4, <2>1, <2>3
<1>9. orders' \in [OrderIds -> Orders \cup {None}]
  BY <1>1 DEF Inv, Types
<1>10. Types'
  <2>1. UNCHANGED <<venue, messages, executions, last, store>> /\ todo' \subseteq todo
    BY <1>1 DEF venueVars
  <2> QED BY <1>6, <1>7, <1>8, <1>9, <2>1 DEF Inv, Types
<1>11. FilledWithinOrder'
  <2> SUFFICES ASSUME NEW o \in OrderIds
               PROVE  /\ orders'[o] # None => orders'[o].filled <= OrderQty[o]
                      /\ store'[o] # None => store'[o].filled <= OrderQty[o]
    BY DEF FilledWithinOrder
  <2>1. orders'[o] = orders[o] \/ (o = m.order /\ orders'[o] = m.is)
    BY <1>1 DEF Inv, Types
  <2> QED BY <1>1, <2>1 DEF Inv, Within, FilledWithinOrder
<1>12. Within'
  BY <1>1, <1>6, <1>11 DEF Inv, Types, Within, Sound, Saving, LockPhases, venueVars
<1>13. Holder'
  <2>1. \A b \in Actors : pc'[b] \in LockPhases => b = a /\ pc'[a] = "flush_check"
    BY <1>3, <1>6 DEF LockPhases
  <2>2. ASSUME pc'[a] = "flush_check"
        PROVE  /\ work' # <<>>
               /\ \A i \in 1 .. Len(work') : orders'[work'[i].order] \in Orders
    BY <1>1, <1>6, <2>2 DEF Inv, Types
  <2>3. ASSUME NEW b \in Actors, pc'[b] = "read_order"
        PROVE  Sound(snap'[b].order, orders'[snap'[b].order])
    <3>1. pc[b] = "read_order" /\ snap'[b] = snap[b] /\ snap[b].order \in OrderIds
      BY <1>6, <2>3 DEF Inv, Within, Saving, Updates
    <3>2. Sound(snap[b].order, orders[snap[b].order])
      BY <3>1 DEF Inv, Holder
    <3> QED BY <1>1, <3>1, <3>2 DEF Inv, Types, Sound
  <2> QED BY <2>1, <2>2, <2>3 DEF Holder, LockPhases, Applying
<1>14. MarksOnLedger'
  BY <1>1 DEF Inv, MarksOnLedger
<1> QED BY <1>10, <1>12, <1>13, <1>14 DEF Inv

\* record_trade keeps it.
LEMMA RecordKeeps ==
    ASSUME Inv, NEW t \in Trades, pc["stream"] \in {"idle", "trade"},
           RecordTrade(t), last' \in [OrderIds -> Nat]
    PROVE  Inv'
<1>1. /\ ~Locked /\ "stream" \in Actors /\ t.order \in OrderIds
      /\ UNCHANGED <<venueVars, fetched, todo, orders, store, marks>>
  BY DEF RecordTrade, Trades, Actors, reconVars, bookVars, markVars
<1>2. \/ /\ Goto("stream", "idle") /\ UNCHANGED <<work, fills>>
         /\ \/ buffer' = buffer
            \/ buffer' = [buffer EXCEPT ![t.order] = Append(buffer[t.order], t)]
      \/ /\ orders[t.order] # None /\ FillCumulative(t) <= OrderQty[t.order]
         /\ fills' = fills \cup {Key(t)} /\ work' = <<t>> /\ buffer' = buffer
         /\ Enter("stream", "apply",
                  [order |-> t.order, is |-> orders[t.order]])
  BY DEF RecordTrade, ValidFill, LedgerWrite
<1>3. \A b \in Actors : pc[b] \notin LockPhases
  BY <1>1 DEF Locked, LockPhases
<1>4. orders[t.order] # None =>
         /\ orders[t.order] \in Orders
         /\ orders[t.order].filled <= OrderQty[t.order]
  BY <1>1 DEF Inv, Types, Within, FilledWithinOrder
<1>5. CASE /\ Goto("stream", "idle") /\ UNCHANGED <<work, fills>>
           /\ \/ buffer' = buffer
              \/ buffer' = [buffer EXCEPT ![t.order] = Append(buffer[t.order], t)]
  <2>1. /\ pc' = [pc EXCEPT !["stream"] = "idle"]
        /\ snap' = [snap EXCEPT !["stream"] = None]
    BY <1>5 DEF Goto
  <2>2. /\ pc' \in [Actors -> Phases] /\ pc'["stream"] = "idle"
        /\ snap' \in [Actors -> Updates \cup {None}]
        /\ \A b \in Actors \ {"stream"} : pc'[b] = pc[b] /\ snap'[b] = snap[b]
    BY <1>1, <2>1 DEF Inv, Types, Phases
  <2>3. /\ Append(buffer[t.order], t) \in Seq(Trades)
        /\ \A i \in 1 .. Len(Append(buffer[t.order], t)) :
              Append(buffer[t.order], t)[i].order = t.order
    BY <1>1, BufferFacts DEF Inv, Types
  <2>4. /\ buffer' \in [OrderIds -> Seq(Trades)]
        /\ \A o \in OrderIds : \A i \in 1 .. Len(buffer'[o]) : buffer'[o][i].order = o
    BY <1>1, <1>5, <2>3 DEF Inv, Types
  <2>5. Types'
    BY <1>1, <1>5, <2>2, <2>4 DEF Inv, Types, venueVars
  <2>6. Within'
    BY <1>1, <2>2 DEF Inv, Within, Sound, FilledWithinOrder, Saving, LockPhases, venueVars
  <2>7. Holder'
    BY <1>1, <1>3, <2>2 DEF Inv, Holder, LockPhases, Applying
  <2> QED BY <1>1, <1>5, <2>5, <2>6, <2>7 DEF Inv, MarksOnLedger
<1>6. CASE /\ orders[t.order] # None /\ FillCumulative(t) <= OrderQty[t.order]
           /\ fills' = fills \cup {Key(t)} /\ work' = <<t>> /\ buffer' = buffer
           /\ Enter("stream", "apply",
                    [order |-> t.order, is |-> orders[t.order]])
  <2> DEFINE m == [order |-> t.order, is |-> orders[t.order]]
  <2>1. m \in Updates /\ m.order = t.order /\ m.is = orders[t.order]
    BY <1>1, <1>4, <1>6 DEF Updates
  <2>2. pc' = [pc EXCEPT !["stream"] = "apply"] /\ snap' = [snap EXCEPT !["stream"] = m]
    BY <1>6 DEF Enter
  <2> HIDE DEF m
  <2>3. /\ pc' \in [Actors -> Phases] /\ pc'["stream"] = "apply" /\ snap'["stream"] = m
        /\ snap' \in [Actors -> Updates \cup {None}]
        /\ \A b \in Actors \ {"stream"} : pc'[b] = pc[b] /\ snap'[b] = snap[b]
    BY <1>1, <2>1, <2>2 DEF Inv, Types, Phases
  <2>4. /\ work' \in Seq(Trades) /\ work' # <<>> /\ Head(work') = t
        /\ \A i \in 1 .. Len(work') : work'[i] = t
    BY <1>6
  <2>5. Types'
    BY <1>1, <1>6, <2>3, <2>4 DEF Inv, Types, venueVars
  <2>6. Within'
    <3>1. FilledWithinOrder'
      BY <1>1 DEF Inv, Within, FilledWithinOrder
    <3>2. \A b \in Actors : pc'[b] \in Saving =>
             snap'[b] \in Updates /\ snap'[b].is.filled <= OrderQty[snap'[b].order]
      BY <1>4, <1>6, <2>1, <2>3 DEF Inv, Within
    <3> QED BY <1>1, <3>1, <3>2 DEF Inv, Within, Sound, venueVars
  <2>7. FillCumulative(t)' = FillCumulative(t)
    BY <1>1 DEF FillCumulative
  <2>8. Holder'
    <3>1. \A b \in Actors : pc'[b] \in LockPhases => b = "stream"
      BY <1>3, <2>3
    <3>2. \A i \in 1 .. Len(work') : orders'[work'[i].order] \in Orders
      BY <1>1, <1>4, <1>6, <2>4
    <3>3. Key(Head(work')) \in fills'
      BY <1>6, <2>4 DEF Key
    <3>4. (FillCumulative(Head(work)) <= OrderQty[Head(work).order])'
      BY <1>1, <1>6, <2>4 DEF FillCumulative
    <3>5. \A b \in Actors : pc'[b] = "apply" => snap'[b].order = Head(work').order
      BY <2>1, <2>3, <2>4, <3>1 DEF LockPhases
    <3>6. \A b \in Actors : pc'[b] = "read_order" =>
             Sound(snap'[b].order, orders'[snap'[b].order])
      BY <1>1, <2>3 DEF Inv, Holder
    <3>7. \A b \in Actors : pc'[b] \in Applying => pc'[b] \in LockPhases
      BY DEF Applying, LockPhases
    <3> QED BY <2>4, <3>1, <3>2, <3>3, <3>4, <3>5, <3>6, <3>7 DEF Holder
  <2> QED BY <1>1, <1>6, <2>5, <2>6, <2>8 DEF Inv, MarksOnLedger
<1> QED BY <1>2, <1>5, <1>6

\* A step that takes the lock's holder out of its lock, or another actor to a
\* place where it holds none with the order book left alone, keeps it.
LEMMA MoveKeeps ==
    ASSUME Inv, NEW a \in Actors,
           NEW p \in {"idle", "trade", "save_order", "read_order", "fetch_positions"},
           Goto(a, p), p \in {"trade", "save_order", "read_order"} => pc[a] \in Saving,
           UNCHANGED <<venueVars, last, buffer>>,
           orders' = orders \/ pc[a] \in LockPhases,
           orders' \in [OrderIds -> Orders \cup {None}],
           \A o \in OrderIds : /\ orders'[o] # None => orders'[o].filled <= OrderQty[o]
                               /\ orders[o] \in Orders => orders'[o] \in Orders
                               /\ Sound(o, orders[o]) => Sound(o, orders'[o]),
           p = "read_order" => Sound(snap[a].order, orders'[snap[a].order]),
           fills \subseteq fills', marks' \subseteq fills',
           store' \in [OrderIds -> Orders \cup {None}],
           \A o \in OrderIds : store'[o] # None => store'[o].filled <= OrderQty[o],
           todo' \subseteq OrderIds, \A o \in todo' : Sound(o, fetched'[o]),
           work' = work \/ (pc[a] \in LockPhases /\ work' \in Seq(Trades))
    PROVE  Inv'
<1>1. /\ pc' \in [Actors -> Phases] /\ pc'[a] = p
      /\ \A b \in Actors \ {a} : pc'[b] = pc[b]
  BY DEF Goto, Inv, Types, Phases
<1>2. /\ snap' \in [Actors -> Updates \cup {None}]
      /\ \A b \in Actors \ {a} : snap'[b] = snap[b]
      /\ p # "idle" => snap'[a] = snap[a]
  BY DEF Goto, Inv, Types
<1>3. Types'
  BY <1>1, <1>2 DEF Inv, Types, venueVars
<1>4. Within'
  <2>1. \A b \in Actors : pc'[b] \in Saving =>
           snap'[b] \in Updates /\ snap'[b].is.filled <= OrderQty[snap'[b].order]
    <3> SUFFICES ASSUME NEW b \in Actors, pc'[b] \in Saving
                 PROVE  pc[b] \in Saving /\ snap'[b] = snap[b]
      BY DEF Inv, Within
    <3>1. CASE b = a
      BY <1>1, <1>2, <3>1 DEF Saving, LockPhases
    <3>2. CASE b # a
      BY <1>1, <1>2, <3>2
    <3> QED BY <3>1, <3>2
  <2>2. FilledWithinOrder'
    BY DEF Inv, Within, FilledWithinOrder
  <2> QED BY <2>1, <2>2 DEF Inv, Within, venueVars
<1>5. Holder'
  <2>1. \A b \in Actors : pc'[b] \in LockPhases => b # a /\ pc[b] \in LockPhases
    BY <1>1 DEF LockPhases
  <2>2. ASSUME NEW b \in Actors, pc'[b] \in LockPhases
        PROVE  work' = work /\ orders' = orders
    BY <2>1, <2>2 DEF Inv, Holder
  <2>3. \A b \in Actors : pc'[b] \in Applying => pc'[b] \in LockPhases
    BY DEF Applying, LockPhases
  <2>4. ASSUME NEW b \in Actors, pc'[b] = "read_order"
        PROVE  Sound(snap'[b].order, orders'[snap'[b].order])
    <3>1. CASE b = a
      BY <1>1, <1>2, <2>4, <3>1
    <3>2. CASE b # a
      <4>1. pc[b] = "read_order" /\ snap'[b] = snap[b]
        BY <1>1, <1>2, <2>4, <3>2
      <4>2. snap[b].order \in OrderIds /\ Sound(snap[b].order, orders[snap[b].order])
        BY <4>1 DEF Inv, Within, Saving, Updates, Holder
      <4>3. Sound(snap[b].order, orders'[snap[b].order])
        BY <4>2
      <4> QED BY <4>1, <4>3
    <3> QED BY <3>1, <3>2
  <2>5. \A b \in Actors : pc'[b] \in LockPhases =>
           /\ work' # <<>>
           /\ \A i \in 1 .. Len(work') : orders'[work'[i].order] \in Orders
    BY <1>1, <2>1, <2>2 DEF Inv, Holder
  <2>6. ASSUME NEW b \in Actors, pc'[b] \in Applying
        PROVE  /\ Key(Head(work')) \in fills'
               /\ (FillCumulative(Head(work)) <= OrderQty[Head(work).order])'
    <3>1. pc[b] \in Applying /\ work' = work /\ orders' = orders
      BY <1>1, <2>1, <2>2, <2>3, <2>6
    <3> QED BY <3>1 DEF Inv, Holder, FillCumulative
  <2>7. \A b \in Actors : pc'[b] = "apply" => snap'[b].order = Head(work').order
    <3> SUFFICES ASSUME NEW b \in Actors, pc'[b] = "apply"
                 PROVE  snap'[b].order = Head(work').order
      OBVIOUS
    <3>1. pc'[b] \in LockPhases
      BY DEF LockPhases
    <3> QED BY <1>1, <1>2, <2>1, <2>2, <3>1 DEF Inv, Holder
  <2>8. \A b, c \in Actors : pc'[b] \in LockPhases /\ pc'[c] \in LockPhases => b = c
    BY <2>1 DEF Inv, Holder
  <2> QED BY <2>4, <2>5, <2>6, <2>7, <2>8 DEF Holder
<1> QED BY <1>3, <1>4, <1>5 DEF Inv, MarksOnLedger

\* The holder of the lock comes to its next trade, or starts to apply one.
LEMMA HoldKeeps ==
    ASSUME Inv, NEW a \in Actors, pc[a] \in LockPhases,
           NEW p \in {"flush_check", "flush_apply"}, Goto(a, p),
           UNCHANGED <<venueVars, last, store, buffer, fetched, todo>>,
           fills \subseteq fills', marks' \subseteq fills',
           orders' \in [OrderIds -> Orders \cup {None}],
           \A o \in OrderIds : /\ orders'[o] # None => orders'[o].filled <= OrderQty[o]
                               /\ orders[o] \in Orders => orders'[o] \in Orders
                               /\ Sound(o, orders[o]) => Sound(o, orders'[o]),
           work' # <<>>, work' = work \/ work' = Tail(work),
           p = "flush_apply" =>
              /\ Key(Head(work')) \in fills'
              /\ (FillCumulative(Head(work)) <= OrderQty[Head(work).order])'
    PROVE  Inv'
<1>1. /\ pc' = [pc EXCEPT ![a] = p] /\ snap' = snap /\ p \in LockPhases /\ p \in Phases
  BY DEF Goto, LockPhases, Phases
<1>2. /\ pc' \in [Actors -> Phases] /\ pc'[a] = p
      /\ \A b \in Actors \ {a} : pc'[b] = pc[b]
  BY <1>1 DEF Inv, Types
<1>3. /\ work \in Seq(Trades) /\ work # <<>>
      /\ \A i \in 1 .. Len(work) : orders[work[i].order] \in Orders
  BY DEF Inv, Types, Holder
<1>4. /\ Tail(work) \in Seq(Trades)
      /\ \A i \in 1 .. Len(Tail(work)) : i + 1 \in 1 .. Len(work) /\ Tail(work)[i] = work[i + 1]
  BY <1>3, WorkFacts
<1>5. \A i \in 1 .. Len(work) : work[i] \in Trades /\ work[i].order \in OrderIds
  <2>1. \A i \in 1 .. Len(work) : work[i] \in Trades
    BY <1>3, ElementOfSeq
  <2> QED BY <2>1 DEF Trades
<1>6. /\ work' \in Seq(Trades)
      /\ \A i \in 1 .. Len(work') : orders'[work'[i].order] \in Orders
  <2>1. CASE work' = work
    BY <1>3, <1>5, <2>1
  <2>2. CASE work' = Tail(work)
    BY <1>3, <1>4, <1>5, <2>2
  <2> QED BY <2>1, <2>2
<1>7. Types'
  BY <1>1, <1>2, <1>6 DEF Inv, Types, venueVars
<1>8. Within'
  <2>1. \A b \in Actors : pc'[b] \in Saving => pc[b] \in Saving
    BY <1>2 DEF Saving
  <2>2. FilledWithinOrder'
    BY DEF Inv, Within, FilledWithinOrder
  <2> QED BY <1>1, <2>1, <2>2 DEF Inv, Within, venueVars
<1>9. Holder'
  <2>1. \A b \in Actors : pc'[b] \in LockPhases => b = a
    BY <1>2 DEF Inv, Holder
  <2>2. \A b \in Actors : pc'[b] \in Applying => p = "flush_apply"
    BY <1>2, <2>1 DEF Applying, LockPhases
  <2>3. \A b \in Actors : pc'[b] # "apply"
    BY <1>2, <2>1 DEF LockPhases
  <2>4. \A b \in Actors : pc'[b] = "read_order" =>
           Sound(snap'[b].order, orders'[snap'[b].order])
    <3> SUFFICES ASSUME NEW b \in Actors, pc'[b] = "read_order"
                 PROVE  Sound(snap[b].order, orders'[snap[b].order])
      BY <1>1
    <3>1. pc[b] = "read_order"
      BY <1>2
    <3>2. snap[b].order \in OrderIds /\ Sound(snap[b].order, orders[snap[b].order])
      BY <3>1 DEF Inv, Within, Saving, Updates, Holder
    <3> QED BY <3>2
  <2> QED BY <1>6, <2>1, <2>2, <2>3, <2>4 DEF Holder
<1> QED BY <1>7, <1>8, <1>9 DEF Inv, MarksOnLedger

\* flush_pending_trades_locked, up to the ledger write of the trade at hand.
LEMMA FlushCheckKeeps ==
    ASSUME Inv, NEW a \in Actors, FlushCheck(a)
    PROVE  Inv'
<1> DEFINE t == Head(work)
<1>1. /\ pc[a] = "flush_check" /\ pc[a] \in LockPhases /\ pc[a] \in Saving
      /\ UNCHANGED <<venueVars, last, fetched, todo, orders, store, buffer, marks>>
  BY DEF FlushCheck, LockPhases, Saving, reconVars, bookVars, markVars
<1>2. /\ work \in Seq(Trades) /\ work # <<>> /\ Tail(work) \in Seq(Trades) /\ marks \subseteq fills
  BY <1>1, WorkFacts DEF Inv, Types, Holder, MarksOnLedger
<1>3. /\ orders' \in [OrderIds -> Orders \cup {None}]
      /\ store' \in [OrderIds -> Orders \cup {None}]
      /\ \A o \in OrderIds : store'[o] # None => store'[o].filled <= OrderQty[o]
      /\ \A o \in OrderIds : orders'[o] # None => orders'[o].filled <= OrderQty[o]
      /\ todo' \subseteq OrderIds /\ \A o \in todo' : Sound(o, fetched'[o])
  BY <1>1 DEF Inv, Types, Within, FilledWithinOrder, Sound
<1>4. CASE Continue(a, Tail(work)) /\ UNCHANGED fills
  <2>1. CASE Tail(work) = <<>>
    BY <1>1, <1>2, <1>3, <1>4, <2>1, MoveKeeps DEF Continue
  <2>2. CASE Tail(work) # <<>>
    BY <1>1, <1>2, <1>3, <1>4, <2>2, HoldKeeps DEF Continue
  <2> QED BY <2>1, <2>2
<1>5. CASE /\ ValidFill(t) /\ fills' = fills \cup {Key(t)}
           /\ Goto(a, "flush_apply") /\ work' = work
  <2>1. (FillCumulative(Head(work)) <= OrderQty[Head(work).order])'
    BY <1>1, <1>5 DEF ValidFill, FillCumulative
  <2> QED BY <1>1, <1>2, <1>3, <1>5, <2>1, HoldKeeps
<1>6. CASE AbandonFlush(a) /\ UNCHANGED fills
  <2>1. PICK p \in {"idle", "trade", "save_order"} : Goto(a, p) /\ work' = <<>>
    BY <1>6 DEF AbandonFlush, AfterUpsert
  <2>2. <<>> \in Seq(Trades)
    BY EmptySeq
  <2> QED BY <1>1, <1>2, <1>3, <1>6, <2>1, <2>2, MoveKeeps
<1> QED BY <1>4, <1>5, <1>6 DEF FlushCheck, LedgerWrite

\* apply_trade, TRADE_APPLIED and the processed mark.
LEMMA ApplyFillKeeps ==
    ASSUME Inv, NEW a \in Actors, ApplyFill(a)
    PROVE  Inv'
<1> DEFINE t == Head(work)
<1>1. /\ pc[a] \in Applying /\ pc[a] \in LockPhases /\ pc[a] \in Saving
      /\ orders' = [orders EXCEPT ![t.order] = AppliedOrder(t)]
      /\ UNCHANGED <<venueVars, last, fetched, todo, store, buffer, fills>>
      /\ marks' \in {marks, marks \cup {Key(t)}}
  BY DEF ApplyFill, Applying, LockPhases, Saving, reconVars
<1>2. /\ work \in Seq(Trades) /\ work # <<>>
      /\ orders[work[1].order] \in Orders \/ ~(1 \in 1 .. Len(work))
      /\ Key(t) \in fills /\ FillCumulative(t) <= OrderQty[t.order]
  BY <1>1 DEF Inv, Types, Holder
<1>3. /\ t \in Trades /\ orders[t.order] \in Orders /\ Tail(work) \in Seq(Trades)
      /\ t.order \in OrderIds /\ t.qty \in Nat
  <2>1. t \in Trades /\ t = work[1] /\ 1 \in 1 .. Len(work) /\ Tail(work) \in Seq(Trades)
    BY <1>2, WorkFacts
  <2> QED BY <1>2, <2>1 DEF Trades
<1>4. AppliedOrder(t) \in Orders /\ AppliedOrder(t).filled <= OrderQty[t.order]
  <2>1. FillCumulative(t) \in Nat
    BY <1>3 DEF FillCumulative, Orders
  <2> HIDE DEF t
  <2> QED BY <1>2, <2>1 DEF AppliedOrder, Order, Orders, OrderStatus
<1> HIDE DEF t
<1>5. /\ orders' \in [OrderIds -> Orders \cup {None}]
      /\ \A o \in OrderIds : /\ orders'[o] # None => orders'[o].filled <= OrderQty[o]
                             /\ orders[o] \in Orders => orders'[o] \in Orders
                             /\ Sound(o, orders[o]) => Sound(o, orders'[o])
  <2>1. /\ orders \in [OrderIds -> Orders \cup {None}] /\ AppliedOrder(t) \in Orders
        /\ orders' = [orders EXCEPT ![t.order] = AppliedOrder(t)]
    BY <1>1, <1>4 DEF Inv, Types
  <2> DEFINE new == AppliedOrder(t)
             k   == t.order
  <2>2. /\ orders' \in [OrderIds -> Orders \cup {None}]
        /\ \A o \in OrderIds : orders'[o] = orders[o] \/ (o = k /\ orders'[o] = new)
    <3>1. orders' = [orders EXCEPT ![k] = new] /\ new \in Orders
      BY <2>1
    <3> HIDE DEF new, k
    <3> QED BY <2>1, <3>1
  <2>3. \A o \in OrderIds : orders[o] # None => orders[o].filled <= OrderQty[o]
    BY DEF Inv, Within, FilledWithinOrder
  <2> QED BY <1>4, <2>2, <2>3 DEF Sound
<1>6. /\ store' \in [OrderIds -> Orders \cup {None}]
      /\ \A o \in OrderIds : store'[o] # None => store'[o].filled <= OrderQty[o]
      /\ todo' \subseteq OrderIds /\ \A o \in todo' : Sound(o, fetched'[o])
      /\ fills \subseteq fills' /\ marks' \subseteq fills'
  BY <1>1, <1>2 DEF Inv, Types, Within, FilledWithinOrder, Sound, MarksOnLedger
<1>7. ASSUME NEW p \in {"idle", "trade", "save_order", "read_order"}, Goto(a, p),
             work' \in Seq(Trades),
             p = "read_order" => pc[a] = "apply"
      PROVE  Inv'
  <2>1. p = "read_order" => Sound(snap[a].order, orders'[snap[a].order])
    <3> SUFFICES ASSUME p = "read_order"
                 PROVE  snap[a].order = t.order /\ orders'[t.order] = AppliedOrder(t)
      BY <1>4 DEF Sound
    <3>1. snap[a].order = t.order
      BY <1>7 DEF Inv, Holder, t
    <3> QED BY <1>1, <1>3, <3>1 DEF Inv, Types
  <2> QED BY <1>1, <1>5, <1>6, <1>7, <2>1, MoveKeeps
<1>8. <<>> \in Seq(Trades)
  BY EmptySeq
<1>9. CASE pc[a] = "flush_apply" /\ Continue(a, Tail(work))
  <2>1. CASE Tail(work) = <<>>
    BY <1>3, <1>7, <1>9, <2>1 DEF Continue
  <2>2. CASE Tail(work) # <<>>
    BY <1>1, <1>5, <1>6, <1>9, <2>2, HoldKeeps DEF Continue
  <2> QED BY <2>1, <2>2
<1>10. CASE pc[a] # "flush_apply" /\ work' = <<>> /\ Goto(a, "read_order")
  BY <1>1, <1>7, <1>8, <1>10 DEF Applying
<1>11. CASE AbandonFlush(a) \/ (work' = <<>> /\ Goto(a, "idle"))
  BY <1>7, <1>8, <1>11 DEF AbandonFlush, AfterUpsert
<1> QED BY <1>9, <1>10, <1>11 DEF ApplyFill

\* The trade the stream derives from a message that brings something new.
LEMMA DerivedIsTrade ==
    ASSUME Inv, pc["stream"] = "trade", ~NothingNew(snap["stream"])
    PROVE  /\ snap["stream"].order \in OrderIds /\ snap["stream"].is.filled \in Nat
           /\ last[snap["stream"].order] \in Nat
           /\ snap["stream"].is.filled > last[snap["stream"].order]
           /\ DerivedTrade(snap["stream"]) \in Trades
<1>1. snap["stream"].order \in OrderIds /\ snap["stream"].is.filled \in Nat
  BY DEF Actors, Inv, Within, Saving, Updates, Orders
<1>2. last[snap["stream"].order] \in Nat
  BY <1>1 DEF Inv, Types
<1>3. /\ snap["stream"].is.filled - last[snap["stream"].order] \in Nat \ {0}
      /\ snap["stream"].is.filled \in Nat \ {0}
  BY <1>1, <1>2 DEF NothingNew
<1>4. DerivedTrade(snap["stream"]) \in Trades
  BY <1>1, <1>3 DEF DerivedTrade, Trades, Sources
<1> QED BY <1>1, <1>2, <1>3, <1>4

\* Every step keeps the invariant.
LEMMA FillStep == Inv /\ [Next]_vars => Inv'
<1> SUFFICES ASSUME Inv, [Next]_vars PROVE Inv'
  OBVIOUS
<1>1. /\ "stream" \in Actors /\ "recon" \in Actors /\ "placer" \in Actors
      /\ marks \subseteq fills /\ work \in Seq(Trades) /\ <<>> \in Seq(Trades)
  BY EmptySeq DEF Actors, Inv, MarksOnLedger, Types
<1>2. /\ orders \in [OrderIds -> Orders \cup {None}]
      /\ \A o \in OrderIds : orders[o] # None => orders[o].filled <= OrderQty[o]
      /\ store \in [OrderIds -> Orders \cup {None}]
      /\ \A o \in OrderIds : store[o] # None => store[o].filled <= OrderQty[o]
      /\ todo \subseteq OrderIds /\ \A o \in todo : Sound(o, fetched[o])
  BY DEF Inv, Types, Within, FilledWithinOrder, Sound
<1>3. ASSUME NEW a \in Actors, NEW p \in {"idle", "trade", "save_order"}, Goto(a, p),
             pc[a] \in Saving,
             UNCHANGED <<venueVars, last, buffer, orders, fills, marks, fetched, todo>>,
             store' \in [OrderIds -> Orders \cup {None}],
             \A o \in OrderIds : store'[o] # None => store'[o].filled <= OrderQty[o],
             work' = work \/ (pc[a] \in LockPhases /\ work' = <<>>)
      PROVE  Inv'
  BY <1>1, <1>2, <1>3, MoveKeeps
<1>4. ASSUME NEW o \in OrderIds, VenueFills(o) \/ VenueCancels(o) PROVE Inv'
  <2>1. PICK is \in Orders : is.filled <= OrderQty[o] /\ Emit(o, is) /\ executions' \subseteq Trades
    <3>1. CASE VenueCancels(o)
      <4>1. [venue[o] EXCEPT !.status = "CANCELLED"] \in Orders
        BY DEF Inv, Types, Orders, OrderStatus
      <4>2. [venue[o] EXCEPT !.status = "CANCELLED"].filled = venue[o].filled
        BY DEF Inv, Types, Orders
      <4> QED BY <3>1, <4>1, <4>2 DEF VenueCancels, Inv, Types, Within
    <3>2. CASE VenueFills(o)
      <4>1. venue[o].filled \in Nat /\ OrderQty[o] \in Nat
        BY FillAssumption DEF Inv, Types, Orders
      <4>2. PICK n \in venue[o].filled + 1 .. OrderQty[o],
                 st \in {"FILLED", "OPEN", "PARTIALLY_FILLED"} :
              /\ Emit(o, Order(st, n))
              /\ \/ executions' = executions
                 \/ executions' = executions \cup
                       {[order |-> o, cum |-> n, via |-> "trade",
                         qty |-> n - venue[o].filled]}
        BY <3>2 DEF VenueFills
      <4>3. n \in Nat \ {0} /\ n - venue[o].filled \in Nat \ {0} /\ n <= OrderQty[o]
        BY <4>1
      <4>4. [order |-> o, cum |-> n, via |-> "trade", qty |-> n - venue[o].filled] \in Trades
        BY <4>3 DEF Trades, Sources
      <4>5. Order(st, n) \in Orders /\ Order(st, n).filled = n
        BY <4>3 DEF Order, Orders, OrderStatus
      <4> QED BY <4>2, <4>3, <4>4, <4>5 DEF Inv, Types
    <3> QED BY <1>4, <3>1, <3>2
  <2>2. /\ venue' = [venue EXCEPT ![o] = is]
        /\ messages' = messages \cup {[order |-> o, is |-> is]}
        /\ UNCHANGED <<pc, snap, work, last, fetched, todo, orders, store, buffer,
                       marks, fills>>
    BY <2>1 DEF Emit, reconVars, bookVars, markVars
  <2>3. /\ [order |-> o, is |-> is] \in Updates
        /\ [order |-> o, is |-> is].is.filled <= OrderQty[[order |-> o, is |-> is].order]
    BY <2>1 DEF Updates
  <2>4. Types'
    BY <2>1, <2>2, <2>3 DEF Inv, Types
  <2>5. Within'
    BY <2>1, <2>2, <2>3 DEF Inv, Types, Within, FilledWithinOrder, Sound
  <2>6. Holder'
    BY <2>2 DEF Inv, Holder, FillCumulative
  <2> QED BY <2>2, <2>4, <2>5, <2>6 DEF Inv, MarksOnLedger
<1>5. ASSUME NEW o \in OrderIds, RecordPlacement(o) PROVE Inv'
  <2> DEFINE m == [order |-> o, is |-> Order("OPEN", 0)]
  <2>1. /\ m \in Updates /\ m.order = o /\ m.is \in Orders /\ m.is.filled <= OrderQty[o]
        /\ m.is = Order("OPEN", 0)
    BY FillAssumption DEF Updates, Order, Orders, OrderStatus
  <2> HIDE DEF m
  <2>2. /\ orders' = [orders EXCEPT ![o] = m.is] /\ ~Locked
        /\ pc' = [pc EXCEPT !["placer"] = "save_order"]
        /\ snap' = [snap EXCEPT !["placer"] = m]
        /\ UNCHANGED <<venueVars, work, last, fetched, todo, store, buffer, marks, fills>>
    BY <1>5, <2>1 DEF RecordPlacement, Enter, m, reconVars, markVars
  <2>3. /\ pc' \in [Actors -> Phases] /\ snap' \in [Actors -> Updates \cup {None}]
        /\ pc'["placer"] = "save_order" /\ snap'["placer"] = m
        /\ \A b \in Actors \ {"placer"} : pc'[b] = pc[b] /\ snap'[b] = snap[b]
    BY <1>1, <2>1, <2>2 DEF Inv, Types, Phases
  <2>4. \A q \in OrderIds : orders'[q] = orders[q] \/ (q = o /\ orders'[q] = m.is)
    BY <2>2 DEF Inv, Types
  <2>5. Types'
    BY <2>1, <2>2, <2>3 DEF Inv, Types, venueVars
  <2>6. Within'
    <3>1. FilledWithinOrder'
      BY <1>2, <2>1, <2>2, <2>4 DEF FilledWithinOrder
    <3>2. \A b \in Actors : pc'[b] \in Saving =>
             snap'[b] \in Updates /\ snap'[b].is.filled <= OrderQty[snap'[b].order]
      BY <2>1, <2>3 DEF Inv, Within
    <3> QED BY <2>2, <3>1, <3>2 DEF Inv, Within, Sound, venueVars
  <2>7. Holder'
    <3>1. \A b \in Actors : pc'[b] \notin LockPhases
      BY <2>2, <2>3 DEF Locked, LockPhases
    <3>2. ASSUME NEW b \in Actors, pc'[b] = "read_order"
          PROVE  Sound(snap'[b].order, orders'[snap'[b].order])
      <4>1. pc[b] = "read_order" /\ snap'[b] = snap[b]
        BY <2>3, <3>2
      <4>2. snap[b].order \in OrderIds /\ Sound(snap[b].order, orders[snap[b].order])
        BY <4>1 DEF Inv, Within, Saving, Updates, Holder
      <4> QED BY <2>1, <2>4, <4>1, <4>2 DEF Sound
    <3> QED BY <3>1, <3>2 DEF Holder, Applying, LockPhases
  <2> QED BY <2>2, <2>5, <2>6, <2>7 DEF Inv, MarksOnLedger
<1>6. ASSUME NEW o \in OrderIds, HealOrder(o) PROVE Inv'
  <2>1. o \in todo /\ todo' \subseteq todo /\ fetched' = fetched /\ Sound(o, fetched[o])
    BY <1>2, <1>6 DEF HealOrder
  <2>2. CASE UpsertOrder("recon", [order |-> o, is |-> fetched[o]])
    <3>1. [order |-> o, is |-> fetched[o]] \in Updates
      BY <2>1 DEF Sound, Updates
    <3> QED BY <1>1, <2>1, <2>2, <3>1, UpsertKeeps DEF Sound
  <2>3. CASE UNCHANGED <<venueVars, pc, snap, work, last, bookVars, store, buffer,
                         markVars, fillVars, fills, posVars, crashes, loaded>>
    BY <2>1, <2>3 DEF Inv, Types, Within, Sound, FilledWithinOrder, Holder, MarksOnLedger,
       FillCumulative, venueVars, bookVars, markVars
  <2> QED BY <1>6, <2>2, <2>3 DEF HealOrder
<1>7. ASSUME NEW o \in OrderIds, ForgetCumulative(o) PROVE Inv'
  <2>1. /\ last' \in [OrderIds -> Nat]
        /\ UNCHANGED <<venueVars, pc, snap, work, reconVars, bookVars, store, buffer,
                       markVars, fills>>
    BY <1>7 DEF ForgetCumulative, Inv, Types
  <2> QED BY <2>1 DEF Inv, Types, Within, Sound, FilledWithinOrder, Holder, MarksOnLedger,
         FillCumulative, venueVars, reconVars, bookVars, markVars
<1>8. ASSUME NEW m \in messages, FeedOrder(m) PROVE Inv'
  <2>1. m \in Updates /\ m.is.filled <= OrderQty[m.order]
    BY <1>8 DEF Inv, Types, Within
  <2>2. UpsertOrder("stream", m) /\ todo' = todo /\ fetched' = fetched
    BY <1>8 DEF FeedOrder, reconVars
  <2> QED BY <1>1, <2>1, <2>2, UpsertKeeps
<1>9. ASSUME NEW t \in executions, FeedTradeUpdate(t) PROVE Inv'
  <2>1. t \in Trades /\ RecordTrade(t) /\ pc["stream"] = "idle" /\ last' \in [OrderIds -> Nat]
    BY <1>9 DEF FeedTradeUpdate, Inv, Types
  <2> QED BY <2>1, RecordKeeps
<1>10. CASE FeedNothingNew
  <2>1. /\ pc["stream"] = "trade" /\ Goto("stream", "idle") /\ pc["stream"] \in Saving
        /\ UNCHANGED <<venueVars, work, last, fetched, todo, orders, store, buffer,
                       fills, marks>>
    BY <1>10 DEF FeedNothingNew, Saving, reconVars, bookVars, markVars
  <2> QED BY <1>1, <1>2, <1>3, <2>1
<1>11. CASE FeedTrade
  <2>1. /\ pc["stream"] = "trade" /\ ~NothingNew(snap["stream"])
        /\ last' = [last EXCEPT ![snap["stream"].order] = snap["stream"].is.filled]
        /\ RecordTrade(DerivedTrade(snap["stream"]))
    BY <1>11 DEF FeedTrade
  <2>2. /\ snap["stream"].order \in OrderIds /\ snap["stream"].is.filled \in Nat
        /\ DerivedTrade(snap["stream"]) \in Trades
    BY <2>1, DerivedIsTrade
  <2>3. last' \in [OrderIds -> Nat]
    BY <2>1, <2>2 DEF Inv, Types
  <2> QED BY <2>1, <2>2, <2>3, RecordKeeps
<1>12. CASE ReadOrder
  <2> DEFINE m == [snap["stream"] EXCEPT !.is = orders[snap["stream"].order]]
  <2>1. /\ pc["stream"] = "read_order" /\ Enter("stream", "save_fill", m)
        /\ UNCHANGED <<venueVars, work, last, fetched, todo, orders, store, buffer,
                       marks, fills>>
    BY <1>12 DEF ReadOrder, reconVars, bookVars, markVars
  <2>2. /\ snap["stream"] \in Updates /\ snap["stream"].order \in OrderIds
        /\ Sound(snap["stream"].order, orders[snap["stream"].order])
    BY <1>1, <2>1 DEF Inv, Within, Holder, Saving, Updates
  <2>3. m \in Updates /\ m.is.filled <= OrderQty[m.order]
    BY <2>2 DEF Sound, Updates
  <2> HIDE DEF m
  <2>4. pc' = [pc EXCEPT !["stream"] = "save_fill"] /\ snap' = [snap EXCEPT !["stream"] = m]
    BY <2>1 DEF Enter
  <2>5. /\ pc' \in [Actors -> Phases] /\ snap' \in [Actors -> Updates \cup {None}]
        /\ pc'["stream"] = "save_fill" /\ snap'["stream"] = m
        /\ \A b \in Actors \ {"stream"} : pc'[b] = pc[b] /\ snap'[b] = snap[b]
    BY <1>1, <2>3, <2>4 DEF Inv, Types, Phases
  <2>6. Types'
    BY <2>1, <2>5 DEF Inv, Types, venueVars
  <2>7. Within'
    <3>1. \A b \in Actors : pc'[b] \in Saving =>
             snap'[b] \in Updates /\ snap'[b].is.filled <= OrderQty[snap'[b].order]
      BY <2>3, <2>5 DEF Inv, Within
    <3> QED BY <2>1, <3>1 DEF Inv, Within, Sound, FilledWithinOrder, venueVars
  <2>8. Holder'
    <3>1. \A b \in Actors : pc'[b] \in LockPhases \cup {"read_order"} =>
             pc'[b] = pc[b] /\ snap'[b] = snap[b]
      BY <2>5 DEF LockPhases
    <3> QED
      BY <2>1, <3>1 DEF Inv, Holder, LockPhases, Applying, Sound, FillCumulative
  <2> QED BY <2>1, <2>6, <2>7, <2>8 DEF Inv, MarksOnLedger
<1>13. ASSUME NEW a \in Actors, SaveOrder(a) PROVE Inv'
  <2>1. /\ pc[a] \in Saving /\ snap[a] \in Updates
        /\ snap[a].is.filled <= OrderQty[snap[a].order]
    BY <1>13 DEF SaveOrder, Saving, Inv, Within
  <2>2. /\ snap[a].order \in OrderIds /\ snap[a].is \in Orders
    BY <2>1 DEF Updates
  <2>3. store' = store \/ store' = [store EXCEPT ![snap[a].order] = snap[a].is]
    BY <1>13 DEF SaveOrder
  <2>4. /\ store' \in [OrderIds -> Orders \cup {None}]
        /\ \A o \in OrderIds : store'[o] # None => store'[o].filled <= OrderQty[o]
    BY <1>2, <2>1, <2>2, <2>3
  <2>5. PICK p \in {"idle", "trade"} : Goto(a, p)
    BY <1>13 DEF SaveOrder, AfterUpsert
  <2> QED
    BY <1>3, <1>13, <2>1, <2>4, <2>5 DEF SaveOrder, reconVars, bookVars, markVars
<1>14. ASSUME NEW a \in Actors, ApplyRaises(a) PROVE Inv'
  <2>1. /\ pc[a] \in LockPhases /\ pc[a] \in Saving /\ work' = <<>>
        /\ UNCHANGED <<venueVars, last, fetched, todo, orders, store, buffer, fills, marks>>
    BY <1>14 DEF ApplyRaises, AbandonFlush, LockPhases, Saving, reconVars, bookVars, markVars
  <2>2. PICK p \in {"idle", "trade", "save_order"} : Goto(a, p)
    BY <1>14 DEF ApplyRaises, AbandonFlush, AfterUpsert
  <2> QED BY <1>2, <1>3, <2>1, <2>2
<1>15. CASE FetchMassStatus
  <2>1. /\ todo' \subseteq OrderIds /\ fetched' = venue /\ Goto("recon", "fetch_positions")
        /\ UNCHANGED <<venueVars, work, last, orders, store, buffer, fills, marks>>
    BY <1>15 DEF FetchMassStatus, bookVars, markVars
  <2>2. \A o \in todo' : Sound(o, fetched'[o])
    BY <2>1 DEF Inv, Types, Within, Sound
  <2> QED BY <1>1, <1>2, <2>1, <2>2, MoveKeeps
<1>16. CASE FetchPositions
  <2>1. /\ Goto("recon", "idle")
        /\ UNCHANGED <<venueVars, work, last, fetched, todo, orders, store, buffer,
                       fills, marks>>
    BY <1>16 DEF FetchPositions, bookVars, markVars
  <2>2. \A o \in todo' : Sound(o, fetched'[o])
    BY <1>2, <2>1
  <2> QED BY <1>1, <1>2, <2>1, <2>2, MoveKeeps
<1>17. CASE HealPosition
  <2>1. /\ todo = {} /\ todo' = todo
        /\ UNCHANGED <<venueVars, pc, snap, work, last, bookVars, store, buffer, markVars, fills>>
    BY <1>17 DEF HealPosition
  <2> QED BY <2>1 DEF Inv, Types, Within, Sound, FilledWithinOrder, Holder, MarksOnLedger,
         FillCumulative, venueVars, bookVars, markVars
<1>18. CASE Crash
  <2>1. /\ pc' = [a \in Actors |-> "idle"] /\ snap' = [a \in Actors |-> None]
        /\ work' = <<>> /\ last' = [o \in OrderIds |-> 0] /\ todo' = {}
        /\ orders' = store /\ buffer' = [o \in OrderIds |-> <<>>]
        /\ UNCHANGED <<venueVars, store, marks, fills>>
    BY <1>18 DEF Crash
  <2>2. Len(<<>>) = 0
    BY EmptySeq
  <2>3. Types'
    BY <1>1, <1>2, <2>1, <2>2 DEF Inv, Types, Phases, venueVars
  <2>4. Within'
    BY <1>2, <2>1 DEF Inv, Within, FilledWithinOrder, Saving, LockPhases, venueVars
  <2>5. Holder'
    BY <2>1 DEF Holder, LockPhases, Applying
  <2> QED BY <1>1, <2>1, <2>3, <2>4, <2>5 DEF Inv, MarksOnLedger
<1>19. CASE UNCHANGED vars
  BY <1>19 DEF vars, Inv, Types, Within, Sound, FilledWithinOrder, Holder, MarksOnLedger,
     FillCumulative, venueVars, reconVars, bookVars, markVars
<1> QED
  BY <1>4, <1>5, <1>6, <1>7, <1>8, <1>9, <1>10, <1>11, <1>12, <1>13, <1>14, <1>15,
     <1>16, <1>17, <1>18, <1>19, FlushCheckKeeps, ApplyFillKeeps DEF Next

\* A fill that was marked processed is on the execution ledger, whatever write
\* failed and wherever the process died: the mark that refuses every later
\* delivery of it never outlives it (trade_recorder.py, record_trade and
\* flush_pending_trades_locked write the ledger first).
THEOREM MarksOnLedgerAlways == Spec => []MarksOnLedger
<1>1. Inv => MarksOnLedger
  BY DEF Inv
<1> QED BY <1>1, FillInit, FillStep, PTL DEF Spec

\* Neither the book nor the store ever holds an order that is filled beyond its
\* quantity, although the quantity FillReducer.validate accepts is added to the
\* order only after the ledger write, and reconciliation and the end of a
\* placement overwrite the order in between.
THEOREM FilledWithinOrderAlways == Spec => []FilledWithinOrder
<1>1. Inv => FilledWithinOrder
  BY DEF Inv, Within
<1> QED BY <1>1, FillInit, FillStep, PTL DEF Spec

-----------------------------------------------------------------------------
\* The legal transitions of a position, state by state.
LEMMA PositionTransitions ==
    /\ POSITION_STATE_TRANSITIONS["FLAT"] = {"OPEN", "REVERSED"}
    /\ POSITION_STATE_TRANSITIONS["OPEN"] = {"OPEN", "REDUCING", "CLOSED", "REVERSED"}
    /\ POSITION_STATE_TRANSITIONS["REDUCING"] = {"FLAT", "OPEN", "REVERSED", "CLOSED"}
    /\ POSITION_STATE_TRANSITIONS["CLOSED"] = {"FLAT", "OPEN"}
    /\ POSITION_STATE_TRANSITIONS["REVERSED"] = {"FLAT", "OPEN", "REDUCING", "CLOSED"}
  BY DEF POSITION_STATE_TRANSITIONS, PositionStates

\* The state of the position agrees with its quantity.
PositionInState ==
    /\ position \in Int /\ posState \in PositionStates
    /\ position = 0 <=> posState \in {"FLAT", "CLOSED"}

\* While it does, a trade always finds a legal transition.
LEMMA TradeIsLegal ==
    ASSUME PositionInState, NEW d \in Int \ {0}
    PROVE  LET s == NewPositionState(position, position + d) IN
           /\ s \in PositionStates
           /\ position + d = 0 <=> s \in {"FLAT", "CLOSED"}
           /\ s = posState \/ s \in POSITION_STATE_TRANSITIONS[posState]
<1> DEFINE s == NewPositionState(position, position + d)
           Legal == /\ s \in PositionStates
                    /\ position + d = 0 <=> s \in {"FLAT", "CLOSED"}
                    /\ s = posState \/ s \in POSITION_STATE_TRANSITIONS[posState]
<1>1. ASSUME position = 0 PROVE Legal
  <2>1. s = "OPEN" /\ posState \in {"FLAT", "CLOSED"} /\ position + d # 0
    BY <1>1 DEF NewPositionState, PositionInState
  <2> HIDE DEF s
  <2> QED BY <2>1, PositionTransitions DEF PositionStates
<1>2. ASSUME position # 0, position + d = 0 PROVE Legal
  <2>1. s = "CLOSED" /\ posState \in {"OPEN", "REDUCING", "REVERSED"}
    BY <1>2 DEF NewPositionState, PositionInState, PositionStates
  <2> HIDE DEF s
  <2> QED BY <1>2, <2>1, PositionTransitions DEF PositionStates
<1>3. ASSUME position # 0, position + d # 0 PROVE Legal
  <2>1. s \in {"OPEN", "REDUCING", "REVERSED"} /\ posState \in {"OPEN", "REDUCING", "REVERSED"}
    BY <1>3 DEF NewPositionState, PositionInState, PositionStates
  <2> HIDE DEF s
  <2> QED BY <1>3, <2>1, PositionTransitions DEF PositionStates
<1> QED BY <1>1, <1>2, <1>3 DEF PositionInState

\* Without reconciliation: what the position book remembers it has counted, and
\* what was marked since the start as well.
CountInv ==
    /\ fetched = None
    /\ PositionInState
    /\ posSeen \in Seq(Keys) /\ \A i \in 1 .. Len(posSeen) : posSeen[i] \in counted
    /\ ProcessedReachedPosition

\* TRADE_APPLIED counts the trade, or has counted it before.
LEMMA TradeCounts ==
    ASSUME CountInv, NEW t \in Trades, TradeApplied(t)
    PROVE  /\ PositionInState'
           /\ posSeen' \in Seq(Keys) /\ \A i \in 1 .. Len(posSeen') : posSeen'[i] \in counted'
           /\ counted \subseteq counted' /\ Key(t) \in counted'
<1>1. CASE \E i \in 1 .. Len(posSeen) : posSeen[i] = Key(t)
  BY <1>1 DEF CountInv, TradeApplied, posVars, PositionInState
<1>2. CASE ~\E i \in 1 .. Len(posSeen) : posSeen[i] = Key(t)
  <2> DEFINE d == Sign[t.order] * t.qty
             s == NewPositionState(position, position + d)
             kept == IF Len(posSeen) = SeenMax THEN Tail(posSeen) ELSE posSeen
  <2>1. d \in Int \ {0}
    <3>1. Sign[t.order] \in {1, -1} /\ t.qty \in Nat \ {0}
      BY FillAssumption DEF Trades
    <3>2. CASE Sign[t.order] = 1
      BY <3>1, <3>2
    <3>3. CASE Sign[t.order] = -1
      BY <3>1, <3>3
    <3> QED BY <3>1, <3>2, <3>3
  <2>2. /\ posSeen' = Append(kept, Key(t))
        /\ s = posState \/ s \in POSITION_STATE_TRANSITIONS[posState] =>
              /\ position' = position + d /\ posState' = s
              /\ counted' = counted \cup {Key(t)}
    BY <1>2 DEF TradeApplied
  <2> HIDE DEF d
  <2>3. /\ s \in PositionStates
        /\ position + d = 0 <=> s \in {"FLAT", "CLOSED"}
        /\ s = posState \/ s \in POSITION_STATE_TRANSITIONS[posState]
    BY <2>1, TradeIsLegal DEF CountInv
  <2> HIDE DEF s
  <2>4. PositionInState' /\ counted' = counted \cup {Key(t)}
    BY <2>1, <2>2, <2>3 DEF CountInv, PositionInState
  <2>5. kept \in Seq(Keys) /\ \A i \in 1 .. Len(kept) : kept[i] \in counted
    <3>1. CASE Len(posSeen) = SeenMax
      <4>1. posSeen # <<>>
        BY <3>1, FillAssumption, EmptySeq
      <4>2. /\ Tail(posSeen) \in Seq(Keys) /\ Len(Tail(posSeen)) = Len(posSeen) - 1
            /\ \A i \in 1 .. Len(Tail(posSeen)) : Tail(posSeen)[i] = posSeen[i + 1]
        BY <4>1, HeadTailProperties DEF CountInv
      <4>3. \A i \in 1 .. Len(Tail(posSeen)) : i + 1 \in 1 .. Len(posSeen)
        BY <4>2, LenProperties DEF CountInv
      <4> QED BY <3>1, <4>2, <4>3 DEF CountInv
    <3>2. CASE Len(posSeen) # SeenMax
      BY <3>2 DEF CountInv
    <3> QED BY <3>1, <3>2
  <2> HIDE DEF kept
  <2>6. Key(t) \in Keys
    BY DEF Key, Keys, Trades
  <2>7. /\ Append(kept, Key(t)) \in Seq(Keys) /\ Len(Append(kept, Key(t))) = Len(kept) + 1
        /\ \A i \in 1 .. Len(kept) : Append(kept, Key(t))[i] = kept[i]
        /\ Append(kept, Key(t))[Len(kept) + 1] = Key(t)
    BY <2>5, <2>6, AppendProperties
  <2>8. \A i \in 1 .. Len(Append(kept, Key(t))) : i \in 1 .. Len(kept) \/ i = Len(kept) + 1
    BY <2>5, <2>7, LenProperties
  <2> QED BY <2>2, <2>4, <2>5, <2>7, <2>8
<1> QED BY <1>1, <1>2

\* A restart empties the position book and starts the count afresh; every other
\* step but a trade leaves the book and the marks alone.
LEMMA CountStep == ~Reconciles /\ Inv /\ CountInv /\ [Next]_vars => CountInv'
<1> SUFFICES ASSUME ~Reconciles, Inv, CountInv, [Next]_vars PROVE CountInv'
  OBVIOUS
<1> USE DEF posVars, markVars, reconVars, venueVars
<1>1. ASSUME UNCHANGED <<fetched, posVars, processed, loaded>> PROVE CountInv'
  BY <1>1 DEF CountInv, PositionInState, ProcessedReachedPosition
<1>2. ASSUME NEW a \in Actors, ApplyFill(a) PROVE CountInv'
  <2> DEFINE t == Head(work)
  <2>1. /\ TradeApplied(t) /\ processed' = processed \cup {Key(t)}
        /\ UNCHANGED <<fetched, loaded>> /\ pc[a] \in LockPhases
    BY <1>2 DEF ApplyFill, LockPhases
  <2>2. t \in Trades
    BY <2>1, WorkFacts DEF Inv, Types, Holder
  <2> HIDE DEF t
  <2> QED BY <2>1, <2>2, TradeCounts DEF CountInv, ProcessedReachedPosition
<1>3. CASE Crash
  <2>1. /\ fetched' = None /\ processed' = marks /\ loaded' = marks
        /\ position' = 0 /\ posState' = "FLAT" /\ posSeen' = <<>>
    BY <1>3 DEF Crash
  <2>2. <<>> \in Seq(Keys) /\ Len(<<>>) = 0
    BY EmptySeq
  <2> QED BY <2>1, <2>2 DEF CountInv, PositionInState, PositionStates,
                           ProcessedReachedPosition
<1>4. ~FetchMassStatus /\ ~HealPosition
  BY DEF FetchMassStatus, HealPosition, CountInv
<1>5. ASSUME NEW o \in OrderIds,
             VenueFills(o) \/ VenueCancels(o) \/ RecordPlacement(o) \/ ForgetCumulative(o)
      PROVE  CountInv'
  BY <1>1, <1>5 DEF VenueFills, VenueCancels, Emit, RecordPlacement, ForgetCumulative
<1>6. ASSUME NEW o \in OrderIds, HealOrder(o) PROVE CountInv'
  BY <1>1, <1>6 DEF HealOrder, UpsertOrder
<1>7. ASSUME NEW m \in messages, FeedOrder(m) PROVE CountInv'
  BY <1>1, <1>7 DEF FeedOrder, UpsertOrder
<1>8. ASSUME NEW t \in executions, FeedTradeUpdate(t) PROVE CountInv'
  BY <1>1, <1>8 DEF FeedTradeUpdate, RecordTrade
<1>9. CASE FeedNothingNew \/ FeedTrade \/ ReadOrder \/ FetchPositions
  BY <1>1, <1>9 DEF FeedNothingNew, FeedTrade, RecordTrade, ReadOrder, FetchPositions
<1>10. ASSUME NEW a \in Actors, SaveOrder(a) \/ FlushCheck(a) \/ ApplyRaises(a)
       PROVE  CountInv'
  BY <1>1, <1>10 DEF SaveOrder, FlushCheck, ApplyRaises
<1>11. CASE UNCHANGED vars
  BY <1>1, <1>11 DEF vars
<1> QED
  BY <1>2, <1>3, <1>4, <1>5, <1>6, <1>7, <1>8, <1>9, <1>10, <1>11 DEF Next

\* Without reconciliation, a trade this process marked has been counted by the
\* position book: PositionManager.on_trade_applied never meets an illegal
\* transition, since no one but a trade moves the position.
THEOREM MarkedIsCounted == ~Reconciles /\ Spec => []ProcessedReachedPosition
<1>1. ~Reconciles /\ Init => CountInv
  <2>1. <<>> \in Seq(Keys) /\ Len(<<>>) = 0
    BY EmptySeq
  <2> QED BY <2>1 DEF Init, CountInv, PositionInState, PositionStates,
                     ProcessedReachedPosition
<1>2. CountInv => ProcessedReachedPosition
  BY DEF CountInv
<1>3. ~Reconciles => [](~Reconciles)
  OBVIOUS
<1> QED BY <1>1, <1>2, <1>3, CountStep, FillInit, FillStep, PTL DEF Spec

-----------------------------------------------------------------------------
(***************************************************************************)
(* The rest of the types: every step but a few leaves each group alone.    *)
(***************************************************************************)
RunTypes ==
    /\ fetched \in [OrderIds -> Orders] \cup {None}
    /\ net \in Int \cup {None} /\ placed \subseteq OrderIds
    /\ crashes \in 0 .. MaxCrashes

BookTypes ==
    /\ machine \in [OrderIds -> OrderStatus \cup {None}]
    /\ \A o \in OrderIds : Len(buffer[o]) <= BufferMax

MarkTypes ==
    /\ processed \subseteq Keys /\ marks \subseteq Keys
    /\ seenFills \subseteq Keys /\ fills \subseteq Keys /\ loaded \subseteq Keys
    /\ cumulative \in [OrderIds -> Nat]

PositionTypes ==
    /\ position \in Int /\ posState \in PositionStates
    /\ posSeen \in Seq(Keys) /\ Len(posSeen) <= SeenMax
    /\ booked \in [OrderIds -> Nat]
    /\ counted \subseteq Keys

RestTypes == RunTypes /\ BookTypes /\ MarkTypes /\ PositionTypes

\* What the assumption says of the constants.
LEMMA FillConstants ==
    /\ IsFiniteSet(OrderIds)
    /\ \A o \in OrderIds : OrderQty[o] \in Nat /\ Sign[o] \in {1, -1} /\ Sign[o] \in Int
    /\ BufferMax \in Nat /\ SeenMax \in Nat /\ SeenMax >= 1 /\ MaxCrashes \in Nat
  BY FillAssumption

\* The trade in hand while the lock is held: its order is in the book.
LEMMA TradeInHand ==
    ASSUME Inv, NEW a \in Actors, pc[a] \in LockPhases
    PROVE  /\ Head(work) \in Trades /\ Head(work).order \in OrderIds
           /\ Head(work).qty \in Nat /\ Key(Head(work)) \in Keys
           /\ FillCumulative(Head(work)) \in Nat
           /\ work # <<>> /\ work \in Seq(Trades)
<1> DEFINE t == Head(work)
<1>1. work # <<>> /\ work \in Seq(Trades) /\ \A i \in 1 .. Len(work) : orders[work[i].order] \in Orders
  BY DEF Inv, Types, Holder
<1>2. t \in Trades /\ t = work[1] /\ 1 \in 1 .. Len(work)
  BY <1>1, WorkFacts
<1>3. orders[t.order] \in Orders
  BY <1>1, <1>2
<1> HIDE DEF t
<1>4. t.order \in OrderIds /\ t.cum \in Nat /\ t.qty \in Nat /\ t.via \in Sources
  BY <1>2 DEF Trades
<1>5. Key(t) \in Keys
  BY <1>4 DEF Key, Keys
<1>6. FillCumulative(t) \in Nat
  BY <1>3, <1>4 DEF FillCumulative, Orders
<1> QED BY <1>1, <1>2, <1>4, <1>5, <1>6 DEF t

\* Every step keeps the types of what is fetched, placed and crashed.
LEMMA RunTypesStep ==
    ASSUME Inv, RunTypes, [Next]_vars
    PROVE  RunTypes'
<1> USE DEF reconVars, venueVars
<1>1. ASSUME UNCHANGED <<fetched, net, placed, crashes>> PROVE RunTypes'
  BY <1>1 DEF RunTypes
<1>2. ASSUME NEW o \in OrderIds, RecordPlacement(o) PROVE RunTypes'
  BY <1>2 DEF RecordPlacement, RunTypes
<1>3. CASE FetchMassStatus
  BY <1>3 DEF FetchMassStatus, RunTypes, Inv, Types
<1>4. CASE FetchPositions
  <2> DEFINE f == [o \in OrderIds |-> Sign[o] * venue[o].filled]
  <2>1. \A o \in OrderIds : f[o] \in Int
    <3> SUFFICES ASSUME NEW o \in OrderIds PROVE Sign[o] * venue[o].filled \in Int
      OBVIOUS
    <3>1. venue[o].filled \in Int
      BY DEF Inv, Types, Orders
    <3>2. Sign[o] \in Int
      BY FillConstants
    <3> QED BY <3>1, <3>2
  <2>2. NetPosition(venue) = SumFunctionOnSet(f, OrderIds)
    BY DEF NetPosition
  <2> HIDE DEF f
  <2>3. NetPosition(venue) \in Int
    BY <2>1, <2>2, FillConstants, SumType
  <2> QED BY <1>4, <2>3 DEF FetchPositions, RunTypes
<1>5. CASE HealPosition
  BY <1>5 DEF HealPosition, RunTypes
<1>6. CASE Crash
  BY <1>6, FillConstants DEF Crash, RunTypes
<1>7. ASSUME NEW o \in OrderIds, VenueFills(o) \/ VenueCancels(o) \/ ForgetCumulative(o)
      PROVE  RunTypes'
  BY <1>1, <1>7 DEF VenueFills, VenueCancels, Emit, ForgetCumulative
<1>8. ASSUME NEW o \in OrderIds, HealOrder(o) PROVE RunTypes'
  BY <1>1, <1>8 DEF HealOrder, UpsertOrder
<1>9. ASSUME NEW m \in messages, FeedOrder(m) PROVE RunTypes'
  BY <1>1, <1>9 DEF FeedOrder, UpsertOrder
<1>10. ASSUME NEW t \in executions, FeedTradeUpdate(t) PROVE RunTypes'
  BY <1>1, <1>10 DEF FeedTradeUpdate, RecordTrade
<1>11. CASE FeedNothingNew \/ FeedTrade \/ ReadOrder
  BY <1>1, <1>11 DEF FeedNothingNew, FeedTrade, RecordTrade, ReadOrder
<1>12. ASSUME NEW a \in Actors,
              SaveOrder(a) \/ FlushCheck(a) \/ ApplyFill(a) \/ ApplyRaises(a)
       PROVE  RunTypes'
  BY <1>1, <1>12 DEF SaveOrder, FlushCheck, ApplyFill, ApplyRaises
<1>13. CASE UNCHANGED vars
  BY <1>1, <1>13 DEF vars
<1> QED BY <1>2, <1>3, <1>4, <1>5, <1>6, <1>7, <1>8, <1>9, <1>10, <1>11, <1>12, <1>13 DEF Next

\* Every step keeps the types and the bound of the books.
LEMMA BookTypesStep ==
    ASSUME Inv, BookTypes, [Next]_vars
    PROVE  BookTypes'
<1> USE DEF bookVars
<1>1. ASSUME UNCHANGED <<machine, buffer>> PROVE BookTypes'
  BY <1>1 DEF BookTypes
<1>2. ASSUME NEW a \in Actors, NEW m \in Updates, UpsertOrder(a, m) PROVE BookTypes'
  <2> DEFINE existing == orders[m.order]
             changed  == existing # None /\ existing.status # m.is.status
             state    == IF machine[m.order] = None THEN existing.status ELSE machine[m.order]
             legal    == changed => CanTransition(state, m.is.status)
  <2>1. /\ machine' = IF ~changed THEN machine
                      ELSE [machine EXCEPT ![m.order] = IF legal THEN m.is.status ELSE state]
        /\ buffer' = buffer \/ buffer' = [buffer EXCEPT ![m.order] = <<>>]
    BY <1>2 DEF UpsertOrder
  <2>2. m.order \in OrderIds /\ m.is.status \in OrderStatus
    BY DEF Updates, Orders
  <2>3. changed => state \in OrderStatus \cup {None}
    <3>1. orders[m.order] # None => orders[m.order].status \in OrderStatus
      BY <2>2 DEF Inv, Types, Orders
    <3> QED BY <2>2, <3>1 DEF BookTypes
  <2> HIDE DEF changed, state, legal
  <2>4. machine' \in [OrderIds -> OrderStatus \cup {None}]
    BY <2>1, <2>2, <2>3 DEF BookTypes
  <2>5. \A o \in OrderIds : Len(buffer'[o]) <= BufferMax
    <3>1. Len(<<>>) = 0 /\ 0 <= BufferMax
      BY FillConstants
    <3> QED BY <2>1, <3>1 DEF BookTypes, Inv, Types
  <2> QED BY <2>4, <2>5 DEF BookTypes
<1>3. ASSUME NEW t \in Trades, RecordTrade(t) PROVE BookTypes'
  <2>1. t.order \in OrderIds /\ buffer \in [OrderIds -> Seq(Trades)]
    BY DEF Trades, Inv, Types
  <2>2. machine' = machine
    BY <1>3 DEF RecordTrade
  <2>3. CASE buffer' = buffer
    BY <1>1, <2>2, <2>3
  <2>4. CASE /\ Len(buffer[t.order]) < BufferMax
             /\ buffer' = [buffer EXCEPT ![t.order] = Append(@, t)]
    <3>1. buffer[t.order] \in Seq(Trades)
      BY <2>1
    <3>2. Len(Append(buffer[t.order], t)) = Len(buffer[t.order]) + 1
          /\ Len(buffer[t.order]) \in Nat
      BY <3>1, AppendProperties, LenProperties
    <3>3. Len(Append(buffer[t.order], t)) <= BufferMax
      BY <2>4, <3>2, FillConstants
    <3> QED BY <2>1, <2>2, <2>4, <3>3 DEF BookTypes
  <2> QED BY <1>3, <2>3, <2>4 DEF RecordTrade
<1>4. ASSUME NEW o \in OrderIds, HealOrder(o) PROVE BookTypes'
  <2>1. CASE UpsertOrder("recon", [order |-> o, is |-> fetched[o]])
    <3>1. [order |-> o, is |-> fetched[o]] \in Updates
      BY <1>4 DEF HealOrder, Updates, Inv, Within, Sound
    <3>2. "recon" \in Actors
      BY DEF Actors
    <3> QED BY <1>2, <2>1, <3>1, <3>2
  <2>2. CASE UNCHANGED <<bookVars, buffer>>
    BY <1>1, <2>2
  <2> QED BY <1>4, <2>1, <2>2 DEF HealOrder
<1>5. ASSUME NEW m \in messages, FeedOrder(m) PROVE BookTypes'
  <2>1. m \in Updates /\ "stream" \in Actors
    BY DEF Inv, Types, Actors
  <2> QED BY <1>2, <1>5, <2>1 DEF FeedOrder
<1>6. ASSUME NEW t \in executions, FeedTradeUpdate(t) PROVE BookTypes'
  <2>1. t \in Trades
    BY DEF Inv, Types
  <2> QED BY <1>3, <1>6, <2>1 DEF FeedTradeUpdate
<1>7. CASE FeedTrade
  <2>1. DerivedTrade(snap["stream"]) \in Trades
    BY <1>7, DerivedIsTrade DEF FeedTrade
  <2> QED BY <1>3, <1>7, <2>1 DEF FeedTrade
<1>8. CASE Crash
  <2>1. Len(<<>>) = 0 /\ 0 <= BufferMax
    BY FillConstants
  <2> QED BY <1>8, <2>1 DEF Crash, BookTypes
<1>9. ASSUME NEW o \in OrderIds,
             VenueFills(o) \/ VenueCancels(o) \/ ForgetCumulative(o) \/ RecordPlacement(o)
      PROVE  BookTypes'
  BY <1>1, <1>9 DEF VenueFills, VenueCancels, Emit, ForgetCumulative, RecordPlacement
<1>10. CASE FeedNothingNew \/ ReadOrder \/ FetchMassStatus \/ FetchPositions \/ HealPosition
  BY <1>1, <1>10 DEF FeedNothingNew, ReadOrder, FetchMassStatus, FetchPositions, HealPosition
<1>11. ASSUME NEW a \in Actors,
              SaveOrder(a) \/ FlushCheck(a) \/ ApplyFill(a) \/ ApplyRaises(a)
       PROVE  BookTypes'
  BY <1>1, <1>11 DEF SaveOrder, FlushCheck, ApplyFill, ApplyRaises
<1>12. CASE UNCHANGED vars
  BY <1>1, <1>12 DEF vars
<1> QED BY <1>4, <1>5, <1>6, <1>7, <1>8, <1>9, <1>10, <1>11, <1>12 DEF Next

\* Every step keeps the types of the marks.
LEMMA MarkTypesStep ==
    ASSUME Inv, MarkTypes, [Next]_vars
    PROVE  MarkTypes'
<1> USE DEF markVars, fillVars
<1>1. ASSUME UNCHANGED <<processed, marks, seenFills, fills, loaded, cumulative>>
      PROVE  MarkTypes'
  BY <1>1 DEF MarkTypes
<1>2. ASSUME NEW t \in Trades, RecordTrade(t) PROVE MarkTypes'
  <2>1. Key(t) \in Keys
    BY DEF Key, Keys, Trades
  <2> QED BY <1>2, <2>1 DEF RecordTrade, LedgerWrite, MarkTypes
<1>3. ASSUME NEW t \in Trades, t.order \in OrderIds, Key(t) \in Keys,
             FillCumulative(t) \in Nat, CommitFill(t)
      PROVE  /\ seenFills' \subseteq Keys
             /\ cumulative' \in [OrderIds -> Nat]
  BY <1>3 DEF CommitFill, MarkTypes
<1>4. ASSUME NEW a \in Actors, FlushCheck(a) PROVE MarkTypes'
  <2> DEFINE t == Head(work)
  <2>1. /\ t \in Trades /\ t.order \in OrderIds /\ Key(t) \in Keys
        /\ FillCumulative(t) \in Nat
    BY <1>4, TradeInHand DEF FlushCheck, LockPhases
  <2>2. /\ UNCHANGED <<processed, marks, loaded>>
        /\ \/ UNCHANGED <<fillVars, fills>>
           \/ CommitFill(t) /\ LedgerWrite(t)
           \/ CommitFill(t) /\ UNCHANGED fills
    BY <1>4 DEF FlushCheck
  <2> HIDE DEF t
  <2> QED BY <1>1, <1>3, <2>1, <2>2 DEF LedgerWrite, MarkTypes
<1>5. ASSUME NEW a \in Actors, ApplyFill(a) PROVE MarkTypes'
  <2> DEFINE t == Head(work)
  <2>1. /\ t \in Trades /\ t.order \in OrderIds /\ Key(t) \in Keys
        /\ FillCumulative(t) \in Nat
    BY <1>5, TradeInHand DEF ApplyFill, LockPhases
  <2>2. /\ UNCHANGED <<fills, loaded>> /\ processed' = processed \cup {Key(t)}
        /\ marks' = marks \cup {Key(t)} \/ marks' = marks
        /\ CommitFill(t) \/ UNCHANGED fillVars
    BY <1>5 DEF ApplyFill
  <2> HIDE DEF t
  <2> QED BY <1>3, <2>1, <2>2 DEF MarkTypes
<1>6. ASSUME NEW t \in executions, FeedTradeUpdate(t) PROVE MarkTypes'
  <2>1. t \in Trades
    BY DEF Inv, Types
  <2> QED BY <1>2, <1>6, <2>1 DEF FeedTradeUpdate
<1>7. CASE FeedTrade
  <2>1. DerivedTrade(snap["stream"]) \in Trades
    BY <1>7, DerivedIsTrade DEF FeedTrade
  <2> QED BY <1>2, <1>7, <2>1 DEF FeedTrade
<1>8. CASE Crash
  BY <1>8 DEF Crash, MarkTypes
<1>9. ASSUME NEW o \in OrderIds,
             VenueFills(o) \/ VenueCancels(o) \/ ForgetCumulative(o) \/ RecordPlacement(o)
      PROVE  MarkTypes'
  BY <1>1, <1>9 DEF VenueFills, VenueCancels, Emit, ForgetCumulative, RecordPlacement
<1>10. ASSUME NEW o \in OrderIds, HealOrder(o) PROVE MarkTypes'
  BY <1>1, <1>10 DEF HealOrder, UpsertOrder
<1>11. ASSUME NEW m \in messages, FeedOrder(m) PROVE MarkTypes'
  BY <1>1, <1>11 DEF FeedOrder, UpsertOrder
<1>12. CASE FeedNothingNew \/ ReadOrder \/ FetchMassStatus \/ FetchPositions \/ HealPosition
  BY <1>1, <1>12 DEF FeedNothingNew, ReadOrder, FetchMassStatus, FetchPositions, HealPosition
<1>13. ASSUME NEW a \in Actors, SaveOrder(a) \/ ApplyRaises(a) PROVE MarkTypes'
  BY <1>1, <1>13 DEF SaveOrder, ApplyRaises
<1>14. CASE UNCHANGED vars
  BY <1>1, <1>14 DEF vars
<1> QED BY <1>4, <1>5, <1>6, <1>7, <1>8, <1>9, <1>10, <1>11, <1>12, <1>13, <1>14 DEF Next

\* A window that keeps its newest elements.
LEMMA WindowGrows ==
    ASSUME NEW S, NEW w \in Seq(S), NEW n \in Nat, n >= 1, Len(w) <= n, NEW k \in S
    PROVE  LET v == Append(IF Len(w) = n THEN Tail(w) ELSE w, k) IN
           v \in Seq(S) /\ Len(v) <= n
<1> DEFINE kept == IF Len(w) = n THEN Tail(w) ELSE w
<1>1. kept \in Seq(S) /\ Len(kept) \in Nat /\ Len(kept) + 1 <= n
  <2>1. CASE Len(w) = n
    <3>1. w # <<>>
      BY <2>1, EmptySeq
    <3>2. Tail(w) \in Seq(S) /\ Len(Tail(w)) = Len(w) - 1 /\ Len(w) \in Nat
      BY <3>1, HeadTailProperties, LenProperties
    <3> QED BY <2>1, <3>2, LenProperties
  <2>2. CASE Len(w) # n
    BY <2>2, LenProperties
  <2> QED BY <2>1, <2>2
<1> HIDE DEF kept
<1>2. Append(kept, k) \in Seq(S) /\ Len(Append(kept, k)) = Len(kept) + 1
  BY <1>1, AppendProperties
<1>3. Append(kept, k) \in Seq(S) /\ Len(Append(kept, k)) <= n
  BY <1>1, <1>2
<1> QED BY <1>3 DEF kept

\* Every step keeps the types of the positions.
LEMMA PositionTypesStep ==
    ASSUME Inv, RunTypes, PositionTypes, [Next]_vars
    PROVE  PositionTypes'
<1> USE DEF posVars
<1>1. ASSUME UNCHANGED posVars PROVE PositionTypes'
  BY <1>1 DEF PositionTypes
<1>2. ASSUME NEW a \in Actors, ApplyFill(a) PROVE PositionTypes'
  <2> DEFINE t == Head(work)
             new == position + Sign[t.order] * t.qty
             s   == NewPositionState(position, new)
             w   == Append(IF Len(posSeen) = SeenMax THEN Tail(posSeen) ELSE posSeen, Key(t))
  <2>1. t.order \in OrderIds /\ t.qty \in Nat /\ Key(t) \in Keys
    BY <1>2, TradeInHand DEF ApplyFill, LockPhases
  <2>2. /\ position \in Int /\ posState \in PositionStates /\ booked \in [OrderIds -> Nat]
    BY DEF PositionTypes
  <2>3. new \in Int
    <3>1. Sign[t.order] * t.qty \in Int
      BY <2>1, FillConstants
    <3> QED BY <2>2, <3>1
  <2>4. s \in PositionStates
    <3> HIDE DEF new
    <3> QED BY <2>2, <2>3 DEF NewPositionState, PositionStates
  <2>5. w \in Seq(Keys) /\ Len(w) <= SeenMax
    BY <2>1, FillConstants, WindowGrows DEF PositionTypes
  <2>6. \/ UNCHANGED posVars
        \/ /\ posSeen' = w
           /\ \/ /\ position' = new /\ posState' = s
                 /\ booked' = [booked EXCEPT ![t.order] = @ + t.qty]
                 /\ counted' = counted \cup {Key(t)}
              \/ UNCHANGED <<position, posState, booked, counted>>
    <3>1. TradeApplied(t)
      BY <1>2 DEF ApplyFill
    <3> QED BY <3>1 DEF TradeApplied
  <2> HIDE DEF t, new, s, w
  <2>7. booked[t.order] + t.qty \in Nat
    BY <2>1, <2>2
  <2> QED BY <2>1, <2>2, <2>3, <2>4, <2>5, <2>6, <2>7 DEF PositionTypes
<1>3. CASE HealPosition
  BY <1>3 DEF HealPosition, PositionTypes, RunTypes
<1>4. CASE Crash
  <2>1. <<>> \in Seq(Keys) /\ Len(<<>>) = 0 /\ SeenMax \in Nat
    BY FillConstants
  <2> QED BY <1>4, <2>1 DEF Crash, PositionTypes, PositionStates
<1>5. ASSUME NEW o \in OrderIds,
             VenueFills(o) \/ VenueCancels(o) \/ ForgetCumulative(o) \/ RecordPlacement(o)
      PROVE  PositionTypes'
  BY <1>1, <1>5 DEF VenueFills, VenueCancels, Emit, ForgetCumulative, RecordPlacement
<1>6. ASSUME NEW o \in OrderIds, HealOrder(o) PROVE PositionTypes'
  BY <1>1, <1>6 DEF HealOrder, UpsertOrder
<1>7. ASSUME NEW m \in messages, FeedOrder(m) PROVE PositionTypes'
  BY <1>1, <1>7 DEF FeedOrder, UpsertOrder
<1>8. ASSUME NEW t \in executions, FeedTradeUpdate(t) PROVE PositionTypes'
  BY <1>1, <1>8 DEF FeedTradeUpdate, RecordTrade
<1>9. CASE FeedNothingNew \/ FeedTrade \/ ReadOrder \/ FetchMassStatus \/ FetchPositions
  BY <1>1, <1>9 DEF FeedNothingNew, FeedTrade, RecordTrade, ReadOrder, FetchMassStatus,
                    FetchPositions
<1>10. ASSUME NEW a \in Actors, SaveOrder(a) \/ FlushCheck(a) \/ ApplyRaises(a)
       PROVE  PositionTypes'
  BY <1>1, <1>10 DEF SaveOrder, FlushCheck, ApplyRaises
<1>11. CASE UNCHANGED vars
  BY <1>1, <1>11 DEF vars
<1> QED BY <1>2, <1>3, <1>4, <1>5, <1>6, <1>7, <1>8, <1>9, <1>10, <1>11 DEF Next

\* The types at the start.
LEMMA RestTypesInit == Init => RestTypes
<1> SUFFICES ASSUME Init PROVE RestTypes
  OBVIOUS
<1>1. <<>> \in Seq(Keys) /\ Len(<<>>) = 0
  OBVIOUS
<1>2. RunTypes /\ BookTypes
  BY <1>1, FillConstants DEF Init, RunTypes, BookTypes
<1>3. MarkTypes /\ PositionTypes
  BY <1>1, FillConstants DEF Init, MarkTypes, PositionTypes, PositionStates
<1> QED BY <1>2, <1>3 DEF RestTypes

\* Every step keeps the rest of the types.
LEMMA RestTypesStep == Inv /\ RestTypes /\ [Next]_vars => RestTypes'
  BY RunTypesStep, BookTypesStep, MarkTypesStep, PositionTypesStep DEF RestTypes

\* Every book keeps its type and its bound, and no order is filled beyond its
\* quantity, with reconciliation, expiring memory, trade updates, failing
\* writes and restarts (trade_recorder.py, position_manager.py).
THEOREM FillInvAlways == Spec => []FillInv
<1>1. Inv /\ RestTypes => FillInv
  BY DEF FillInv, TypeOK, Inv, Types, Within, RestTypes, RunTypes, BookTypes, MarkTypes,
         PositionTypes
<1> QED BY <1>1, RestTypesInit, RestTypesStep, FillInit, FillStep, PTL DEF Spec

-----------------------------------------------------------------------------
(***************************************************************************)
(* The position book against the venue.                                    *)
(***************************************************************************)
\* The quantities of a sequence of trades that are of order o, and their sum.
QuantitiesOf(w, o) == [i \in 1 .. Len(w) |-> IF w[i].order = o THEN w[i].qty ELSE 0]
Quantity(w, o) == SumFunction(QuantitiesOf(w, o))
QuantityOf(t, o) == IF t.order = o THEN t.qty ELSE 0

\* The quantities of an order in a sequence of trades.
LEMMA QuantitiesAreIntegers ==
    ASSUME NEW w \in Seq(Trades), NEW o
    PROVE  /\ QuantitiesOf(w, o) \in Seq(Int) /\ Len(QuantitiesOf(w, o)) = Len(w)
           /\ \A i \in 1 .. Len(w) :
                 /\ QuantitiesOf(w, o)[i] = QuantityOf(w[i], o)
                 /\ QuantitiesOf(w, o)[i] \in Nat
<1> DEFINE q == QuantitiesOf(w, o)
<1>1. Len(w) \in Nat /\ \A i \in 1 .. Len(w) : w[i] \in Trades
  BY LenProperties, ElementOfSeq
<1>2. \A i \in 1 .. Len(w) : q[i] = QuantityOf(w[i], o) /\ q[i] \in Nat
  BY <1>1 DEF QuantitiesOf, QuantityOf, Trades
<1>3. DOMAIN q = 1 .. Len(w) /\ q = [i \in 1 .. Len(w) |-> q[i]]
  BY DEF QuantitiesOf
<1> HIDE DEF q
<1>4. q \in [1 .. Len(w) -> Int]
  BY <1>2, <1>3
<1>5. q \in Seq(Int) /\ Len(q) = Len(w)
  BY <1>1, <1>3, <1>4, SeqDef
<1> QED BY <1>2, <1>5 DEF q

\* Their sum is a quantity.
LEMMA QuantityIsNatural ==
    ASSUME NEW w \in Seq(Trades), NEW o
    PROVE  Quantity(w, o) \in Nat
<1> DEFINE q == QuantitiesOf(w, o)
<1>1. q \in Seq(Int) /\ Len(q) = Len(w) /\ Len(w) \in Nat
      /\ \A i \in 1 .. Len(q) : q[i] \in Nat
  BY QuantitiesAreIntegers, LenProperties
<1> HIDE DEF q
<1>2. SumFunction(q) = SumFunctionOnSet(q, 1 .. Len(q))
  BY <1>1, SumOfSequence
<1>3. IsFiniteSet(1 .. Len(q))
  BY <1>1, FS_Interval
<1>4. SumFunctionOnSet(q, 1 .. Len(q)) \in Nat
  BY <1>1, <1>3, SumType
<1> QED BY <1>2, <1>4 DEF Quantity, q

\* No trades, no quantity.
LEMMA QuantityOfNothing == \A o : Quantity(<<>>, o) = 0
<1> SUFFICES ASSUME NEW o PROVE Quantity(<<>>, o) = 0
  OBVIOUS
<1> DEFINE q == QuantitiesOf(<<>>, o)
<1>1. <<>> \in Seq(Trades) /\ Len(<<>>) = 0
  OBVIOUS
<1>2. q \in Seq(Int) /\ Len(q) = 0
  BY <1>1, QuantitiesAreIntegers
<1> HIDE DEF q
<1>3. SumFunction(q) = SumFunctionOnSet(q, 1 .. Len(q))
  BY <1>2, SumOfSequence
<1>4. 1 .. Len(q) = {}
  BY <1>2
<1>5. SumFunctionOnSet(q, {}) = 0
  BY SumOfNothing, FS_EmptySet
<1> QED BY <1>3, <1>4, <1>5 DEF Quantity, q

\* The quantity with one trade more.
LEMMA QuantityOfAppended ==
    ASSUME NEW w \in Seq(Trades), NEW t \in Trades, NEW o
    PROVE  Quantity(Append(w, t), o) = Quantity(w, o) + QuantityOf(t, o)
<1> DEFINE v == Append(w, t)
           p == QuantitiesOf(w, o)
           q == QuantitiesOf(v, o)
           x == QuantityOf(t, o)
<1>1. /\ v \in Seq(Trades) /\ Len(v) = Len(w) + 1 /\ Len(w) \in Nat
      /\ \A i \in 1 .. Len(w) : v[i] = w[i]
      /\ v[Len(w) + 1] = t
  BY AppendProperties, LenProperties
<1> HIDE DEF v
<1>2. /\ p \in Seq(Int) /\ Len(p) = Len(w)
      /\ \A i \in 1 .. Len(w) : p[i] = QuantityOf(w[i], o)
  BY QuantitiesAreIntegers
<1>3. /\ q \in Seq(Int) /\ Len(q) = Len(v)
      /\ \A i \in 1 .. Len(v) : q[i] = QuantityOf(v[i], o) /\ q[i] \in Nat
  BY <1>1, QuantitiesAreIntegers
<1> HIDE DEF p, q, x
<1>4. x \in Int /\ q[Len(w) + 1] = x
  BY <1>1, <1>3 DEF x
<1>5. /\ Append(p, x) \in Seq(Int) /\ Len(Append(p, x)) = Len(w) + 1
      /\ \A i \in 1 .. Len(w) : Append(p, x)[i] = p[i]
      /\ Append(p, x)[Len(w) + 1] = x
  BY <1>2, <1>4, AppendProperties
<1>6. \A i \in 1 .. Len(w) + 1 : q[i] = Append(p, x)[i]
  <2> SUFFICES ASSUME NEW i \in 1 .. Len(w) + 1 PROVE q[i] = Append(p, x)[i]
    OBVIOUS
  <2>1. CASE i = Len(w) + 1
    BY <1>4, <1>5, <2>1
  <2>2. CASE i # Len(w) + 1
    <3>1. i \in 1 .. Len(w) /\ i \in 1 .. Len(v)
      BY <1>1, <2>2
    <3> QED BY <1>1, <1>2, <1>3, <1>5, <3>1
  <2> QED BY <2>1, <2>2
<1>7. q = Append(p, x)
  BY <1>1, <1>3, <1>5, <1>6, SeqEqual
<1>8. SumFunction(Append(p, x)) = SumFunction(p) + x
  BY <1>2, <1>4, SumOfAppended
<1> QED BY <1>7, <1>8 DEF Quantity, p, q, v, x

\* The quantity without the first trade.
LEMMA QuantityOfTail ==
    ASSUME NEW w \in Seq(Trades), w # <<>>, NEW o
    PROVE  Quantity(w, o) = QuantityOf(Head(w), o) + Quantity(Tail(w), o)
<1> DEFINE v == Tail(w)
           p == QuantitiesOf(w, o)
           q == QuantitiesOf(v, o)
<1>1. /\ v \in Seq(Trades) /\ Len(v) = Len(w) - 1 /\ Len(w) \in Nat /\ Len(w) >= 1
      /\ Head(w) = w[1]
      /\ \A i \in 1 .. Len(v) : v[i] = w[i + 1]
  BY HeadTailProperties, LenProperties, EmptySeq
<1> HIDE DEF v
<1>2. /\ p \in Seq(Int) /\ Len(p) = Len(w)
      /\ \A i \in 1 .. Len(w) : p[i] = QuantityOf(w[i], o)
  BY QuantitiesAreIntegers
<1>3. /\ q \in Seq(Int) /\ Len(q) = Len(v)
      /\ \A i \in 1 .. Len(v) : q[i] = QuantityOf(v[i], o)
  BY <1>1, QuantitiesAreIntegers
<1> HIDE DEF p, q
<1>4. p # <<>> /\ Head(p) = QuantityOf(Head(w), o)
  <2>1. p # <<>>
    BY <1>1, <1>2, EmptySeq
  <2>2. Head(p) = p[1] /\ 1 \in 1 .. Len(w)
    BY <1>1, <1>2, <2>1, HeadTailProperties
  <2> QED BY <1>1, <1>2, <2>1, <2>2
<1>5. /\ Tail(p) \in Seq(Int) /\ Len(Tail(p)) = Len(v)
      /\ \A i \in 1 .. Len(v) : Tail(p)[i] = p[i + 1]
  BY <1>1, <1>2, <1>4, HeadTailProperties
<1>6. \A i \in 1 .. Len(v) : q[i] = Tail(p)[i]
  <2> SUFFICES ASSUME NEW i \in 1 .. Len(v) PROVE q[i] = Tail(p)[i]
    OBVIOUS
  <2>1. i + 1 \in 1 .. Len(w)
    BY <1>1
  <2> QED BY <1>1, <1>2, <1>3, <1>5, <2>1
<1>7. q = Tail(p)
  BY <1>3, <1>5, <1>6, SeqEqual
<1>8. SumFunction(p) = Head(p) + SumFunction(Tail(p))
  BY <1>2, <1>4, SumOfTail
<1> QED BY <1>4, <1>7, <1>8 DEF Quantity, p, q, v

\* Trades of other orders add nothing.
LEMMA QuantityOfOthers ==
    ASSUME NEW w \in Seq(Trades), NEW o, NEW q, q # o,
           \A i \in 1 .. Len(w) : w[i].order = o
    PROVE  Quantity(w, q) = 0
<1> DEFINE p == QuantitiesOf(w, q)
<1>1. p \in Seq(Int) /\ Len(p) = Len(w) /\ Len(w) \in Nat
      /\ \A i \in 1 .. Len(w) : p[i] = QuantityOf(w[i], q)
  BY QuantitiesAreIntegers, LenProperties
<1> HIDE DEF p
<1>2. \A i \in 1 .. Len(w) : p[i] = 0
  BY <1>1 DEF QuantityOf
<1>3. IsFiniteSet(1 .. Len(w))
  BY <1>1, FS_Interval
<1>4. SumFunctionOnSet(p, 1 .. Len(w)) = 0
  BY <1>2, <1>3, SumOfNothing
<1>5. SumFunction(p) = SumFunctionOnSet(p, 1 .. Len(w))
  BY <1>1, SumOfSequence
<1> QED BY <1>4, <1>5 DEF Quantity, p

\* The quantity of one trade.
LEMMA QuantityOfOne ==
    ASSUME NEW t \in Trades, NEW o
    PROVE  Quantity(<<t>>, o) = QuantityOf(t, o) /\ QuantityOf(t, o) \in Nat
<1>1. <<>> \in Seq(Trades) /\ <<t>> = Append(<<>>, t)
  OBVIOUS
<1>2. Quantity(<<t>>, o) = Quantity(<<>>, o) + QuantityOf(t, o)
  BY <1>1, QuantityOfAppended
<1>3. QuantityOf(t, o) \in Nat
  BY DEF QuantityOf, Trades
<1> QED BY <1>2, <1>3, QuantityOfNothing

\* Where the stream has a message in hand whose trade it has yet to derive.
Deriving == {"trade", "save_order", "flush_check", "flush_apply"}

\* Nothing the stream reads is ahead of the venue.
Fed ==
    /\ executions = {}
    /\ \A m \in messages : m.is.filled <= venue[m.order].filled
    /\ pc["stream"] \in Deriving =>
          snap["stream"].is.filled <= venue[snap["stream"].order].filled

\* What the position book took over, and what it may still take over, was
\* derived by the stream; the stream derived no more than the venue filled.
Derived(o) ==
    /\ last[o] <= venue[o].filled
    /\ booked[o] + Quantity(buffer[o], o) + Quantity(work, o) <= last[o]

AheadInv == Fed /\ \A o \in OrderIds : Derived(o)

\* The venue's orders only fill further.
LEMMA VenueGrows ==
    ASSUME Inv, NEW o \in OrderIds, VenueFills(o) \/ VenueCancels(o)
    PROVE  \E is \in Orders :
              /\ is.filled >= venue[o].filled
              /\ venue' = [venue EXCEPT ![o] = is]
              /\ messages' = messages \cup {[order |-> o, is |-> is]}
<1>1. venue[o] \in Orders /\ venue[o].filled \in Nat /\ OrderQty[o] \in Nat
  BY FillConstants DEF Inv, Types, Orders
<1>2. CASE VenueCancels(o)
  <2> DEFINE is == [venue[o] EXCEPT !.status = "CANCELLED"]
  <2>1. is \in Orders /\ is.filled >= venue[o].filled
    <3>1. is \in Orders /\ is.filled = venue[o].filled
      BY <1>1 DEF Orders, OrderStatus
    <3> HIDE DEF is
    <3> QED BY <1>1, <3>1
  <2>2. /\ venue' = [venue EXCEPT ![o] = is]
        /\ messages' = messages \cup {[order |-> o, is |-> is]}
    BY <1>2 DEF VenueCancels, Emit
  <2> HIDE DEF is
  <2> QED BY <2>1, <2>2
<1>3. CASE VenueFills(o)
  <2>1. PICK n \in venue[o].filled + 1 .. OrderQty[o],
             st \in {"FILLED", "OPEN", "PARTIALLY_FILLED"} : Emit(o, Order(st, n))
    BY <1>3 DEF VenueFills
  <2> DEFINE is == Order(st, n)
  <2>2. n \in Nat /\ n >= venue[o].filled
    BY <1>1, <2>1
  <2>3. is \in Orders /\ is.filled = n
    BY <2>2 DEF Order, Orders, OrderStatus
  <2>4. /\ venue' = [venue EXCEPT ![o] = is]
        /\ messages' = messages \cup {[order |-> o, is |-> is]}
    BY <2>1 DEF Emit
  <2> HIDE DEF is
  <2> QED BY <2>2, <2>3, <2>4
<1> QED BY <1>2, <1>3

\* Without trade updates the stream derives from what the venue had reported.
LEMMA FedStep ==
    ASSUME Inv, AheadInv, ~TradeUpdates, [Next]_vars
    PROVE  Fed'
<1> USE DEF venueVars
<1>1. ASSUME UNCHANGED venueVars,
             pc'["stream"] \in Deriving =>
                pc["stream"] \in Deriving /\ snap'["stream"] = snap["stream"]
      PROVE  Fed'
  BY <1>1 DEF AheadInv, Fed
<1>2. /\ "stream" \in Actors /\ pc \in [Actors -> Phases]
      /\ snap \in [Actors -> Updates \cup {None}]
  BY DEF Actors, Inv, Types
<1>3. ASSUME NEW a \in Actors, NEW p, Goto(a, p), UNCHANGED venueVars,
             a # "stream" \/ p \notin Deriving \/ pc["stream"] \in Deriving
      PROVE  Fed'
  <2>1. pc'["stream"] = (IF a = "stream" THEN p ELSE pc["stream"])
    BY <1>2, <1>3 DEF Goto
  <2>2. pc'["stream"] \in Deriving => snap'["stream"] = snap["stream"]
    BY <1>2, <1>3, <2>1 DEF Goto, Deriving
  <2> QED BY <1>1, <1>3, <2>1, <2>2
<1>4. ASSUME NEW a \in Actors, NEW m \in Updates, UpsertOrder(a, m),
             a # "stream" \/ m \in messages
      PROVE  Fed'
  <2>1. PICK p : Enter(a, p, m)
    BY <1>4 DEF UpsertOrder
  <2>2. UNCHANGED venueVars
    BY <1>4 DEF UpsertOrder
  <2>3. CASE a # "stream"
    <3>1. pc'["stream"] = pc["stream"] /\ snap'["stream"] = snap["stream"]
      BY <1>2, <2>1, <2>3 DEF Enter
    <3> QED BY <1>1, <2>2, <3>1
  <2>4. CASE a = "stream" /\ m \in messages
    <3>1. pc'["stream"] = p /\ (p # "idle" => snap'["stream"] = m)
      BY <1>2, <2>1, <2>4 DEF Enter
    <3>2. m.is.filled <= venue[m.order].filled
      BY <2>4 DEF AheadInv, Fed
    <3> QED BY <2>2, <3>1, <3>2 DEF AheadInv, Fed, Deriving
  <2> QED BY <1>4, <2>3, <2>4
<1>5. ASSUME NEW o \in OrderIds, VenueFills(o) \/ VenueCancels(o) PROVE Fed'
  <2>1. PICK is \in Orders :
           /\ is.filled >= venue[o].filled
           /\ venue' = [venue EXCEPT ![o] = is]
           /\ messages' = messages \cup {[order |-> o, is |-> is]}
    BY <1>5, VenueGrows
  <2>2. UNCHANGED <<pc, snap, executions>>
    BY <1>5 DEF VenueFills, VenueCancels, Emit
  <2>3. /\ \A q \in OrderIds : venue[q].filled \in Nat
        /\ venue' \in [OrderIds -> Orders] /\ is.filled \in Nat
    BY <2>1 DEF Inv, Types, Orders
  <2>4. /\ \A q \in OrderIds : venue'[q].filled >= venue[q].filled /\ venue'[q].filled \in Nat
        /\ venue'[o].filled = is.filled
    BY <2>1, <2>3 DEF Inv, Types, Orders
  <2>5. ASSUME NEW m \in messages' PROVE m.is.filled <= venue'[m.order].filled
    <3>1. CASE m \in messages
      <4>1. m.order \in OrderIds /\ m.is.filled \in Nat
        BY <3>1 DEF Inv, Types, Updates, Orders
      <4>2. m.is.filled <= venue[m.order].filled
        BY <3>1 DEF AheadInv, Fed
      <4> QED BY <2>3, <2>4, <4>1, <4>2
    <3>2. CASE m = [order |-> o, is |-> is]
      BY <2>3, <2>4, <3>2
    <3> QED BY <2>1, <3>1, <3>2
  <2>6. ASSUME pc["stream"] \in Deriving
        PROVE  snap["stream"].is.filled <= venue'[snap["stream"].order].filled
    <3>1. snap["stream"].order \in OrderIds /\ snap["stream"].is.filled \in Nat
      BY <1>2, <2>6 DEF Inv, Within, Saving, LockPhases, Deriving, Updates, Orders
    <3>2. snap["stream"].is.filled <= venue[snap["stream"].order].filled
      BY <2>6 DEF AheadInv, Fed
    <3> QED BY <2>3, <2>4, <3>1, <3>2
  <2> QED BY <2>2, <2>5, <2>6 DEF AheadInv, Fed
<1>6. ASSUME NEW o \in OrderIds, RecordPlacement(o) PROVE Fed'
  <2>1. pc'["stream"] = pc["stream"] /\ snap'["stream"] = snap["stream"] /\ UNCHANGED venueVars
    BY <1>2, <1>6 DEF RecordPlacement, Enter
  <2> QED BY <1>1, <2>1
<1>7. ASSUME NEW o \in OrderIds, HealOrder(o) PROVE Fed'
  <2>1. CASE UpsertOrder("recon", [order |-> o, is |-> fetched[o]])
    <3>1. [order |-> o, is |-> fetched[o]] \in Updates /\ "recon" \in Actors
      BY <1>7 DEF HealOrder, Updates, Inv, Within, Sound, Actors
    <3> QED BY <1>4, <2>1, <3>1
  <2>2. CASE UNCHANGED <<venueVars, pc, snap>>
    BY <1>1, <2>2
  <2> QED BY <1>7, <2>1, <2>2 DEF HealOrder
<1>8. ASSUME NEW m \in messages, FeedOrder(m) PROVE Fed'
  <2>1. m \in Updates
    BY DEF Inv, Types
  <2> QED BY <1>2, <1>4, <1>8, <2>1 DEF FeedOrder
<1>9. CASE FeedNothingNew
  BY <1>2, <1>3, <1>9 DEF FeedNothingNew, Deriving
<1>10. CASE FeedTrade
  <2>1. RecordTrade(DerivedTrade(snap["stream"]))
    BY <1>10 DEF FeedTrade
  <2>2. pc'["stream"] \in {"idle", "apply"} /\ UNCHANGED venueVars
    BY <1>2, <2>1 DEF RecordTrade, Goto, Enter
  <2> QED BY <1>1, <2>2 DEF Deriving
<1>11. CASE ReadOrder
  <2>1. pc'["stream"] = "save_fill" /\ UNCHANGED venueVars
    BY <1>2, <1>11 DEF ReadOrder, Enter
  <2> QED BY <1>1, <2>1 DEF Deriving
<1>12. ASSUME NEW a \in Actors, SaveOrder(a) PROVE Fed'
  <2>1. /\ UNCHANGED venueVars /\ pc[a] \in {"save_order", "save_fill"}
        /\ Goto(a, IF pc[a] = "save_order" THEN AfterUpsert(a) ELSE "idle")
    BY <1>12 DEF SaveOrder
  <2>2. pc[a] = "save_order" => a # "stream" \/ pc["stream"] \in Deriving
    BY DEF Deriving
  <2>3. "idle" \notin Deriving
    BY DEF Deriving
  <2> QED BY <1>3, <2>1, <2>2, <2>3
<1>13. ASSUME NEW a \in Actors, FlushCheck(a) PROVE Fed'
  <2>1. UNCHANGED venueVars /\ pc[a] = "flush_check" /\ \E p : Goto(a, p)
    BY <1>13 DEF FlushCheck, Continue, AbandonFlush
  <2> QED BY <1>3, <2>1 DEF Deriving
<1>14. ASSUME NEW a \in Actors, ApplyFill(a) \/ ApplyRaises(a) PROVE Fed'
  <2>1. CASE pc[a] = "flush_apply"
    <3>1. UNCHANGED venueVars /\ \E p : Goto(a, p)
      BY <1>14, <2>1 DEF ApplyFill, ApplyRaises, Continue, AbandonFlush
    <3> QED BY <1>3, <2>1, <3>1 DEF Deriving
  <2>2. CASE pc[a] = "apply"
    <3>1. UNCHANGED venueVars /\ \E p \in {"idle", "read_order"} : Goto(a, p)
      BY <1>14, <2>2 DEF ApplyFill, ApplyRaises
    <3> QED BY <1>3, <3>1 DEF Deriving
  <2> QED BY <1>14, <2>1, <2>2 DEF ApplyFill, ApplyRaises
<1>15. CASE FetchMassStatus \/ FetchPositions
  <2>1. UNCHANGED venueVars /\ "recon" \in Actors /\ \E p : Goto("recon", p)
    BY <1>15 DEF FetchMassStatus, FetchPositions, Actors
  <2> QED BY <1>3, <2>1
<1>16. CASE Crash
  <2>1. UNCHANGED venueVars /\ pc'["stream"] = "idle"
    BY <1>2, <1>16 DEF Crash
  <2> QED BY <1>1, <2>1 DEF Deriving
<1>17. ASSUME NEW t \in executions, FeedTradeUpdate(t) PROVE Fed'
  BY DEF AheadInv, Fed
<1>18. CASE HealPosition \/ UNCHANGED vars \/ \E o \in OrderIds : ForgetCumulative(o)
  <2>1. UNCHANGED <<venueVars, pc, snap>>
    BY <1>18 DEF HealPosition, vars, ForgetCumulative
  <2> QED BY <1>1, <2>1
<1> QED BY <1>5, <1>6, <1>7, <1>8, <1>9, <1>10, <1>11, <1>12, <1>13, <1>14, <1>15,
           <1>16, <1>17, <1>18 DEF Next

\* Every step keeps the lots of an order within what the stream derived.
LEMMA DerivedStep ==
    ASSUME Inv, RestTypes, AheadInv, ~MemoryExpires, [Next]_vars
    PROVE  \A o \in OrderIds : Derived(o)'
<1> USE DEF venueVars, posVars
<1>1. /\ Inv' /\ RestTypes'
  BY FillStep, RestTypesStep
<1>2. ASSUME NEW o \in OrderIds
      PROVE  /\ last[o] \in Nat /\ venue[o].filled \in Nat /\ booked[o] \in Nat
             /\ buffer[o] \in Seq(Trades) /\ work \in Seq(Trades)
             /\ Quantity(buffer[o], o) \in Nat /\ Quantity(work, o) \in Nat
             /\ \A i \in 1 .. Len(buffer[o]) : buffer[o][i].order = o
             /\ Derived(o)
  <2>1. buffer[o] \in Seq(Trades) /\ work \in Seq(Trades)
    BY DEF Inv, Types
  <2> QED BY <2>1, QuantityIsNatural
          DEF Inv, Types, Orders, RestTypes, PositionTypes, AheadInv
<1>3. ASSUME NEW o \in OrderIds
      PROVE  /\ last'[o] \in Nat /\ venue'[o].filled \in Nat /\ booked'[o] \in Nat
             /\ Quantity(buffer'[o], o) \in Nat /\ Quantity(work', o) \in Nat
  <2>1. buffer'[o] \in Seq(Trades) /\ work' \in Seq(Trades)
    BY <1>1 DEF Inv, Types
  <2> QED BY <1>1, <2>1, QuantityIsNatural
          DEF Inv, Types, Orders, RestTypes, PositionTypes
<1>4. ASSUME UNCHANGED <<venue, last, booked, buffer>>,
             \A o \in OrderIds : Quantity(work', o) <= Quantity(work, o)
      PROVE  \A o \in OrderIds : Derived(o)'
  <2> SUFFICES ASSUME NEW o \in OrderIds PROVE Derived(o)'
    OBVIOUS
  <2>1. Quantity(work', o) <= Quantity(work, o)
    BY <1>4
  <2> QED BY <1>2, <1>3, <1>4, <2>1 DEF Derived
<1>5. ASSUME UNCHANGED <<venue, last, booked, buffer, work>>
      PROVE  \A o \in OrderIds : Derived(o)'
  BY <1>2, <1>5 DEF Derived
<1>6. ASSUME UNCHANGED <<venue, last, booked, buffer>>, work' = <<>>
      PROVE  \A o \in OrderIds : Derived(o)'
  <2>1. \A o \in OrderIds : Quantity(work', o) <= Quantity(work, o)
    BY <1>2, <1>6, QuantityOfNothing
  <2> QED BY <1>4, <1>6, <2>1
<1>7. ASSUME NEW o \in OrderIds, VenueFills(o) \/ VenueCancels(o)
      PROVE  \A q \in OrderIds : Derived(q)'
  <2>1. PICK is \in Orders : is.filled >= venue[o].filled /\ venue' = [venue EXCEPT ![o] = is]
    BY <1>7, VenueGrows
  <2>2. UNCHANGED <<last, booked, buffer, work>>
    BY <1>7 DEF VenueFills, VenueCancels, Emit
  <2>3. ASSUME NEW q \in OrderIds PROVE venue'[q].filled >= venue[q].filled
    BY <1>2, <2>1 DEF Inv, Types
  <2> SUFFICES ASSUME NEW q \in OrderIds PROVE Derived(q)'
    OBVIOUS
  <2>4. venue'[q].filled >= venue[q].filled
    BY <2>3
  <2> QED BY <1>2, <1>3, <2>2, <2>4 DEF Derived
<1>8. ASSUME NEW a \in Actors, NEW m \in Updates, UpsertOrder(a, m)
      PROVE  \A q \in OrderIds : Derived(q)'
  <2> DEFINE o == m.order
  <2>1. o \in OrderIds
    BY DEF Updates
  <2>2. /\ UNCHANGED <<venue, last, booked>>
        /\ \/ UNCHANGED <<work, buffer>>
           \/ work' = buffer[o] /\ buffer' = [buffer EXCEPT ![o] = <<>>]
    BY <1>8 DEF UpsertOrder
  <2> HIDE DEF o
  <2>3. CASE work' = buffer[o] /\ buffer' = [buffer EXCEPT ![o] = <<>>]
    <3> SUFFICES ASSUME NEW q \in OrderIds PROVE Derived(q)'
      OBVIOUS
    <3>1. CASE q = o
      <4>1. buffer'[q] = <<>> /\ Quantity(buffer'[q], q) = 0
        BY <2>1, <2>3, <3>1, QuantityOfNothing DEF Inv, Types
      <4>2. Quantity(work', q) = Quantity(buffer[q], q)
        BY <2>3, <3>1
      <4> QED BY <1>2, <1>3, <2>2, <4>1, <4>2 DEF Derived
    <3>2. CASE q # o
      <4>1. buffer'[q] = buffer[q]
        BY <2>3, <3>2 DEF Inv, Types
      <4>2. Quantity(work', q) = 0
        BY <1>2, <2>1, <2>3, <3>2, QuantityOfOthers
      <4> QED BY <1>2, <1>3, <2>2, <4>1, <4>2 DEF Derived
    <3> QED BY <3>1, <3>2
  <2> QED BY <1>5, <2>2, <2>3
<1>9. CASE FeedTrade
  <2> DEFINE o == snap["stream"].order
             n == snap["stream"].is.filled
             t == DerivedTrade(snap["stream"])
  <2>1. /\ o \in OrderIds /\ n \in Nat /\ t \in Trades /\ n > last[o]
        /\ t.order = o /\ t.qty = n - last[o]
    BY <1>9, DerivedIsTrade DEF FeedTrade, DerivedTrade
  <2>2. n <= venue[o].filled
    BY <1>9 DEF FeedTrade, AheadInv, Fed, Deriving
  <2>3. last' = [last EXCEPT ![o] = n] /\ RecordTrade(t)
    BY <1>9 DEF FeedTrade
  <2> HIDE DEF o, n, t
  <2>4. /\ UNCHANGED <<venue, booked>>
        /\ \/ UNCHANGED <<work, buffer>>
           \/ work' = work /\ buffer' = [buffer EXCEPT ![o] = Append(@, t)]
           \/ work' = <<t>> /\ buffer' = buffer
    BY <2>1, <2>3 DEF RecordTrade
  <2> SUFFICES ASSUME NEW q \in OrderIds PROVE Derived(q)'
    OBVIOUS
  <2>5. Quantity(buffer'[q], q) + Quantity(work', q)
          <= Quantity(buffer[q], q) + Quantity(work, q) + QuantityOf(t, q)
    <3>1. QuantityOf(t, q) \in Nat /\ Quantity(<<t>>, q) = QuantityOf(t, q)
      BY <2>1, QuantityOfOne
    <3>2. CASE UNCHANGED <<work, buffer>>
      BY <1>2, <3>1, <3>2
    <3>3. CASE work' = work /\ buffer' = [buffer EXCEPT ![o] = Append(@, t)]
      <4>1. CASE q = o
        <5>1. buffer'[q] = Append(buffer[q], t)
          BY <2>1, <3>3, <4>1 DEF Inv, Types
        <5>2. Quantity(buffer'[q], q) = Quantity(buffer[q], q) + QuantityOf(t, q)
          BY <1>2, <2>1, <5>1, QuantityOfAppended
        <5> QED BY <1>2, <3>1, <3>3, <5>2
      <4>2. CASE q # o
        <5>1. buffer'[q] = buffer[q]
          BY <3>3, <4>2 DEF Inv, Types
        <5> QED BY <1>2, <3>1, <3>3, <5>1
      <4> QED BY <4>1, <4>2
    <3>4. CASE work' = <<t>> /\ buffer' = buffer
      BY <1>2, <3>1, <3>4
    <3> QED BY <2>4, <3>2, <3>3, <3>4
  <2>6. CASE q = o
    <3>1. last'[q] = n /\ QuantityOf(t, q) = n - last[q]
      BY <2>1, <2>3, <2>6 DEF Inv, Types, QuantityOf
    <3> DEFINE held    == Quantity(buffer[q], q)
               hand    == Quantity(work, q)
               newHeld == Quantity(buffer'[q], q)
               newHand == Quantity(work', q)
               more    == QuantityOf(t, q)
    <3>2. /\ held \in Nat /\ hand \in Nat /\ newHeld \in Nat /\ newHand \in Nat
          /\ newHeld + newHand <= held + hand + more /\ more = n - last[q]
          /\ booked[q] + held + hand <= last[q]
      BY <1>2, <1>3, <2>5, <3>1 DEF Derived
    <3> HIDE DEF held, hand, newHeld, newHand, more
    <3>3. /\ n <= venue[q].filled /\ n \in Nat /\ last[q] \in Nat /\ booked[q] \in Nat
          /\ booked'[q] = booked[q] /\ venue' = venue
      BY <1>2, <2>1, <2>2, <2>4, <2>6
    <3>4. booked[q] + newHeld + newHand <= n
      BY <3>2, <3>3
    <3> QED BY <3>1, <3>3, <3>4 DEF Derived, newHeld, newHand
  <2>7. CASE q # o
    <3>1. last'[q] = last[q] /\ QuantityOf(t, q) = 0
      BY <2>1, <2>3, <2>7 DEF Inv, Types, QuantityOf
    <3> QED BY <1>2, <1>3, <2>4, <2>5, <3>1 DEF Derived
  <2> QED BY <2>6, <2>7
<1>10. ASSUME NEW a \in Actors, FlushCheck(a) PROVE \A q \in OrderIds : Derived(q)'
  <2>1. work # <<>> /\ work \in Seq(Trades) /\ Head(work) \in Trades
    BY <1>10, TradeInHand DEF FlushCheck, LockPhases
  <2>2. /\ UNCHANGED <<venue, last, booked, buffer>>
        /\ work' = work \/ work' = <<>> \/ work' = Tail(work)
    BY <1>10 DEF FlushCheck, Continue, AbandonFlush
  <2>3. CASE work' = Tail(work)
    <3>1. ASSUME NEW q \in OrderIds PROVE Quantity(work', q) <= Quantity(work, q)
      <4>1. Quantity(work, q) = QuantityOf(Head(work), q) + Quantity(Tail(work), q)
        BY <2>1, QuantityOfTail
      <4>2. QuantityOf(Head(work), q) \in Nat
        BY <2>1, QuantityOfOne
      <4>3. Quantity(work', q) \in Nat /\ Quantity(work', q) = Quantity(Tail(work), q)
        BY <1>3, <2>3
      <4> QED BY <4>1, <4>2, <4>3
    <3> QED BY <1>4, <2>2, <3>1
  <2> QED BY <1>5, <1>6, <2>2, <2>3
<1>11. ASSUME NEW a \in Actors, ApplyFill(a) PROVE \A q \in OrderIds : Derived(q)'
  <2> DEFINE t == Head(work)
  <2>1. work # <<>> /\ work \in Seq(Trades) /\ t \in Trades /\ t.order \in OrderIds
    BY <1>11, TradeInHand DEF ApplyFill, LockPhases
  <2>2. /\ UNCHANGED <<venue, last, buffer>>
        /\ work' = <<>> \/ work' = Tail(work)
        /\ booked' = booked \/ booked' = [booked EXCEPT ![t.order] = @ + t.qty]
    BY <1>11 DEF ApplyFill, Continue, AbandonFlush, TradeApplied
  <2> SUFFICES ASSUME NEW q \in OrderIds PROVE Derived(q)'
    OBVIOUS
  <2>3. /\ Quantity(work, q) = QuantityOf(t, q) + Quantity(Tail(work), q)
        /\ QuantityOf(t, q) \in Nat
    BY <2>1, QuantityOfTail, QuantityOfOne
  <2>4. Tail(work) \in Seq(Trades)
    BY <2>1, WorkFacts
  <2>5. Quantity(Tail(work), q) \in Nat /\ Quantity(<<>>, q) = 0
    BY <2>4, QuantityIsNatural, QuantityOfNothing
  <2> HIDE DEF t
  <2>6. Quantity(work', q) <= Quantity(Tail(work), q)
    <3>1. CASE work' = <<>>
      BY <2>5, <3>1
    <3>2. CASE work' = Tail(work)
      BY <2>5, <3>2
    <3> QED BY <2>2, <3>1, <3>2
  <2>7. booked'[q] <= booked[q] + QuantityOf(t, q)
    <3>1. CASE booked' = booked
      BY <1>2, <2>3, <3>1
    <3>2. CASE booked' = [booked EXCEPT ![t.order] = @ + t.qty]
      <4>1. booked \in [OrderIds -> Nat]
        BY DEF RestTypes, PositionTypes
      <4>2. booked'[q] = IF t.order = q THEN booked[q] + t.qty ELSE booked[q]
        BY <2>1, <3>2, <4>1
      <4> QED BY <1>2, <2>3, <4>2 DEF QuantityOf
    <3> QED BY <2>2, <3>1, <3>2
  <2>8. booked'[q] + Quantity(buffer[q], q) + Quantity(work', q) <= last[q]
    <3> DEFINE held    == Quantity(buffer[q], q)
               hand    == Quantity(work, q)
               rest    == Quantity(Tail(work), q)
               newHand == Quantity(work', q)
               more    == QuantityOf(t, q)
    <3>1. /\ held \in Nat /\ hand \in Nat /\ rest \in Nat /\ newHand \in Nat /\ more \in Nat
          /\ hand = more + rest /\ newHand <= rest /\ booked'[q] <= booked[q] + more
          /\ booked[q] + held + hand <= last[q]
      BY <1>2, <1>3, <2>3, <2>5, <2>6, <2>7 DEF Derived
    <3> HIDE DEF held, hand, rest, newHand, more
    <3>2. booked[q] \in Nat /\ booked'[q] \in Nat /\ last[q] \in Nat
      BY <1>2, <1>3
    <3>3. booked'[q] + held + newHand <= last[q]
      BY <3>1, <3>2
    <3> QED BY <3>3 DEF held, newHand
  <2> QED BY <1>2, <2>2, <2>8 DEF Derived
<1>12. CASE Crash
  <2> SUFFICES ASSUME NEW q \in OrderIds PROVE Derived(q)'
    OBVIOUS
  <2>1. /\ last'[q] = 0 /\ booked'[q] = 0 /\ work' = <<>> /\ buffer'[q] = <<>>
        /\ venue' = venue
    BY <1>12 DEF Crash
  <2>2. Quantity(work', q) = 0 /\ Quantity(buffer'[q], q) = 0
    BY <2>1, QuantityOfNothing
  <2> QED BY <1>2, <2>1, <2>2 DEF Derived
<1>13. ASSUME NEW a \in Actors, ApplyRaises(a) PROVE \A q \in OrderIds : Derived(q)'
  BY <1>6, <1>13 DEF ApplyRaises, AbandonFlush
<1>14. ASSUME NEW o \in OrderIds, RecordPlacement(o) \/ ForgetCumulative(o)
       PROVE  \A q \in OrderIds : Derived(q)'
  BY <1>5, <1>14 DEF RecordPlacement, ForgetCumulative
<1>15. ASSUME NEW o \in OrderIds, HealOrder(o) PROVE \A q \in OrderIds : Derived(q)'
  <2>1. CASE UpsertOrder("recon", [order |-> o, is |-> fetched[o]])
    <3>1. [order |-> o, is |-> fetched[o]] \in Updates /\ "recon" \in Actors
      BY <1>15 DEF HealOrder, Updates, Inv, Within, Sound, Actors
    <3> QED BY <1>8, <2>1, <3>1
  <2>2. CASE UNCHANGED <<venueVars, last, posVars, buffer, work>>
    BY <1>5, <2>2
  <2> QED BY <1>15, <2>1, <2>2 DEF HealOrder
<1>16. ASSUME NEW m \in messages, FeedOrder(m) PROVE \A q \in OrderIds : Derived(q)'
  <2>1. m \in Updates /\ "stream" \in Actors
    BY DEF Inv, Types, Actors
  <2> QED BY <1>8, <1>16, <2>1 DEF FeedOrder
<1>17. CASE FeedNothingNew \/ ReadOrder \/ FetchMassStatus \/ FetchPositions \/ HealPosition
  BY <1>5, <1>17 DEF FeedNothingNew, ReadOrder, FetchMassStatus, FetchPositions, HealPosition
<1>18. ASSUME NEW a \in Actors, SaveOrder(a) PROVE \A q \in OrderIds : Derived(q)'
  BY <1>5, <1>18 DEF SaveOrder
<1>19. CASE UNCHANGED vars
  BY <1>5, <1>19 DEF vars
<1>20. ~\E t \in executions : FeedTradeUpdate(t)
  BY DEF AheadInv, Fed
<1> QED BY <1>7, <1>9, <1>10, <1>11, <1>12, <1>13, <1>14, <1>15, <1>16, <1>17, <1>18,
           <1>19, <1>20 DEF Next

\* No lots anywhere at the start.
LEMMA AheadInit == Init => AheadInv
<1> SUFFICES ASSUME Init PROVE AheadInv
  OBVIOUS
<1>1. Fed
  <2>1. ASSUME NEW m \in messages PROVE m.is.filled <= venue[m.order].filled
    <3>1. PICK o \in OrderIds : m = [order |-> o, is |-> Order("OPEN", 0)]
      BY <2>1 DEF Init
    <3>2. m.is.filled = 0 /\ venue[m.order].filled = 0
      BY <3>1 DEF Init, Order
    <3> QED BY <3>2
  <2>2. executions = {} /\ pc["stream"] = "idle"
    BY DEF Init, Actors
  <2> QED BY <2>1, <2>2 DEF Fed, Deriving
<1>2. ASSUME NEW o \in OrderIds PROVE Derived(o)
  <2>1. /\ last[o] = 0 /\ booked[o] = 0 /\ buffer[o] = <<>> /\ work = <<>>
        /\ venue[o].filled = 0
    BY DEF Init, Order
  <2>2. Quantity(<<>>, o) = 0
    BY QuantityOfNothing
  <2> QED BY <2>1, <2>2 DEF Derived
<1> QED BY <1>1, <1>2 DEF AheadInv

\* As long as no memory of the stream expires and the venue sends no trade
\* updates, the position book takes over no more of an order than the venue has
\* filled: the trades that are buffered, in hand and taken over are parts of
\* what the stream derived (portfolio_stream.py, _publish_trade_for_order).
THEOREM PositionNeverAhead ==
    ~MemoryExpires /\ ~TradeUpdates /\ Spec => []PositionNotAhead
<1>1. Inv /\ RestTypes /\ AheadInv => PositionNotAhead
  <2> SUFFICES ASSUME Inv, RestTypes, AheadInv, NEW o \in OrderIds
               PROVE  booked[o] <= venue[o].filled
    BY DEF PositionNotAhead
  <2>1. /\ last[o] \in Nat /\ venue[o].filled \in Nat /\ booked[o] \in Nat
        /\ buffer[o] \in Seq(Trades) /\ work \in Seq(Trades)
    BY DEF Inv, Types, Orders, RestTypes, PositionTypes
  <2>2. Quantity(buffer[o], o) \in Nat /\ Quantity(work, o) \in Nat
    BY <2>1, QuantityIsNatural
  <2> QED BY <2>1, <2>2 DEF AheadInv, Derived
<1>2. ~MemoryExpires /\ ~TradeUpdates => [](~MemoryExpires /\ ~TradeUpdates)
  OBVIOUS
<1>3. /\ Inv /\ RestTypes /\ AheadInv /\ ~MemoryExpires /\ ~TradeUpdates /\ [Next]_vars
      => AheadInv'
  BY FedStep, DerivedStep DEF AheadInv
<1> QED BY <1>1, <1>2, <1>3, AheadInit, RestTypesInit, RestTypesStep, FillInit, FillStep, PTL
        DEF Spec
=============================================================================
