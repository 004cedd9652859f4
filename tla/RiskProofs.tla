----------------------------- MODULE RiskProofs -----------------------------
(***************************************************************************)
(* Proofs about the limits the risk manager keeps.                         *)
(*                                                                         *)
(* LossLimits, for any number of feeding threads, any moves of the equity  *)
(* and the capital, any thresholds, windows and cooldowns: a trip halts    *)
(* trading for a whole cooldown (HaltInv), and the samples of the window   *)
(* are a chain that ends at the day's total (ChainInv).                    *)
(*                                                                         *)
(* ExposureLimits, for any orders, symbols, lots, multipliers and limits:  *)
(* a reservation covers what the position book does not know of its order  *)
(* (Ordered and CoversOrder make that inductive), and the reads of one     *)
(* check, which are steps of their own, together account for all there is  *)
(* (Checked), so that what is approved keeps both limits (Limited).  The   *)
(* book counts one per lot: what it leaves out of a position is no more    *)
(* than what the reservations still hold for its fills (Booked).           *)
(***************************************************************************)
EXTENDS LossLimits, ExposureLimits, CollectionLemmas

(***************************************************************************)
(* The losses: a trip halts trading for a whole cooldown.                  *)
(***************************************************************************)
\* The cooldown began after the trip, and a circuit that is closed again has
\* been through all of it, or the operator closed it.
HaltInv ==
    /\ state \in States
    /\ cooling \in 0 .. Cooldown /\ sinceTrip \in 0 .. Cooldown
    /\ state = "COOLDOWN" => cooling <= sinceTrip
    /\ state = "CLOSED" /\ ~cleared => sinceTrip = Cooldown

\* What a transition to CLOSED or COOLDOWN, or a trip, makes of the two clocks.
LEMMA TransitionKeepsHalt ==
    ASSUME HaltInv, NEW new \in States, Transition(new),
           cleared' \in {cleared, FALSE} \/ cleared',
           new = "CLOSED" /\ ~cleared' => sinceTrip = Cooldown
    PROVE  HaltInv'
<1>1. Cooldown \in Nat \ {0}
  BY LossAssumption
<1>2. state' = new /\ cooling' = Cooling(new)
      /\ sinceTrip' = IF new = "OPEN" /\ state # "OPEN" THEN 0 ELSE sinceTrip
  BY DEF Transition
<1> QED BY <1>1, <1>2 DEF HaltInv, Cooling, States

\* What allow_trading makes of the state: CLOSED after the cooldown only.
LEMMA AfterAllowClosed ==
    ASSUME HaltInv
    PROVE  /\ AfterAllow \in States
           /\ AfterAllow = "CLOSED" /\ ~cleared => sinceTrip = Cooldown
<1>1. Cooldown \in Nat \ {0}
  BY LossAssumption
<1> QED BY <1>1 DEF HaltInv, AfterAllow, States

\* The circuit is closed at the start.
LEMMA HaltInit == Init => HaltInv
<1>1. Cooldown \in Nat \ {0}
  BY LossAssumption
<1> QED BY <1>1 DEF Init, HaltInv, States

\* Every step keeps the cooldown after the trip.
LEMMA HaltStep == HaltInv /\ [Next]_vars => HaltInv'
<1> SUFFICES ASSUME HaltInv, [Next]_vars PROVE HaltInv'
  OBVIOUS
<1> USE DEF breaker
<1>0. Cooldown \in Nat \ {0}
  BY LossAssumption
<1>1. ASSUME NEW f \in Feeders, ReadEquity(f) PROVE HaltInv'
  BY <1>1 DEF ReadEquity, HaltInv
<1>2. ASSUME NEW f \in Feeders, Update(f) PROVE HaltInv'
  <2> DEFINE ss  == Recorded(Delta(read[f]))
             new == CASE state = "CLOSED" /\ Exceeds(ss, capital) -> "OPEN"
                      [] state = "OPEN" /\ Recovered(ss, capital) -> "COOLDOWN"
                      [] OTHER -> state
  <2>1. /\ Transition(new)
        /\ cleared' = (cleared /\ ~(state = "CLOSED" /\ Exceeds(ss, capital)))
    BY <1>2 DEF Update, RecordLoss
  <2>2. /\ new \in States
        /\ new = "CLOSED" => state = "CLOSED" /\ ~Exceeds(ss, capital)
    BY DEF HaltInv, States
  <2>3. new = "CLOSED" /\ ~cleared' => sinceTrip = Cooldown
    BY <2>1, <2>2 DEF HaltInv
  <2>4. cleared' \in {cleared, FALSE}
    BY <2>1
  <2> QED BY <2>1, <2>2, <2>3, <2>4, TransitionKeepsHalt
<1>3. CASE CheckOrder
  <2>1. Transition(AfterAllow) /\ cleared' = cleared
    BY <1>3 DEF CheckOrder
  <2> QED BY <2>1, AfterAllowClosed, TransitionKeepsHalt
<1>4. CASE OperatorReset
  <2>1. /\ state # "CLOSED"
        /\ Transition(IF state = "OPEN" THEN "COOLDOWN" ELSE "CLOSED")
        /\ cleared' = (cleared \/ state = "COOLDOWN")
    BY <1>4 DEF OperatorReset
  <2>2. CASE state = "OPEN"
    BY <2>1, <2>2, TransitionKeepsHalt DEF States
  <2>3. CASE state = "COOLDOWN"
    BY <2>1, <2>3, TransitionKeepsHalt DEF States
  <2> QED BY <2>1, <2>2, <2>3 DEF HaltInv, States
<1>5. CASE Midnight
  BY <1>5 DEF Midnight, HaltInv
<1>6. CASE Rollover
  BY <1>6 DEF Rollover, HaltInv
<1>7. CASE Tick
  BY <1>0, <1>7 DEF Tick, HaltInv, Older
<1>8. ASSUME NEW m \in Moves, NEW c \in Capitals, Market(m, c) PROVE HaltInv'
  BY <1>8 DEF Market, HaltInv
<1>9. CASE UNCHANGED vars
  BY <1>9 DEF vars, HaltInv
<1> QED BY <1>1, <1>2, <1>3, <1>4, <1>5, <1>6, <1>7, <1>8, <1>9 DEF Next

\* The invariant says that an order passes only after the whole cooldown.
LEMMA HaltInvLasts == HaltInv => HaltLasts
  BY AfterAllowClosed DEF HaltLasts, OrderAllowed

\* After a trip no order passes the loss breaker before the cooldown is over,
\* unless the operator resets it (LossCircuitBreaker.allow_trading).
THEOREM HaltLastsAlways == Spec => []HaltLasts
<1>1. Spec => []HaltInv
  BY HaltInit, HaltStep, PTL DEF Spec
<1> QED BY <1>1, HaltInvLasts, PTL

(***************************************************************************)
(* What the samples add up to.                                             *)
(***************************************************************************)
SampleSet == [age : 0 .. Window + 1, loss : Int, before : Int]

\* Samples are in the order of their ages, and each begins where the one before
\* it ended; the last ends at the present total.
InOrder(ss) == \A i, j \in 1 .. Len(ss) : i < j => ss[i].age >= ss[j].age

Chained(ss, total) ==
    /\ \A i \in 1 .. Len(ss) - 1 : ss[i + 1].before = ss[i].before + ss[i].loss
    /\ ss # <<>> => total = ss[Len(ss)].before + ss[Len(ss)].loss

\* Until the first midnight nothing but the feed moves the total.
ChainInv ==
    /\ TypeOK
    /\ days = 0 => resetToday /\ ~rolloverDue /\ Chained(samples, dailyPnl)

\* A chain adds up to the way from its beginning to its end.
LEMMA ChainAddsUp ==
    ASSUME NEW ss \in Seq(SampleSet), ss # <<>>, NEW total \in Int, Chained(ss, total)
    PROVE  Cumulative(ss) = total - ss[1].before
<1> DEFINE n == Len(ss)
           f == [i \in 1 .. n |-> ss[i].loss]
           b == [i \in 1 .. n + 1 |-> IF i <= n THEN ss[i].before ELSE total]
<1>1. n \in Nat \ {0} /\ DOMAIN ss = 1 .. n /\ \A i \in 1 .. n : ss[i] \in SampleSet
  BY LenProperties, EmptySeq, ElementOfSeq
<1>2. \A i \in 1 .. n : f[i] \in Int /\ f[i] = ss[i].loss
  BY <1>1 DEF SampleSet
<1>3. \A i \in 1 .. n + 1 : b[i] \in Int
  BY <1>1 DEF SampleSet
<1>4. /\ \A i \in 1 .. n : b[i] = ss[i].before
      /\ b[n + 1] = total
  BY <1>1
<1>5. Cumulative(ss) = SumFunctionOnSet(f, 1 .. n)
  BY <1>1 DEF Cumulative
<1>6. /\ \A i \in 1 .. n - 1 : ss[i + 1].before = ss[i].before + ss[i].loss
      /\ total = ss[n].before + ss[n].loss
  BY DEF Chained
<1> HIDE DEF f, b, n
<1>7. ASSUME NEW i \in 1 .. n PROVE b[i + 1] = b[i] + f[i]
  <2>1. CASE i = n
    BY <2>1, <1>2, <1>4, <1>6
  <2>2. CASE i # n
    <3>1. i \in 1 .. n - 1 /\ i + 1 \in 1 .. n
      BY <2>2, <1>1
    <3> QED BY <3>1, <1>2, <1>4, <1>6
  <2> QED BY <2>1, <2>2
<1>8. \A i \in 1 .. n : f[i] \in Int /\ b[i + 1] = b[i] + f[i]
  BY <1>2, <1>7
<1>9. SumFunctionOnSet(f, 1 .. n) = b[n + 1] - b[1]
  BY <1>1, <1>3, <1>8, SumOfSteps
<1>10. b[1] = ss[1].before
  BY <1>1, <1>4
<1> QED BY <1>4, <1>5, <1>9, <1>10

\* _purge_old_samples takes samples from the front, which breaks no chain.
LEMMA PurgedIsChained ==
    ASSUME NEW ss \in Seq(SampleSet), NEW total, InOrder(ss)
    PROVE  /\ Purged(ss) \in Seq(SampleSet) /\ InOrder(Purged(ss))
           /\ Chained(ss, total) => Chained(Purged(ss), total)
<1> DEFINE n == Len(ss) - Cardinality(Young(ss))
           p == Purged(ss)
<1>1. DOMAIN ss = 1 .. Len(ss) /\ Len(ss) \in Nat
  BY LenProperties
<1>2. Cardinality(Young(ss)) \in 0 .. Len(ss)
  <2>1. Young(ss) \subseteq 1 .. Len(ss)
    BY <1>1 DEF Young
  <2>2. IsFiniteSet(1 .. Len(ss)) /\ Cardinality(1 .. Len(ss)) = Len(ss)
    BY <1>1, FS_Interval
  <2>3. IsFiniteSet(Young(ss)) /\ Cardinality(Young(ss)) <= Len(ss)
    BY <2>1, <2>2, FS_Subset
  <2>4. Cardinality(Young(ss)) \in Nat
    BY <2>3, FS_CardinalityType
  <2> QED BY <1>1, <2>3, <2>4
<1>3. n \in 0 .. Len(ss)
  BY <1>1, <1>2
<1>4. p = LastPart(ss, n)
  BY DEF Purged, LastPart
<1> HIDE DEF n, p
<1>5. /\ p \in Seq(SampleSet) /\ Len(p) = Len(ss) - n
      /\ \A i \in 1 .. Len(p) : p[i] = ss[n + i]
  BY <1>3, <1>4, CutElements
<1>6. InOrder(p)
  <2> SUFFICES ASSUME NEW i \in 1 .. Len(p), NEW j \in 1 .. Len(p), i < j
               PROVE  p[i].age >= p[j].age
    BY DEF InOrder
  <2>1. n + i \in 1 .. Len(ss) /\ n + j \in 1 .. Len(ss) /\ n + i < n + j
    BY <1>1, <1>3, <1>5
  <2>2. ss[n + i].age >= ss[n + j].age
    BY <2>1 DEF InOrder
  <2> QED BY <1>5, <2>2
<1>7. ASSUME Chained(ss, total) PROVE Chained(p, total)
  <2>1. ASSUME NEW i \in 1 .. Len(p) - 1 PROVE p[i + 1].before = p[i].before + p[i].loss
    <3>1. n + i \in 1 .. Len(ss) - 1 /\ n + (i + 1) = (n + i) + 1
          /\ i \in 1 .. Len(p) /\ i + 1 \in 1 .. Len(p)
      BY <1>1, <1>3, <1>5
    <3> QED BY <1>5, <1>7, <3>1 DEF Chained
  <2>2. ASSUME p # <<>> PROVE total = p[Len(p)].before + p[Len(p)].loss
    <3>1. Len(p) \in 1 .. Len(p) /\ n + Len(p) = Len(ss) /\ Len(ss) # 0
      BY <1>1, <1>3, <1>5, <2>2, EmptySeq, LenProperties
    <3>2. ss # <<>>
      BY <3>1, EmptySeq
    <3> QED BY <1>5, <1>7, <3>1, <3>2 DEF Chained
  <2> QED BY <2>1, <2>2 DEF Chained
<1> QED BY <1>5, <1>6, <1>7 DEF p

\* record_loss continues the chain with the change it is told of.
LEMMA RecordedIsChained ==
    ASSUME NEW ss \in Seq(SampleSet), InOrder(ss), NEW total \in Int,
           NEW loss \in Int, NEW x, x = [age |-> 0, loss |-> loss, before |-> total]
    PROVE  /\ Append(ss, x) \in Seq(SampleSet) /\ InOrder(Append(ss, x))
           /\ Chained(ss, total) => Chained(Append(ss, x), total + loss)
<1> DEFINE n == Len(ss)
           a == Append(ss, x)
<1>0. Window \in Nat
  BY LossAssumption
<1>1. x \in SampleSet
  BY <1>0 DEF SampleSet
<1>2. /\ a \in Seq(SampleSet) /\ Len(a) = n + 1 /\ n \in Nat
      /\ \A i \in 1 .. n : a[i] = ss[i] /\ ss[i] \in SampleSet
      /\ a[n + 1] = x
  BY <1>1, AppendProperties, LenProperties, ElementOfSeq
<1> HIDE DEF a, n
<1>3. InOrder(a)
  <2> SUFFICES ASSUME NEW i \in 1 .. n + 1, NEW j \in 1 .. n + 1, i < j
               PROVE  a[i].age >= a[j].age
    BY <1>2 DEF InOrder
  <2>1. CASE j = n + 1
    <3>1. a[j].age = 0 /\ a[i] = ss[i] /\ ss[i] \in SampleSet
      BY <1>2, <2>1
    <3> QED BY <1>0, <3>1 DEF SampleSet
  <2>2. CASE j \in 1 .. n
    BY <1>2, <2>2 DEF InOrder, n
  <2> QED BY <1>2, <2>1, <2>2
<1>4. ASSUME Chained(ss, total) PROVE Chained(a, total + loss)
  <2>1. ASSUME NEW i \in 1 .. Len(a) - 1 PROVE a[i + 1].before = a[i].before + a[i].loss
    <3>1. CASE i = n
      <4>1. n \in 1 .. n /\ ss # <<>> /\ a[n] = ss[n] /\ a[n + 1] = x
        BY <1>2, <2>1, <3>1, EmptySeq DEF n
      <4>2. total = ss[n].before + ss[n].loss
        BY <4>1, <1>4 DEF Chained, n
      <4> QED BY <3>1, <4>1, <4>2
    <3>2. CASE i # n
      <4>1. i \in 1 .. n - 1 /\ i \in 1 .. n /\ i + 1 \in 1 .. n
        BY <1>2, <3>2
      <4> QED BY <4>1, <1>2, <1>4 DEF Chained, n
    <3> QED BY <3>1, <3>2
  <2>2. total + loss = a[Len(a)].before + a[Len(a)].loss
    BY <1>2
  <2> QED BY <2>1, <2>2 DEF Chained
<1> QED BY <1>2, <1>3, <1>4 DEF a

\* Getting older keeps what a sample says, and the order.
LEMMA OlderSamples ==
    ASSUME NEW ss \in Seq(SampleSet), InOrder(ss), NEW old,
           old = [i \in DOMAIN ss |-> [ss[i] EXCEPT !.age = Older(@, Window + 1)]]
    PROVE  /\ old \in Seq(SampleSet) /\ Len(old) = Len(ss) /\ InOrder(old)
           /\ \A total : Chained(ss, total) => Chained(old, total)
<1> DEFINE n == Len(ss)
<1>0. Window \in Nat
  BY LossAssumption
<1>1. /\ n \in Nat /\ DOMAIN ss = 1 .. n
      /\ \A i \in 1 .. n : ss[i] \in SampleSet
  BY LenProperties, ElementOfSeq
<1>2. \A i \in 1 .. n :
          /\ old[i] = [ss[i] EXCEPT !.age = Older(@, Window + 1)]
          /\ ss[i].age \in 0 .. Window + 1 /\ ss[i].loss \in Int /\ ss[i].before \in Int
  BY <1>1 DEF SampleSet
<1>3. \A i \in 1 .. n :
          /\ old[i].loss = ss[i].loss /\ old[i].before = ss[i].before
          /\ old[i].age = Older(ss[i].age, Window + 1)
          /\ Older(ss[i].age, Window + 1) \in 0 .. Window + 1
          /\ old[i] \in SampleSet
  BY <1>0, <1>1, <1>2 DEF SampleSet, Older
<1>4. old \in Seq(SampleSet) /\ Len(old) = n
  <2>1. old \in [1 .. n -> SampleSet]
    BY <1>1, <1>3
  <2> QED BY <1>1, <2>1, SeqDef, LenProperties
<1> HIDE DEF n
<1>5. InOrder(old)
  <2> SUFFICES ASSUME NEW i \in 1 .. n, NEW j \in 1 .. n, i < j
               PROVE  old[i].age >= old[j].age
    BY <1>4 DEF InOrder
  <2>1. ss[i].age >= ss[j].age
    BY DEF InOrder, n
  <2>2. \A x, y \in 0 .. Window + 1 :
            x >= y => Older(x, Window + 1) >= Older(y, Window + 1)
    BY <1>0 DEF Older
  <2>3. /\ ss[i].age \in 0 .. Window + 1 /\ ss[j].age \in 0 .. Window + 1
        /\ old[i].age = Older(ss[i].age, Window + 1)
        /\ old[j].age = Older(ss[j].age, Window + 1)
    BY <1>2, <1>3
  <2> QED BY <2>1, <2>2, <2>3
<1>6. ASSUME NEW total, Chained(ss, total) PROVE Chained(old, total)
  <2>1. ASSUME NEW i \in 1 .. n - 1 PROVE old[i + 1].before = old[i].before + old[i].loss
    <3>1. i \in 1 .. n /\ i + 1 \in 1 .. n
      BY <1>1 DEF n
    <3> QED BY <1>3, <1>6, <3>1 DEF Chained, n
  <2>2. ASSUME old # <<>> PROVE total = old[n].before + old[n].loss
    <3>1. n # 0
      BY <1>4, <2>2, EmptySeq
    <3>2. n \in 1 .. n /\ ss # <<>>
      BY <1>1, <3>1, EmptySeq DEF n
    <3> QED BY <1>3, <1>6, <3>2 DEF Chained, n
  <2> QED BY <1>4, <2>1, <2>2 DEF Chained
<1> QED BY <1>4, <1>5, <1>6 DEF n

\* There are no samples at the start.
LEMMA ChainInit == Init => ChainInv
<1>1. \A S : <<>> \in Seq(S) /\ Len(<<>>) = 0
  BY EmptySeq
<1>2. <<>> \in Seq([age : 0 .. Window + 1, loss : Int, before : Int])
  BY <1>1
<1>3. DOMAIN <<>> = {}
  BY <1>1, LenProperties
<1> SUFFICES ASSUME Init PROVE ChainInv
  OBVIOUS
<1>4. Chained(samples, dailyPnl) /\ resetToday /\ ~rolloverDue
  BY <1>1 DEF Init, Chained
<1>5. /\ samples = <<>> /\ Len(samples) <= MaxSamples
      /\ \A i, j \in DOMAIN samples : i < j => samples[i].age >= samples[j].age
  BY <1>1, <1>3, LossAssumption DEF Init
<1>6. read \in [Feeders -> Int \cup {None}] /\ cooling \in 0 .. Cooldown
      /\ sinceTrip \in 0 .. Cooldown /\ moves \in 0 .. MaxMoves /\ days \in 0 .. MaxDays
  BY LossAssumption DEF Init
<1>7. /\ resetToday = TRUE /\ rolloverDue = FALSE /\ quiet = TRUE /\ cleared = FALSE
      /\ state = "CLOSED" /\ dailyPnl = 0 /\ equity = 0
      /\ capital \in Capitals /\ lastCapital = 0
  BY DEF Init
<1>8. {resetToday, rolloverDue, quiet, cleared} \subseteq BOOLEAN
  BY <1>7, Zenon
<1>9. state \in States /\ dailyPnl \in Int /\ equity \in Int
      /\ capital \in Capitals /\ lastCapital \in Capitals \cup {0}
  BY <1>7 DEF States
<1>10. TypeOK
  BY <1>2, <1>5, <1>6, <1>8, <1>9 DEF TypeOK
<1> QED BY <1>4, <1>10 DEF ChainInv

\* The samples, the state and the clocks of the breaker have their types.
SamplesOK == samples \in Seq(SampleSet) /\ Len(samples) <= MaxSamples /\ InOrder(samples)
ClockOK   == state \in States /\ cooling \in 0 .. Cooldown /\ sinceTrip \in 0 .. Cooldown

\* The types, in parts the steps disturb one at a time.
LEMMA TypeParts == TypeOK =>
    /\ SamplesOK /\ ClockOK
    /\ dailyPnl \in Int /\ equity \in Int
    /\ {resetToday, rolloverDue, quiet, cleared} \subseteq BOOLEAN
    /\ read \in [Feeders -> Int \cup {None}]
    /\ capital \in Capitals /\ lastCapital \in Capitals \cup {0}
    /\ moves \in 0 .. MaxMoves /\ days \in 0 .. MaxDays
  BY LenProperties DEF TypeOK, SamplesOK, ClockOK, SampleSet, InOrder

\* The parts make the types.
LEMMA TypeWhole ==
    ASSUME SamplesOK', ClockOK',
           dailyPnl' \in Int, equity' \in Int,
           resetToday' \in BOOLEAN, rolloverDue' \in BOOLEAN,
           quiet' \in BOOLEAN, cleared' \in BOOLEAN,
           read' \in [Feeders -> Int \cup {None}],
           capital' \in Capitals, lastCapital' \in Capitals \cup {0},
           moves' \in 0 .. MaxMoves, days' \in 0 .. MaxDays
    PROVE  TypeOK'
<1>1. \A i, j \in DOMAIN samples' : i < j => samples'[i].age >= samples'[j].age
  BY LenProperties DEF SamplesOK, InOrder
<1> QED BY <1>1 DEF TypeOK, SamplesOK, ClockOK, SampleSet

\* A transition leaves a state and two clocks.
LEMMA TransitionType ==
    ASSUME ClockOK, NEW new \in States, Transition(new)
    PROVE  ClockOK'
  BY LossAssumption DEF ClockOK, Transition, Cooling, States

\* Every step keeps the types, and before the first midnight the chain.
LEMMA ChainStep == ChainInv /\ [Next]_vars => ChainInv'
<1> SUFFICES ASSUME ChainInv, [Next]_vars PROVE ChainInv'
  OBVIOUS
<1> USE DEF breaker, tracker, world
<1>0. /\ Moves \subseteq Int /\ Capitals \subseteq Int
      /\ Window \in Nat \ {0} /\ Cooldown \in Nat \ {0}
      /\ MaxSamples \in Nat /\ MaxMoves \in Nat /\ MaxDays \in Nat
      /\ None \notin Int
  BY LossAssumption
<1>t. /\ SamplesOK /\ ClockOK
      /\ dailyPnl \in Int /\ equity \in Int
      /\ resetToday \in BOOLEAN /\ rolloverDue \in BOOLEAN
      /\ quiet \in BOOLEAN /\ cleared \in BOOLEAN
      /\ read \in [Feeders -> Int \cup {None}]
      /\ capital \in Capitals /\ lastCapital \in Capitals \cup {0}
      /\ moves \in 0 .. MaxMoves /\ days \in 0 .. MaxDays
  BY TypeParts DEF ChainInv
<1>c. days = 0 => resetToday /\ ~rolloverDue /\ Chained(samples, dailyPnl)
  BY DEF ChainInv
<1>s. UNCHANGED samples => SamplesOK'
  BY <1>t DEF SamplesOK, InOrder
<1>k. UNCHANGED <<state, cooling, sinceTrip>> => ClockOK'
  BY <1>t DEF ClockOK
<1>h. UNCHANGED <<samples, dailyPnl>> => (Chained(samples, dailyPnl) => Chained(samples, dailyPnl)')
  BY DEF Chained
<1>1. ASSUME NEW f \in Feeders, ReadEquity(f) PROVE ChainInv'
  <2>1. read' \in [Feeders -> Int \cup {None}]
    BY <1>1, <1>t DEF ReadEquity
  <2>2. TypeOK'
    BY <1>1, <1>s, <1>k, <1>t, <2>1, TypeWhole DEF ReadEquity
  <2> QED BY <1>1, <1>c, <1>h, <2>2 DEF ReadEquity, ChainInv
<1>2. ASSUME NEW f \in Feeders, Update(f) PROVE ChainInv'
  <2> DEFINE loss == Delta(read[f])
             p == Purged(samples)
             x == Sample(loss)
             new == CASE state = "CLOSED" /\ Exceeds(Recorded(loss), capital) -> "OPEN"
                      [] state = "OPEN" /\ Recovered(Recorded(loss), capital) -> "COOLDOWN"
                      [] OTHER -> state
  <2>1. /\ read[f] \in Int /\ dailyPnl' = read[f] /\ read' = [read EXCEPT ![f] = None]
        /\ UNCHANGED <<resetToday, world>>
        /\ samples' = Append(p, x) /\ Len(samples') <= MaxSamples
        /\ lastCapital' = capital /\ cleared' \in BOOLEAN
        /\ Transition(new)
    BY <1>2, <1>t DEF Update, RecordLoss, Recorded
  <2>2. new \in States
    BY <1>t DEF ClockOK, States
  <2>3. loss \in Int /\ dailyPnl' = dailyPnl + loss
        /\ x = [age |-> 0, loss |-> loss, before |-> dailyPnl]
    BY <2>1, <1>t DEF Delta, Sample
  <2> HIDE DEF new, loss, x
  <2>4. /\ p \in Seq(SampleSet) /\ InOrder(p)
        /\ Chained(samples, dailyPnl) => Chained(p, dailyPnl)
    BY <1>t, PurgedIsChained DEF SamplesOK
  <2> HIDE DEF p
  <2>5. /\ Append(p, x) \in Seq(SampleSet) /\ InOrder(Append(p, x))
        /\ Chained(p, dailyPnl) => Chained(Append(p, x), dailyPnl + loss)
    BY <1>t, <2>3, <2>4, RecordedIsChained
  <2>6. SamplesOK'
    BY <2>1, <2>5 DEF SamplesOK, InOrder
  <2>7. ClockOK'
    BY <1>t, <2>1, <2>2, TransitionType
  <2>8. read' \in [Feeders -> Int \cup {None}]
    BY <2>1, <1>t
  <2>9. TypeOK'
    BY <1>t, <2>1, <2>6, <2>7, <2>8, TypeWhole
  <2>10. Chained(samples, dailyPnl) => Chained(samples, dailyPnl)'
    BY <2>1, <2>3, <2>4, <2>5 DEF Chained
  <2> QED BY <1>c, <2>1, <2>9, <2>10 DEF ChainInv
<1>3. CASE CheckOrder
  <2>1. AfterAllow \in States
    BY <1>t DEF AfterAllow, ClockOK, States
  <2>2. ClockOK'
    BY <1>3, <1>t, <2>1, TransitionType DEF CheckOrder
  <2>3. dailyPnl' \in Int /\ resetToday' \in BOOLEAN
        /\ (resetToday => dailyPnl' = dailyPnl /\ resetToday')
    <3>1. \/ dailyPnl' = CheckedPnl /\ resetToday' = TRUE
          \/ dailyPnl' = dailyPnl /\ resetToday' = resetToday
      BY <1>3 DEF CheckOrder, tracker
    <3>2. CheckedPnl \in {dailyPnl, 0} /\ (resetToday => CheckedPnl = dailyPnl)
      BY DEF CheckedPnl
    <3>3. CASE dailyPnl' = CheckedPnl /\ resetToday' = TRUE
      BY <1>t, <3>2, <3>3
    <3>4. CASE dailyPnl' = dailyPnl /\ resetToday' = resetToday
      BY <1>t, <3>4
    <3> QED BY <3>1, <3>3, <3>4
  <2>4. TypeOK'
    BY <1>3, <1>s, <1>t, <2>2, <2>3, TypeWhole DEF CheckOrder
  <2> QED BY <1>3, <1>c, <1>h, <2>3, <2>4 DEF CheckOrder, ChainInv
<1>4. CASE OperatorReset
  <2> DEFINE new == IF state = "OPEN" THEN "COOLDOWN" ELSE "CLOSED"
  <2>1. new \in States /\ Transition(new) /\ cleared' \in BOOLEAN
    BY <1>4, <1>t DEF OperatorReset, States
  <2>2. ClockOK'
    BY <1>t, <2>1, TransitionType
  <2>3. TypeOK'
    BY <1>4, <1>s, <1>t, <2>1, <2>2, TypeWhole DEF OperatorReset
  <2> QED BY <1>4, <1>c, <1>h, <2>3 DEF OperatorReset, ChainInv
<1>5. CASE Midnight
  <2>1. days' \in 0 .. MaxDays /\ days' # 0 /\ quiet' \in BOOLEAN
    BY <1>0, <1>5, <1>t DEF Midnight
  <2>2. TypeOK'
    BY <1>5, <1>s, <1>k, <1>t, <2>1, TypeWhole DEF Midnight
  <2> QED BY <2>1, <2>2 DEF ChainInv
<1>6. CASE Rollover
  <2>1. dailyPnl' = 0 /\ (resetToday' = TRUE) /\ (rolloverDue' = FALSE)
    BY <1>6, Zenon DEF Rollover
  <2>2. resetToday' \in BOOLEAN /\ rolloverDue' \in BOOLEAN
    BY <2>1, Zenon
  <2>3. dailyPnl' \in Int
    BY <2>1
  <2>4. UNCHANGED <<breaker, equity, capital, moves, days, quiet, read>>
    BY <1>6 DEF Rollover
  <2>5. TypeOK'
    BY <1>s, <1>k, <1>t, <2>2, <2>3, <2>4, TypeWhole
  <2>6. days' # 0
    BY <1>6, <1>c DEF Rollover
  <2> QED BY <2>5, <2>6 DEF ChainInv
<1>7. CASE Tick
  <2>1. /\ samples' \in Seq(SampleSet) /\ Len(samples') = Len(samples) /\ InOrder(samples')
        /\ \A total : Chained(samples, total) => Chained(samples', total)
    BY <1>7, <1>t, OlderSamples DEF Tick, SamplesOK
  <2>2. SamplesOK'
    BY <1>t, <2>1 DEF SamplesOK, InOrder
  <2>3. ClockOK'
    BY <1>0, <1>7, <1>t DEF Tick, ClockOK, Older
  <2>4. TypeOK'
    BY <1>7, <1>t, <2>2, <2>3, TypeWhole DEF Tick
  <2>5. Chained(samples, dailyPnl) => Chained(samples, dailyPnl)'
    BY <1>7, <2>1 DEF Tick, Chained
  <2> QED BY <1>7, <1>c, <2>4, <2>5 DEF Tick, ChainInv
<1>8. ASSUME NEW m \in Moves, NEW c \in Capitals, Market(m, c) PROVE ChainInv'
  <2>1. equity' \in Int /\ moves' \in 0 .. MaxMoves
    BY <1>0, <1>8, <1>t DEF Market
  <2>2. TypeOK'
    BY <1>8, <1>s, <1>k, <1>t, <2>1, TypeWhole DEF Market
  <2> QED BY <1>8, <1>c, <1>h, <2>2 DEF Market, ChainInv
<1>9. CASE UNCHANGED vars
  <2>1. TypeOK'
    BY <1>9, <1>s, <1>k, <1>t, TypeWhole DEF vars
  <2> QED BY <1>9, <1>c, <1>h, <2>1 DEF vars, ChainInv
<1> QED BY <1>1, <1>2, <1>3, <1>4, <1>5, <1>6, <1>7, <1>8, <1>9 DEF Next

\* A chain of samples adds up to what the property says.
LEMMA ChainGivesLossInv == ChainInv => LossInv
<1> SUFFICES ASSUME ChainInv, days = 0, samples # <<>>
             PROVE  Cumulative(samples) = dailyPnl - samples[1].before
  BY DEF ChainInv, LossInv, SamplesTelescope
<1>1. samples \in Seq(SampleSet) /\ dailyPnl \in Int
  BY TypeParts DEF ChainInv, SamplesOK
<1> QED BY <1>1, ChainAddsUp DEF ChainInv

\* The rolling window of the loss circuit breaker adds up to how the daily total
\* moved over it, however the feeds of several threads overlap, whatever is
\* purged and whenever trading is halted: record_loss counts nothing twice and
\* loses nothing, until the first midnight.
THEOREM LossInvAlways == Spec => []LossInv
<1>1. Spec => []ChainInv
  BY ChainInit, ChainStep, PTL DEF Spec
<1> QED BY <1>1, ChainGivesLossInv, PTL

(***************************************************************************)
(* The reservations.                                                       *)
(***************************************************************************)
Unit(o) == Multiplier[SymbolOf[o]]

\* What the arithmetic of lots and multipliers needs.
LEMMA Products ==
    ASSUME NEW a \in Int, NEW b \in Int, NEW m \in Nat
    PROVE  /\ a * m \in Int /\ (a - b) * m = a * m - b * m
           /\ (a + b) * m = a * m + b * m
           /\ a <= b => a * m <= b * m
           /\ a >= 0 => a * m >= 0
           /\ a >= 0 /\ m > 0 => a <= a * m
  OBVIOUS

\* The size of a position after a trade.
LEMMA MagnitudeMoves ==
    ASSUME NEW p \in Int, NEW n \in Nat, NEW g \in {1, -1}
    PROVE  /\ Magnitude(p) \in Nat /\ Magnitude(p + g * n) \in Nat
           /\ Magnitude(p + g * n) <= Magnitude(p) + n
  BY DEF Magnitude

\* What the assumption says of an order.
LEMMA OrderTypes ==
    ASSUME NEW o \in Orders
    PROVE  /\ SymbolOf[o] \in Symbols /\ Unit(o) \in Nat \ {0}
           /\ Lots[o] \in Nat \ {0} /\ Sign[o] \in {1, -1}
           /\ Notional(o) \in Nat \ {0} /\ Notional(o) = Lots[o] * Unit(o)
<1>1. /\ SymbolOf[o] \in Symbols /\ Unit(o) \in Nat \ {0}
      /\ Lots[o] \in Nat \ {0} /\ Sign[o] \in {1, -1}
  BY ExposureAssumption DEF Unit
<1>2. Notional(o) = Lots[o] * Unit(o)
  BY DEF Notional, Unit
<1>3. Lots[o] <= Lots[o] * Unit(o) /\ Lots[o] * Unit(o) \in Int
  BY <1>1, Products
<1> QED BY <1>1, <1>2, <1>3

\* What an order may still be filled with: all of it before the first fill.
LEMMA OpenTypes ==
    ASSUME ExposureTypeOK, NEW o \in Orders
    PROVE  /\ OpenNotional(o) \in Nat /\ OpenNotional(o) <= Notional(o)
           /\ OpenNotional(o) = (Lots[o] - filled[o]) * Unit(o)
           /\ filled[o] = 0 => OpenNotional(o) = Notional(o)
<1>1. filled[o] \in 0 .. Lots[o]
  BY OrderTypes DEF ExposureTypeOK
<1>2. OpenNotional(o) = (Lots[o] - filled[o]) * Unit(o)
  BY DEF OpenNotional, Remaining, Unit
<1> DEFINE a == Lots[o] - filled[o]
           m == Unit(o)
           l == Lots[o]
<1>3. a \in Int /\ a >= 0 /\ a <= l /\ l \in Int /\ m \in Nat /\ Notional(o) = l * m
  BY <1>1, OrderTypes
<1>4. filled[o] = 0 => a = l
  BY <1>3
<1>5. OpenNotional(o) = a * m
  BY <1>2
<1> HIDE DEF a, m, l
<1>6. a * m \in Int /\ a * m >= 0 /\ a * m <= l * m
  BY <1>3, Products
<1> QED BY <1>2, <1>3, <1>4, <1>5, <1>6

\* A sweep leaves an amount no larger than the order.
LEMMA SweptTypes ==
    ASSUME ExposureTypeOK
    PROVE  \A o \in Orders : Swept(o) \in Nat /\ Swept(o) <= Notional(o)
  BY OrderTypes DEF Swept, ExposureTypeOK

\* What the check reads are amounts.
LEMMA ReadTypes ==
    ASSUME ExposureTypeOK
    PROVE  /\ \A s \in Symbols : BookNotional(s) \in Nat
           /\ GrossPositions \in Nat
           /\ \A s \in Symbols : PendingSymbol(s) \in Nat
           /\ PendingGross \in Nat
<1>1. ASSUME NEW s \in Symbols PROVE BookNotional(s) \in Nat
  <2>1. position[s] \in Int
    BY DEF ExposureTypeOK
  <2> QED BY <2>1 DEF BookNotional, Magnitude
<1>2. GrossPositions \in Nat
  <2> DEFINE f == [s \in Symbols |-> BookNotional(s)]
  <2>1. \A s \in Symbols : f[s] \in Nat
    BY <1>1
  <2>2. GrossPositions = SumFunctionOnSet(f, Symbols)
    BY DEF GrossPositions
  <2> HIDE DEF f
  <2> QED BY <2>1, <2>2, SumType, ExposureAssumption
<1> DEFINE g == [o \in Orders |-> Swept(o)]
<1>3. \A o \in Orders : g[o] \in Nat
  BY SweptTypes
<1>4. /\ PendingGross = SumFunctionOnSet(g, Orders)
      /\ \A s : PendingSymbol(s) = SumFunctionOnSet(g, {o \in dated \ aged : SymbolOf[o] = s})
  BY DEF PendingGross, PendingSymbol
<1> HIDE DEF g
<1>5. PendingGross \in Nat
  BY <1>3, <1>4, SumType, ExposureAssumption
<1>6. ASSUME NEW s \in Symbols PROVE PendingSymbol(s) \in Nat
  <2> DEFINE T == {o \in dated \ aged : SymbolOf[o] = s}
  <2>1. T \subseteq Orders
    BY DEF ExposureTypeOK
  <2>2. IsFiniteSet(T)
    BY <2>1, FS_Subset, ExposureAssumption
  <2>3. \A o \in T : g[o] \in Nat
    BY <1>3, <2>1
  <2>4. PendingSymbol(s) = SumFunctionOnSet(g, T)
    BY <1>4
  <2> HIDE DEF T
  <2> QED BY <2>2, <2>3, <2>4, SumType
<1> QED BY <1>1, <1>2, <1>5, <1>6

-----------------------------------------------------------------------------
Checking == {"symbol", "positions", "decide"}

\* The order under the lock is the one being checked, the venue has no order
\* that was not sent, an order it does not have was not filled unless it was
\* cancelled, and the feed is with an order it does have.
Ordered ==
    /\ \A o \in Orders : pc[o] \in Checking <=> riskLock = o
    /\ \A o \in atVenue : pc[o] \in {"sending", "open", "failed"}
    /\ \A o \in Orders \ atVenue :
           pc[o] \notin {"open", "cancelled"} => filled[o] = 0
    /\ feed.step # "idle" => feed.order \in atVenue
    /\ feed.step = "write" => feed.read <= Notional(feed.order)

\* The lots between the position and the reservation.
InFlight(o) == IF feed.step # "idle" /\ feed.order = o THEN feed.lots ELSE 0

\* While a fill is between the position and the reservation, the reservation
\* still covers it, and what the feed thread has read is what is there.
CoversOrder(o) ==
    o \notin lapsed \cup forgotten /\ pc[o] # "failed" =>
        /\ pending[o] >= Unbooked(o) + InFlight(o)
        /\ feed.step = "write" /\ feed.order = o => feed.read = pending[o]

ReserveInv == ExposureTypeOK /\ Ordered /\ \A o \in Orders : CoversOrder(o)

\* What of the worth of its fills the book does not count.
Hidden(o) == filled[o] * (Unit(o) - 1)

\* What an order is worth without the lots the book counts, while it works, and
\* what the book does not count of it, when it does not.
UnbookedOK ==
    \A o \in Orders :
        /\ Hidden(o) \in Nat /\ Unbooked(o) \in Nat /\ Hidden(o) <= Unbooked(o)
        /\ Unbooked(o) = (IF o \in Working THEN OpenNotional(o) ELSE 0) + Hidden(o)
        /\ o \in Working => Unbooked(o) = Notional(o) - filled[o]
        /\ o \notin Working \/ Remaining(o) = 0 => Unbooked(o) = Hidden(o)
        /\ filled[o] = 0 \/ Unit(o) = 1 => Hidden(o) = 0

LEMMA UnbookedTypes == ExposureTypeOK => UnbookedOK
<1> SUFFICES ASSUME ExposureTypeOK, NEW o \in Orders
             PROVE  /\ Hidden(o) \in Nat /\ Unbooked(o) \in Nat /\ Hidden(o) <= Unbooked(o)
                    /\ Unbooked(o) = (IF o \in Working THEN OpenNotional(o) ELSE 0) + Hidden(o)
                    /\ o \in Working => Unbooked(o) = Notional(o) - filled[o]
                    /\ o \notin Working \/ Remaining(o) = 0 => Unbooked(o) = Hidden(o)
                    /\ filled[o] = 0 \/ Unit(o) = 1 => Hidden(o) = 0
  BY DEF UnbookedOK
<1> DEFINE f == filled[o]
           l == Lots[o]
           m == Unit(o)
<1>1. /\ f \in Nat /\ l \in Nat /\ f <= l /\ m \in Nat /\ m >= 1 /\ Notional(o) = l * m
      /\ Remaining(o) = l - f
  BY OrderTypes DEF ExposureTypeOK, Remaining
<1>2. /\ OpenNotional(o) \in Nat /\ OpenNotional(o) = (l - f) * m
  BY OpenTypes
<1>3. Hidden(o) = f * (m - 1) /\ Unbooked(o) = (IF o \in Working THEN OpenNotional(o) ELSE 0) + Hidden(o)
  BY DEF Hidden, Unbooked, Unit
<1> HIDE DEF f, l, m
<1>4. f * (m - 1) = f * m - f /\ f * (m - 1) \in Nat /\ f * m \in Int /\ l * m \in Int
  <2>1. m - 1 \in Nat
    BY <1>1
  <2>2. f * (m - 1) \in Int /\ f * (m - 1) >= 0
    BY <1>1, <2>1, Products
  <2>3. f * (m - 1) = f * m - f /\ f * m \in Int /\ l * m \in Int
    BY <1>1
  <2> QED BY <2>2, <2>3
<1>5. (l - f) * m = l * m - f * m
  BY <1>1, Products
<1>6. f = 0 \/ m = 1 => Hidden(o) = 0
  BY <1>1, <1>3
<1>7. Remaining(o) = 0 => OpenNotional(o) = 0
  BY <1>1, <1>2
<1> QED BY <1>1, <1>2, <1>3, <1>4, <1>5, <1>6, <1>7 DEF f, l, m

\* The same of the state after a step.
LEMMA UnbookedTypesAfter == ExposureTypeOK' => UnbookedOK'
  BY UnbookedTypes, PTL

\* A step that fills nothing of an order and does not put it to work.
LEMMA UnbookedStays ==
    ASSUME ExposureTypeOK, ExposureTypeOK', NEW o \in Orders, filled'[o] = filled[o],
           o \in Working' => o \in Working
    PROVE  Unbooked(o)' <= Unbooked(o)
<1>1. Hidden(o)' = Hidden(o)
  BY DEF Hidden, Unit
<1>2. Notional(o)' = Notional(o) /\ Notional(o) \in Nat /\ filled[o] \in Nat
  BY OrderTypes DEF Notional, ExposureTypeOK
<1>3. UnbookedOK /\ UnbookedOK'
  BY UnbookedTypes, UnbookedTypesAfter
<1>4. CASE o \in Working'
  BY <1>2, <1>3, <1>4 DEF UnbookedOK
<1>5. CASE o \notin Working'
  BY <1>1, <1>3, <1>5 DEF UnbookedOK
<1> QED BY <1>4, <1>5

\* A trade of a working order leaves its lots to the book.
LEMMA UnbookedTraded ==
    ASSUME ExposureTypeOK, ExposureTypeOK', NEW o \in Working, NEW n \in 1 .. Lots[o],
           RecordTrade(o, n)
    PROVE  /\ Unbooked(o)' = Unbooked(o) - n
           /\ \A x \in Orders \ {o} : Unbooked(x)' = Unbooked(x)
<1>0. o \in Orders /\ Lots[o] \in Nat
  BY OrderTypes DEF Working
<1>1. UNCHANGED pc /\ filled' = [filled EXCEPT ![o] = @ + n] /\ filled \in [Orders -> Nat]
  BY DEF RecordTrade, ExposureTypeOK
<1>2. Working' = Working
  BY <1>1 DEF Working
<1>3. UnbookedOK /\ UnbookedOK'
  BY UnbookedTypes, UnbookedTypesAfter
<1>4. filled'[o] = filled[o] + n /\ \A x \in Orders \ {o} : filled'[x] = filled[x]
  BY <1>0, <1>1
<1>5. Unbooked(o)' = Unbooked(o) - n
  <2>1. Notional(o)' = Notional(o) /\ Notional(o) \in Nat /\ filled[o] \in Nat
    BY <1>0, <1>1, OrderTypes DEF Notional
  <2>2. Unbooked(o) = Notional(o) - filled[o] /\ Unbooked(o)' = Notional(o)' - filled'[o]
    BY <1>0, <1>2, <1>3 DEF UnbookedOK
  <2> QED BY <1>0, <1>4, <2>1, <2>2
<1>6. \A x \in Orders \ {o} : Unbooked(x)' = Unbooked(x)
  BY <1>2, <1>4 DEF Unbooked, OpenNotional, Remaining
<1> QED BY <1>5, <1>6

\* A reservation the sweep may remove without a trace stands for nothing.
Harmless(o) ==
    /\ ~(o \in Working /\ (Remaining(o) > 0 \/ feed.order = o))
    /\ ~(filled[o] > 0 /\ Multiplier[SymbolOf[o]] > 1)

LEMMA HarmlessStandsForNothing ==
    ASSUME ReserveInv, NEW o \in Orders, Harmless(o), pc[o] # "failed"
    PROVE  Unbooked(o) = 0 /\ InFlight(o) = 0 /\ ~(feed.step # "idle" /\ feed.order = o)
<1>t. ExposureTypeOK /\ Ordered /\ UnbookedOK
  BY UnbookedTypes DEF ReserveInv
<1>1. ~(feed.step # "idle" /\ feed.order = o)
  BY <1>t DEF Harmless, Ordered, Working
<1>2. filled[o] = 0 \/ Unit(o) = 1
  BY <1>t, OrderTypes DEF Harmless, ExposureTypeOK, Unit
<1>3. o \notin Working \/ Remaining(o) = 0
  <2>1. Remaining(o) \in Nat
    BY <1>t, OrderTypes DEF ExposureTypeOK, Remaining
  <2> QED BY <2>1 DEF Harmless
<1>4. Unbooked(o) = 0
  BY <1>t, <1>2, <1>3 DEF UnbookedOK
<1> QED BY <1>1, <1>4 DEF InFlight

\* The types are kept by every step.
LEMMA ExposureTypeStep ==
    ReserveInv /\ [ExposureNext]_exposureVars => ExposureTypeOK'
<1> SUFFICES ASSUME ReserveInv, [ExposureNext]_exposureVars PROVE ExposureTypeOK'
  OBVIOUS
<1>t. ExposureTypeOK /\ Ordered
  BY DEF ReserveInv
<1> USE DEF ExposureTypeOK, swept
<1>s. \A R : Sweep(R) /\ DOMAIN R \subseteq Orders
               /\ (\A o \in DOMAIN R : R[o] \in Nat /\ R[o] <= Notional(o)) =>
           /\ pending' \in [Orders -> Nat] /\ dated' \subseteq Orders /\ aged' \subseteq dated'
           /\ \A o \in Orders : pending'[o] <= Notional(o)
           /\ lapsed' \subseteq Orders /\ forgotten' \subseteq Orders
  BY <1>t, SweptTypes DEF Sweep
<1>r. \A o \in Orders : ReleasePending(o) =>
           /\ pending' \in [Orders -> Nat] /\ dated' \subseteq Orders /\ aged' \subseteq dated'
           /\ \A x \in Orders : pending'[x] <= Notional(x)
  <2> SUFFICES ASSUME NEW o \in Orders, ReleasePending(o)
               PROVE  /\ pending' \in [Orders -> Nat] /\ dated' \subseteq Orders
                      /\ aged' \subseteq dated'
                      /\ \A x \in Orders : pending'[x] <= Notional(x)
    OBVIOUS
  <2>1. Notional(o) >= 0
    BY OrderTypes
  <2> QED BY <1>t, <2>1 DEF ReleasePending
<1>1. ASSUME NEW o \in Orders, BeginCheck(o) PROVE ExposureTypeOK'
  <2>1. BookNotional(SymbolOf[o]) \in Nat
    BY <1>t, ReadTypes, OrderTypes
  <2> QED BY <1>1, <1>t, <2>1 DEF BeginCheck, Goto, Phases
<1>2. ASSUME NEW o \in Orders, ReadPendingSymbol(o) PROVE ExposureTypeOK'
  <2>1. PendingSymbol(SymbolOf[o]) \in Nat
    BY <1>t, ReadTypes, OrderTypes
  <2>2. DOMAIN Nothing = {}
    BY DEF Nothing
  <2>3. /\ pending' \in [Orders -> Nat] /\ dated' \subseteq Orders /\ aged' \subseteq dated'
        /\ \A x \in Orders : pending'[x] <= Notional(x)
        /\ lapsed' \subseteq Orders /\ forgotten' \subseteq Orders
    BY <1>2, <1>s, <2>2 DEF ReadPendingSymbol
  <2> QED BY <1>2, <1>t, <2>1, <2>3 DEF ReadPendingSymbol, Goto, Phases
<1>3. ASSUME NEW o \in Orders, ReadPositions(o) PROVE ExposureTypeOK'
  <2>1. GrossPositions \in Nat
    BY <1>t, ReadTypes
  <2> QED BY <1>3, <1>t, <2>1 DEF ReadPositions, Goto, Phases
<1>4. ASSUME NEW o \in Orders, Approve(o) PROVE ExposureTypeOK'
  <2> DEFINE R == [x \in {o} |-> Notional(o)]
  <2>1. DOMAIN R = {o} /\ \A x \in {o} : R[x] \in Nat /\ R[x] <= Notional(x)
    BY OrderTypes
  <2>2. Sweep(R)
    BY <1>4 DEF Approve
  <2> HIDE DEF R
  <2>3. /\ pending' \in [Orders -> Nat] /\ dated' \subseteq Orders /\ aged' \subseteq dated'
        /\ \A x \in Orders : pending'[x] <= Notional(x)
        /\ lapsed' \subseteq Orders /\ forgotten' \subseteq Orders
    BY <1>s, <2>1, <2>2
  <2> QED BY <1>4, <1>t, <2>3 DEF Approve, Goto, Phases, NoReads
<1>5. ASSUME NEW o \in Orders, Reject(o) PROVE ExposureTypeOK'
  BY <1>5, <1>r, <1>t DEF Reject, Goto, Phases, NoReads
<1>6. ASSUME NEW o \in Orders, VenueAccepts(o) \/ SubmitReturns(o) \/ VenueCancels(o)
      PROVE  ExposureTypeOK'
  BY <1>6, <1>t DEF VenueAccepts, SubmitReturns, VenueCancels, Goto, Phases
<1>7. ASSUME NEW o \in Orders, SubmitFails(o) PROVE ExposureTypeOK'
  BY <1>7, <1>r, <1>t DEF SubmitFails, Goto, Phases
<1>8. ASSUME NEW o \in Orders, Age(o) PROVE ExposureTypeOK'
  BY <1>8, <1>t DEF Age
<1>9. ASSUME NEW o \in Orders, NEW n \in 1 .. Lots[o], RecordTrade(o, n) PROVE ExposureTypeOK'
  <2>1. /\ SymbolOf[o] \in Symbols /\ Lots[o] \in Nat /\ Sign[o] \in {1, -1}
        /\ n \in Nat /\ n >= 1 /\ n <= Lots[o] - filled[o]
    BY <1>9, OrderTypes DEF RecordTrade, Remaining
  <2>2. filled' \in [Orders -> Nat] /\ \A x \in Orders : filled'[x] <= Lots[x]
    BY <1>9, <1>t, <2>1 DEF RecordTrade
  <2>3. Sign[o] * n \in Int
    BY <2>1
  <2>4. position' \in [Symbols -> Int]
    BY <1>9, <1>t, <2>1, <2>3 DEF RecordTrade
  <2>5. feed' \in [step : {"idle", "read", "write"}, order : Orders \cup {NoOrder},
                   lots : Nat, read : Nat, check : Orders \cup {NoOrder}]
    BY <1>9, <1>t, <2>1 DEF RecordTrade
  <2> QED BY <1>9, <1>t, <2>2, <2>4, <2>5 DEF RecordTrade
<1>10. CASE ReduceReads
  <2>1. feed.order \in Orders
    BY <1>10, <1>t DEF ReduceReads, Ordered
  <2>2. pending[feed.order] \in Nat
    BY <1>t, <2>1
  <2>3. feed' \in [step : {"idle", "read", "write"}, order : Orders \cup {NoOrder},
                   lots : Nat, read : Nat, check : Orders \cup {NoOrder}]
    BY <1>10, <1>t, <2>2 DEF ReduceReads
  <2> QED BY <1>10, <1>t, <2>3 DEF ReduceReads
<1>11. CASE ReduceWrites
  <2>1. feed.order \in Orders /\ feed.read <= Notional(feed.order) /\ feed.lots \in Nat
        /\ feed.read \in Nat
    BY <1>11, <1>t DEF ReduceWrites, Ordered
  <2>2. Notional(feed.order) \in Nat
    BY <2>1, OrderTypes
  <2>3. Reduced(feed) \in Nat /\ Reduced(feed) <= Notional(feed.order)
    BY <2>1, <2>2 DEF Reduced
  <2>4. /\ pending' \in [Orders -> Nat] /\ dated' \subseteq Orders /\ aged' \subseteq dated'
        /\ \A x \in Orders : pending'[x] <= Notional(x)
    <3>1. CASE Reduced(feed) = 0
      BY <1>11, <1>r, <2>1, <3>1 DEF ReduceWrites
    <3>2. CASE Reduced(feed) # 0
      BY <1>11, <1>t, <2>1, <2>3, <3>2 DEF ReduceWrites
    <3> QED BY <3>1, <3>2
  <2>5. feed' = Idle /\ torn' \in BOOLEAN
    BY <1>11, <1>t DEF ReduceWrites
  <2> QED BY <1>11, <1>t, <2>4, <2>5 DEF ReduceWrites, Idle
<1>12. CASE UNCHANGED exposureVars
  BY <1>12, <1>t DEF exposureVars
<1> QED
  BY <1>1, <1>2, <1>3, <1>4, <1>5, <1>6, <1>7, <1>8, <1>9, <1>10, <1>11, <1>12
  DEF ExposureNext

\* Every step keeps the lock, the venue and the feed in step.
LEMMA OrderedStep == ReserveInv /\ [ExposureNext]_exposureVars => Ordered'
<1> SUFFICES ASSUME ReserveInv, [ExposureNext]_exposureVars PROVE Ordered'
  OBVIOUS
<1>t. ExposureTypeOK /\ Ordered
  BY DEF ReserveInv
<1>p. /\ pc \in [Orders -> Phases] /\ riskLock \in Orders \cup {NoOrder} /\ atVenue \subseteq Orders
      /\ NoOrder \notin Orders /\ filled \in [Orders -> Nat]
  BY <1>t, ExposureAssumption DEF ExposureTypeOK
<1> USE DEF Ordered, Checking
<1>0. ASSUME UNCHANGED <<pc, riskLock, atVenue, filled, feed>> PROVE Ordered'
  BY <1>0, <1>t DEF Notional
<1>1. ASSUME NEW o \in Orders, BeginCheck(o) PROVE Ordered'
  BY <1>1, <1>t, <1>p DEF BeginCheck, Goto, Notional
<1>2. ASSUME NEW o \in Orders, ReadPendingSymbol(o) PROVE Ordered'
  BY <1>2, <1>t, <1>p DEF ReadPendingSymbol, Goto, Notional
<1>3. ASSUME NEW o \in Orders, ReadPositions(o) PROVE Ordered'
  BY <1>3, <1>t, <1>p DEF ReadPositions, Goto, Notional
<1>4. ASSUME NEW o \in Orders, Approve(o) PROVE Ordered'
  BY <1>4, <1>t, <1>p DEF Approve, Goto, Notional
<1>5. ASSUME NEW o \in Orders, Reject(o) PROVE Ordered'
  BY <1>5, <1>t, <1>p DEF Reject, Goto, Notional
<1>6. ASSUME NEW o \in Orders, VenueAccepts(o) PROVE Ordered'
  BY <1>6, <1>t, <1>p DEF VenueAccepts, Notional
<1>7. ASSUME NEW o \in Orders, SubmitReturns(o) PROVE Ordered'
  BY <1>7, <1>t, <1>p DEF SubmitReturns, Goto, Notional
<1>8. ASSUME NEW o \in Orders, VenueCancels(o) PROVE Ordered'
  BY <1>8, <1>t, <1>p DEF VenueCancels, Goto, Notional
<1>9. ASSUME NEW o \in Orders, SubmitFails(o) PROVE Ordered'
  BY <1>9, <1>t, <1>p DEF SubmitFails, Goto, Notional
<1>10. ASSUME NEW o \in Orders, Age(o) PROVE Ordered'
  BY <1>0, <1>10 DEF Age
<1>11. ASSUME NEW o \in Orders, NEW n \in 1 .. Lots[o], RecordTrade(o, n) PROVE Ordered'
  <2>1. /\ o \in atVenue /\ feed'.step = "read" /\ feed'.order = o
        /\ filled' = [filled EXCEPT ![o] = @ + n]
        /\ UNCHANGED <<pc, riskLock, atVenue>>
    BY <1>11 DEF RecordTrade
  <2>2. \A x \in Orders \ atVenue : filled'[x] = filled[x]
    BY <1>p, <2>1
  <2> QED BY <1>t, <2>1, <2>2
<1>12. CASE ReduceReads
  <2>1. /\ feed.order \in atVenue /\ feed'.order = feed.order /\ feed'.step = "write"
        /\ feed'.read = pending[feed.order]
        /\ UNCHANGED <<pc, riskLock, atVenue, filled>>
    BY <1>12, <1>t DEF ReduceReads, ExposureTypeOK
  <2>2. feed'.read <= Notional(feed.order)
    BY <1>p, <1>t, <2>1 DEF ExposureTypeOK
  <2>3. Notional(feed.order)' = Notional(feed.order)
    BY <2>1 DEF Notional
  <2> QED BY <1>t, <2>1, <2>2, <2>3
<1>13. CASE ReduceWrites
  BY <1>13, <1>t DEF ReduceWrites, Idle
<1>14. CASE UNCHANGED exposureVars
  BY <1>0, <1>14 DEF exposureVars
<1> QED
  BY <1>1, <1>2, <1>3, <1>4, <1>5, <1>6, <1>7, <1>8, <1>9, <1>10, <1>11, <1>12, <1>13, <1>14
  DEF ExposureNext

\* No step takes more from a reservation than was filled.
LEMMA CoversStep ==
    ReserveInv /\ [ExposureNext]_exposureVars => \A x \in Orders : CoversOrder(x)'
<1> SUFFICES ASSUME ReserveInv, [ExposureNext]_exposureVars
             PROVE  \A x \in Orders : CoversOrder(x)'
  OBVIOUS
<1>t. /\ ExposureTypeOK /\ Ordered /\ \A x \in Orders : CoversOrder(x)
      /\ ExposureTypeOK' /\ UnbookedOK /\ UnbookedOK'
  BY ExposureTypeStep, UnbookedTypes, UnbookedTypesAfter DEF ReserveInv
<1>p. /\ pc \in [Orders -> Phases] /\ atVenue \subseteq Orders /\ pending \in [Orders -> Nat]
      /\ filled \in [Orders -> Nat] /\ NoOrder \notin Orders /\ feed.lots \in Nat
      /\ \A x \in Orders : /\ Unbooked(x) \in Nat /\ Unbooked(x)' \in Nat
                           /\ pending[x] \in Nat /\ pending'[x] \in Nat
  BY <1>t, ExposureAssumption DEF ExposureTypeOK, UnbookedOK
<1>w. \A x \in Orders : /\ x \in Working' <=> pc'[x] \in {"sending", "open"}
                        /\ x \in Working <=> pc[x] \in {"sending", "open"}
  BY DEF Working
\* An order whose reservation, fills and feed stay, and that was working before.
<1>0. ASSUME NEW x \in Orders, pending'[x] = pending[x], filled'[x] = filled[x],
             UNCHANGED feed, lapsed \subseteq lapsed', forgotten \subseteq forgotten',
             x \in Working' => x \in Working, pc'[x] # "failed" => pc[x] # "failed"
      PROVE  CoversOrder(x)'
  <2>1. Unbooked(x)' <= Unbooked(x)
    BY <1>0, <1>t, UnbookedStays
  <2>2. InFlight(x)' = InFlight(x) /\ InFlight(x) \in Nat
    BY <1>0, <1>p DEF InFlight
  <2>3. CoversOrder(x)
    BY <1>t
  <2> QED BY <1>0, <1>p, <2>1, <2>2, <2>3 DEF CoversOrder
\* An order of which the sweep leaves what it leaves.
<1>s. ASSUME NEW x \in Orders, pending'[x] = Swept(x), filled'[x] = filled[x],
             UNCHANGED feed, lapsed \subseteq lapsed', forgotten \subseteq forgotten',
             x \in aged => x \in lapsed' \cup forgotten' \/ Harmless(x),
             x \in Working' => x \in Working, pc'[x] # "failed" => pc[x] # "failed"
      PROVE  CoversOrder(x)'
  <2>1. CASE x \notin aged
    BY <1>0, <1>s, <2>1 DEF Swept
  <2>2. CASE x \in aged /\ Harmless(x)
    <3> SUFFICES ASSUME pc'[x] # "failed" PROVE CoversOrder(x)'
      BY DEF CoversOrder
    <3>1. Unbooked(x) = 0 /\ InFlight(x) = 0 /\ ~(feed.step # "idle" /\ feed.order = x)
      BY <1>s, <2>2, HarmlessStandsForNothing
    <3>2. Unbooked(x)' = 0
      BY <1>p, <1>s, <1>t, <3>1, UnbookedStays
    <3>3. InFlight(x)' = 0 /\ ~(feed'.step = "write" /\ feed'.order = x)
      BY <1>s, <3>1 DEF InFlight
    <3> QED BY <1>p, <3>2, <3>3 DEF CoversOrder
  <2>3. CASE x \in lapsed' \cup forgotten'
    BY <2>3 DEF CoversOrder
  <2> QED BY <1>s, <2>1, <2>2, <2>3
<1>1. ASSUME NEW o \in Orders, BeginCheck(o) \/ ReadPositions(o) \/ VenueAccepts(o)
                                   \/ SubmitReturns(o) \/ VenueCancels(o) \/ Age(o)
      PROVE  \A x \in Orders : CoversOrder(x)'
  <2>1. UNCHANGED <<pending, filled, feed, lapsed, forgotten>>
    BY <1>1 DEF BeginCheck, ReadPositions, VenueAccepts, SubmitReturns, VenueCancels, Age, swept
  <2>2. \A x \in Orders : /\ pc'[x] \in {"sending", "open"} => pc[x] \in {"sending", "open"}
                          /\ pc'[x] # "failed" => pc[x] # "failed"
    BY <1>1, <1>p DEF BeginCheck, ReadPositions, VenueAccepts, SubmitReturns, VenueCancels, Age, Goto
  <2> QED BY <1>0, <1>w, <2>1, <2>2
<1>2. ASSUME NEW o \in Orders, ReadPendingSymbol(o) PROVE \A x \in Orders : CoversOrder(x)'
  <2>1. /\ UNCHANGED <<filled, feed>> /\ lapsed \subseteq lapsed' /\ forgotten \subseteq forgotten'
        /\ \A x \in Orders : pending'[x] = Swept(x)
        /\ \A x \in aged : x \in lapsed' \cup forgotten' \/ Harmless(x)
    BY <1>2 DEF ReadPendingSymbol, Sweep, Nothing, Harmless
  <2>2. \A x \in Orders : /\ pc'[x] \in {"sending", "open"} => pc[x] \in {"sending", "open"}
                          /\ pc'[x] # "failed" => pc[x] # "failed"
    BY <1>2, <1>p DEF ReadPendingSymbol, Goto
  <2> QED BY <1>s, <1>w, <2>1, <2>2
<1>3. ASSUME NEW o \in Orders, Approve(o) PROVE \A x \in Orders : CoversOrder(x)'
  <2>1. /\ UNCHANGED <<filled, feed>> /\ lapsed \subseteq lapsed' /\ forgotten \subseteq forgotten'
        /\ \A x \in Orders \ {o} : pending'[x] = Swept(x)
        /\ \A x \in aged : x \in lapsed' \cup forgotten' \/ Harmless(x)
        /\ pending'[o] = Notional(o)
    BY <1>3, <1>p DEF Approve, Sweep, Harmless
  <2>2. \A x \in Orders \ {o} : /\ pc'[x] \in {"sending", "open"} => pc[x] \in {"sending", "open"}
                                /\ pc'[x] # "failed" => pc[x] # "failed"
    BY <1>3, <1>p DEF Approve, Goto
  <2>4. \A x \in Orders \ {o} : CoversOrder(x)'
    BY <1>s, <1>w, <2>1, <2>2
  <2>5. pc[o] = "decide" /\ pc'[o] = "sending" /\ o \notin atVenue /\ filled[o] = 0
    BY <1>3, <1>p, <1>t DEF Approve, Ordered, Goto
  <2>6. ~(feed'.step # "idle" /\ feed'.order = o) /\ InFlight(o)' = 0
    BY <1>t, <2>1, <2>5 DEF Ordered, InFlight
  <2>7. Unbooked(o)' = Notional(o) /\ Notional(o) \in Nat
    <3>1. Unbooked(o)' = Notional(o)' - filled'[o]
      BY <1>t, <1>w, <2>5 DEF UnbookedOK
    <3>2. Notional(o)' = Notional(o)
      BY DEF Notional
    <3> QED BY <2>1, <2>5, <3>1, <3>2, OrderTypes
  <2>8. CoversOrder(o)'
    BY <2>1, <2>6, <2>7 DEF CoversOrder
  <2> QED BY <2>4, <2>8
<1>4. ASSUME NEW o \in Orders, Reject(o) PROVE \A x \in Orders : CoversOrder(x)'
  <2>1. /\ UNCHANGED <<filled, feed, lapsed, forgotten>> /\ pc'[o] = "rejected"
        /\ \A x \in Orders \ {o} : pending'[x] = pending[x] /\ pc'[x] = pc[x]
    BY <1>4, <1>p DEF Reject, ReleasePending, Goto, swept
  <2>2. pc[o] \in Checking /\ o \notin atVenue /\ filled[o] = 0
    BY <1>4, <1>t DEF Reject, Ordered, Checking
  <2>3. ~(feed'.step # "idle" /\ feed'.order = o) /\ InFlight(o)' = 0
    BY <1>t, <2>1, <2>2 DEF Ordered, InFlight
  <2>4. Unbooked(o)' = 0
    BY <1>t, <1>w, <2>1, <2>2 DEF UnbookedOK
  <2>5. CoversOrder(o)'
    BY <1>p, <2>3, <2>4 DEF CoversOrder
  <2> QED BY <1>0, <1>w, <2>1, <2>5
<1>5. ASSUME NEW o \in Orders, SubmitFails(o) PROVE \A x \in Orders : CoversOrder(x)'
  <2>1. /\ UNCHANGED <<filled, feed, lapsed, forgotten>> /\ pc'[o] = "failed"
        /\ \A x \in Orders \ {o} : pending'[x] = pending[x] /\ pc'[x] = pc[x]
    BY <1>5, <1>p DEF SubmitFails, ReleasePending, Goto, swept
  <2>2. CoversOrder(o)'
    BY <2>1 DEF CoversOrder
  <2> QED BY <1>0, <1>w, <2>1, <2>2
<1>6. ASSUME NEW o \in Orders, NEW n \in 1 .. Lots[o], RecordTrade(o, n)
      PROVE  \A x \in Orders : CoversOrder(x)'
  <2>1. /\ UNCHANGED <<pc, pending, lapsed, forgotten>> /\ feed.step = "idle" /\ o \in atVenue
        /\ feed'.step = "read" /\ feed'.order = o /\ feed'.lots = n
        /\ filled' = [filled EXCEPT ![o] = @ + n]
    BY <1>6 DEF RecordTrade, swept, Idle
  <2>2. ASSUME NEW x \in Orders \ {o} PROVE CoversOrder(x)'
    <3>1. filled'[x] = filled[x]
      BY <1>p, <2>1, <2>2
    <3>2. Unbooked(x)' <= Unbooked(x)
      BY <1>t, <1>w, <2>1, <2>2, <3>1, UnbookedStays
    <3>3. InFlight(x)' = 0 /\ InFlight(x) = 0 /\ feed'.step # "write"
      BY <2>1, <2>2 DEF InFlight
    <3>4. CoversOrder(x)
      BY <1>t, <2>2
    <3> QED BY <1>p, <2>1, <2>2, <3>2, <3>3, <3>4 DEF CoversOrder
  <2>3. CoversOrder(o)'
    <3> SUFFICES ASSUME pc'[o] # "failed", o \notin lapsed \cup forgotten PROVE CoversOrder(o)'
      BY <2>1 DEF CoversOrder
    <3>1. o \in Working
      BY <1>t, <1>w, <2>1 DEF Ordered
    <3>2. Unbooked(o)' = Unbooked(o) - n
      BY <1>6, <1>t, <3>1, UnbookedTraded
    <3>3. InFlight(o)' = n /\ InFlight(o) = 0 /\ n \in Nat
      BY <2>1, OrderTypes DEF InFlight
    <3>4. pending[o] >= Unbooked(o) + InFlight(o)
      BY <1>t, <2>1 DEF CoversOrder
    <3>5. feed'.step # "write" /\ pending' = pending
      BY <2>1
    <3>6. pending'[o] >= Unbooked(o)' + InFlight(o)'
      BY <1>p, <3>2, <3>3, <3>4, <3>5
    <3> QED BY <3>5, <3>6 DEF CoversOrder
  <2> QED BY <2>2, <2>3
<1>7. CASE ReduceReads
  <2>1. /\ feed.step = "read" /\ feed'.step = "write" /\ feed'.order = feed.order
        /\ feed'.lots = feed.lots /\ feed'.read = pending[feed.order]
        /\ UNCHANGED <<pc, pending, filled, lapsed, forgotten>>
    BY <1>7, <1>t DEF ReduceReads, ExposureTypeOK, swept
  <2> SUFFICES ASSUME NEW x \in Orders PROVE CoversOrder(x)'
    OBVIOUS
  <2>2. Unbooked(x)' <= Unbooked(x)
    BY <1>t, <1>w, <2>1, UnbookedStays
  <2>3. InFlight(x)' = InFlight(x) /\ InFlight(x) \in Nat
    BY <1>p, <2>1 DEF InFlight
  <2>4. CoversOrder(x)
    BY <1>t
  <2> QED BY <1>p, <2>1, <2>2, <2>3, <2>4 DEF CoversOrder
<1>8. CASE ReduceWrites
  <2>0. PICK o \in Orders : o = feed.order
    BY <1>8, <1>t DEF ReduceWrites, Ordered, ExposureTypeOK
  <2>1. /\ feed.step = "write" /\ feed'.step = "idle"
        /\ UNCHANGED <<pc, filled, lapsed, forgotten>>
        /\ pending' = [pending EXCEPT ![o] = Reduced(feed)]
    BY <1>8, <2>0 DEF ReduceWrites, ReleasePending, swept, Idle
  <2> SUFFICES ASSUME NEW x \in Orders PROVE CoversOrder(x)'
    OBVIOUS
  <2>2. Unbooked(x)' <= Unbooked(x)
    BY <1>t, <1>w, <2>1, UnbookedStays
  <2>3. InFlight(x)' = 0 /\ feed'.step # "write"
    BY <2>1 DEF InFlight
  <2>4. CoversOrder(x)
    BY <1>t
  <2>5. CASE x = o
    <3>1. pending'[x] = Reduced(feed) /\ InFlight(x) = feed.lots /\ feed.read \in Nat
      BY <1>p, <1>t, <2>0, <2>1, <2>5 DEF InFlight, ExposureTypeOK
    <3>2. Reduced(feed) >= feed.read - feed.lots
      BY <1>p, <3>1 DEF Reduced
    <3>3. x \notin lapsed \cup forgotten /\ pc[x] # "failed" =>
              feed.read = pending[x] /\ pending[x] >= Unbooked(x) + feed.lots
      BY <2>0, <2>1, <2>4, <2>5, <3>1 DEF CoversOrder
    <3>4. x \notin lapsed \cup forgotten /\ pc[x] # "failed" =>
              pending'[x] >= Unbooked(x)' + InFlight(x)'
      <4>1. feed.lots \in Nat /\ Unbooked(x) \in Nat /\ Unbooked(x)' \in Nat
            /\ Reduced(feed) \in Nat
        BY <1>p, <3>1 DEF Reduced
      <4> QED BY <2>2, <2>3, <3>1, <3>2, <3>3, <4>1
    <3> QED BY <2>1, <2>3, <3>4 DEF CoversOrder
  <2>6. CASE x # o
    <3>1. pending'[x] = pending[x] /\ InFlight(x) = 0
      BY <1>p, <2>0, <2>1, <2>6 DEF InFlight
    <3> QED BY <1>p, <2>1, <2>2, <2>3, <2>4, <3>1 DEF CoversOrder
  <2> QED BY <2>5, <2>6
<1>9. CASE UNCHANGED exposureVars
  <2>1. UNCHANGED <<pending, filled, feed, lapsed, forgotten, pc>>
    BY <1>9 DEF exposureVars, swept
  <2> QED BY <1>0, <1>w, <2>1
<1> QED
  BY <1>1, <1>2, <1>3, <1>4, <1>5, <1>6, <1>7, <1>8, <1>9 DEF ExposureNext

\* Nothing is reserved, sent or filled at the start.
LEMMA ReserveInit == ExposureInit => ReserveInv
<1> SUFFICES ASSUME ExposureInit PROVE ReserveInv
  OBVIOUS
<1>0. NoOrder \notin Orders
  BY ExposureAssumption
<1>1. \A o \in Orders : Notional(o) >= 0 /\ Lots[o] >= 0
  BY OrderTypes
<1>2. feed = Idle /\ feed.step = "idle"
  BY DEF ExposureInit, Idle
<1>3. feed \in [step : {"idle", "read", "write"}, order : Orders \cup {NoOrder},
                lots : Nat, read : Nat, check : Orders \cup {NoOrder}]
  BY <1>2 DEF Idle
<1>4. (torn = FALSE) /\ torn \in BOOLEAN
  BY Zenon DEF ExposureInit
<1>5. /\ pc \in [Orders -> Phases] /\ riskLock \in Orders \cup {NoOrder}
      /\ seen \in [current : Nat, symbol : Nat, gross : Nat]
  BY DEF ExposureInit, Phases, NoReads
<1>6. /\ pending \in [Orders -> Nat] /\ \A o \in Orders : pending[o] <= Notional(o)
      /\ filled \in [Orders -> Nat] /\ \A o \in Orders : filled[o] <= Lots[o]
      /\ position \in [Symbols -> Int]
      /\ dated = {} /\ aged = {} /\ atVenue = {} /\ lapsed = {} /\ forgotten = {}
  BY <1>1 DEF ExposureInit
<1>7. ExposureTypeOK
  BY <1>3, <1>4, <1>5, <1>6 DEF ExposureTypeOK
<1>8. Ordered
  BY <1>0, <1>2 DEF ExposureInit, Ordered, Checking
<1>9. ASSUME NEW o \in Orders PROVE CoversOrder(o)
  <2>1. o \notin Working /\ filled[o] = 0 /\ pending[o] = 0
    BY DEF ExposureInit, Working
  <2>2. Unbooked(o) = 0
    BY <1>7, <2>1, UnbookedTypes DEF UnbookedOK
  <2> QED BY <1>2, <2>1, <2>2 DEF CoversOrder, InFlight
<1> QED BY <1>7, <1>8, <1>9 DEF ReserveInv

\* Every step keeps the reservations.
LEMMA ReserveStep == ReserveInv /\ [ExposureNext]_exposureVars => ReserveInv'
  BY ExposureTypeStep, OrderedStep, CoversStep DEF ReserveInv

\* So they always cover what the book does not.
LEMMA ReserveAlways == ExposureSpec => []ReserveInv
  BY ReserveInit, ReserveStep, PTL DEF ExposureSpec

\* What is covered with the lots in flight is covered without them.
LEMMA CoversGivesReservationInv == ReserveInv => ReservationInv
<1> SUFFICES ASSUME ReserveInv PROVE ReservationInv
  OBVIOUS
<1>t. ExposureTypeOK /\ UnbookedOK /\ \A x \in Orders : CoversOrder(x)
  BY UnbookedTypes DEF ReserveInv
<1>1. \A x \in Orders : InFlight(x) \in Nat /\ Unbooked(x) \in Nat /\ pending[x] \in Nat
  BY <1>t DEF InFlight, UnbookedOK, ExposureTypeOK
<1>2. ReservationCovers
  BY <1>1, <1>t DEF ReservationCovers, CoversOrder
<1> QED BY <1>2, <1>t DEF ReservationInv

\* MarginChecker.reduce_pending and release_pending: an order holds a reservation
\* for all it has not filled and for what the position book does not count of what
\* it has, and no reservation exceeds its order, whatever order the checks, the
\* fills and the unlocked reduction of the feed thread come in, until the sweep
\* finds the reservation too old or place_order gives the order up.
THEOREM ReservationInvAlways == ExposureSpec => []ReservationInv
  BY CoversGivesReservationInv, ReserveAlways, PTL

(***************************************************************************)
(* The limits.                                                             *)
(***************************************************************************)
\* Nothing swept that stood for something, no lost order, and no check that a
\* fill tore.
Good == Accounted /\ ~torn

\* Terms: what the check takes the positions for, what it can know from the
\* reservations only, and the lots of the fill that is moving from the latter to
\* the former and that began after the check did.
ValueTerms  == [s \in Symbols |-> BookNotional(s)]
RestTerms   == [o \in Orders |-> Unbooked(o)]
MissedTerms == [o \in Orders |-> IF feed.check = riskLock THEN InFlight(o) ELSE 0]

\* Their sums over a set of symbols.
OfSymbols(S) == {o \in Orders : SymbolOf[o] \in S}

ValueIn(S)  == SumFunctionOnSet(ValueTerms, S)
RestIn(S)   == SumFunctionOnSet(RestTerms, OfSymbols(S))
MissedIn(S) == SumFunctionOnSet(MissedTerms, OfSymbols(S))

\* The terms and the sums are amounts.
TermsOK ==
    /\ \A s \in Symbols : ValueTerms[s] \in Nat
    /\ \A o \in Orders : RestTerms[o] \in Nat /\ MissedTerms[o] \in Nat
    /\ \A S \in SUBSET Symbols : ValueIn(S) \in Nat /\ RestIn(S) \in Nat /\ MissedIn(S) \in Nat

\* The sums are over finite sets.
LEMMA FiniteParts ==
    \A S \in SUBSET Symbols : IsFiniteSet(S) /\ IsFiniteSet(OfSymbols(S)) /\ OfSymbols(S) \subseteq Orders
  BY FS_Subset, ExposureAssumption DEF OfSymbols

LEMMA TermTypes == ExposureTypeOK => TermsOK
<1> SUFFICES ASSUME ExposureTypeOK PROVE TermsOK
  OBVIOUS
<1>1. \A s \in Symbols : ValueTerms[s] \in Nat
  BY ReadTypes DEF ValueTerms
<1>2. \A o \in Orders : RestTerms[o] \in Nat
  BY UnbookedTypes DEF UnbookedOK, RestTerms
<1>3. \A o \in Orders : MissedTerms[o] \in Nat
  BY DEF MissedTerms, InFlight, ExposureTypeOK
<1>4. ASSUME NEW S \in SUBSET Symbols
      PROVE  ValueIn(S) \in Nat /\ RestIn(S) \in Nat /\ MissedIn(S) \in Nat
  <2>1. IsFiniteSet(S) /\ IsFiniteSet(OfSymbols(S)) /\ OfSymbols(S) \subseteq Orders
    BY FiniteParts
  <2>2. ValueIn(S) \in Nat
    BY <1>1, <2>1, SumType DEF ValueIn
  <2>3. RestIn(S) \in Nat
    BY <1>2, <2>1, SumType DEF RestIn
  <2>4. MissedIn(S) \in Nat
    BY <1>3, <2>1, SumType DEF MissedIn
  <2> QED BY <2>2, <2>3, <2>4
<1> QED BY <1>1, <1>2, <1>3, <1>4 DEF TermsOK

\* The same of the state after a step.
LEMMA TermTypesAfter == ExposureTypeOK' => TermsOK'
  BY TermTypes, PTL

\* Terms none of which grows add up to no more.
LEMMA RestStays ==
    ASSUME ExposureTypeOK, ExposureTypeOK', NEW S \in SUBSET Symbols,
           \A o \in Orders : RestTerms'[o] <= RestTerms[o]
    PROVE  RestIn(S)' <= RestIn(S)
<1> DEFINE T == OfSymbols(S)
<1>1. IsFiniteSet(T) /\ T \subseteq Orders
  BY FiniteParts
<1>2. \A o \in T : RestTerms[o] \in Int /\ RestTerms'[o] \in Int /\ RestTerms'[o] <= RestTerms[o]
  BY <1>1, TermTypes, TermTypesAfter DEF TermsOK
<1> HIDE DEF T
<1>3. SumFunctionOnSet(RestTerms', T) <= SumFunctionOnSet(RestTerms, T)
  BY <1>1, <1>2, SumMonotonic
<1> QED BY <1>3 DEF RestIn, T, OfSymbols

LEMMA MissedStays ==
    ASSUME ExposureTypeOK, ExposureTypeOK', NEW S \in SUBSET Symbols,
           \A o \in Orders : MissedTerms[o] <= MissedTerms'[o]
    PROVE  MissedIn(S) <= MissedIn(S)'
<1> DEFINE T == OfSymbols(S)
<1>1. IsFiniteSet(T) /\ T \subseteq Orders
  BY FiniteParts
<1>2. \A o \in T : MissedTerms[o] \in Int /\ MissedTerms'[o] \in Int /\ MissedTerms[o] <= MissedTerms'[o]
  BY <1>1, TermTypes, TermTypesAfter DEF TermsOK
<1> HIDE DEF T
<1>3. SumFunctionOnSet(MissedTerms, T) <= SumFunctionOnSet(MissedTerms', T)
  BY <1>1, <1>2, SumMonotonic
<1> QED BY <1>3 DEF MissedIn, T, OfSymbols

\* A trade moves its lots from what is unbooked to the position, or less, and
\* the reads of the check under way miss no more than these.
LEMMA TradeMoves ==
    ASSUME ReserveInv, ReserveInv', Accounted, NEW S \in SUBSET Symbols,
           NEW o \in Orders, NEW n \in 1 .. Lots[o], RecordTrade(o, n)
    PROVE  /\ ValueIn(S)' + RestIn(S)' <= ValueIn(S) + RestIn(S)
           /\ ValueIn(S)' - MissedIn(S)' <= ValueIn(S) - MissedIn(S)
<1> DEFINE T == OfSymbols(S)
           s == SymbolOf[o]
<1>0. IsFiniteSet(T) /\ T \subseteq Orders /\ IsFiniteSet(S) /\ (o \in T <=> s \in S)
  BY FiniteParts DEF OfSymbols
<1>1. s \in Symbols /\ Sign[o] \in {1, -1} /\ n \in Nat /\ n > 0
  BY OrderTypes
<1>2. ExposureTypeOK /\ ExposureTypeOK' /\ TermsOK /\ TermsOK'
  BY TermTypes, TermTypesAfter DEF ReserveInv
<1>3. /\ feed = Idle /\ feed'.step = "read" /\ feed'.order = o /\ feed'.lots = n
      /\ feed'.check = riskLock /\ riskLock' = riskLock /\ o \in atVenue
      /\ position' = [position EXCEPT ![s] = @ + Sign[o] * n]
  BY DEF RecordTrade
<1>4. position \in [Symbols -> Int] /\ o \in Working
  BY <1>3 DEF ReserveInv, ExposureTypeOK, Ordered, Accounted, Working
\* The position.
<1>5. ValueTerms'[s] <= ValueTerms[s] + n /\ \A z \in Symbols \ {s} : ValueTerms'[z] = ValueTerms[z]
  <2>1. position'[s] = position[s] + Sign[o] * n /\ position[s] \in Int
    BY <1>1, <1>3, <1>4
  <2>2. \A z \in Symbols \ {s} : position'[z] = position[z]
    BY <1>3, <1>4
  <2>3. ValueTerms[s] = Magnitude(position[s]) /\ ValueTerms'[s] = Magnitude(position'[s])
    BY <1>1 DEF ValueTerms, BookNotional
  <2>4. \A z \in Symbols \ {s} : ValueTerms'[z] = ValueTerms[z]
    BY <2>2 DEF ValueTerms, BookNotional
  <2> QED BY <1>1, <2>1, <2>3, <2>4, MagnitudeMoves
\* What is unbooked.
<1>6. RestTerms'[o] = RestTerms[o] - n /\ \A z \in Orders \ {o} : RestTerms'[z] = RestTerms[z]
  BY <1>2, <1>4, UnbookedTraded DEF RestTerms
\* What the check may miss.
<1>7. MissedTerms'[o] = MissedTerms[o] + n /\ \A z \in Orders \ {o} : MissedTerms'[z] = MissedTerms[z]
  <2>1. \A z \in Orders : MissedTerms[z] = 0
    BY <1>3 DEF MissedTerms, InFlight, Idle
  <2>2. MissedTerms'[o] = n /\ \A z \in Orders \ {o} : MissedTerms'[z] = 0
    BY <1>3 DEF MissedTerms, InFlight
  <2> QED BY <1>1, <2>1, <2>2
<1>v. \A z \in S : ValueTerms[z] \in Int /\ ValueTerms'[z] \in Int
  BY <1>2 DEF TermsOK
<1>o. \A z \in T : RestTerms[z] \in Int /\ RestTerms'[z] \in Int
  BY <1>0, <1>2 DEF TermsOK
<1>k. \A z \in T : MissedTerms[z] \in Int /\ MissedTerms'[z] \in Int
  BY <1>0, <1>2 DEF TermsOK
<1>d. /\ ValueIn(S) = SumFunctionOnSet(ValueTerms, S) /\ ValueIn(S)' = SumFunctionOnSet(ValueTerms', S)
      /\ RestIn(S) = SumFunctionOnSet(RestTerms, T) /\ RestIn(S)' = SumFunctionOnSet(RestTerms', T)
      /\ MissedIn(S) = SumFunctionOnSet(MissedTerms, T)
      /\ MissedIn(S)' = SumFunctionOnSet(MissedTerms', T)
  BY DEF ValueIn, RestIn, MissedIn, OfSymbols
<1>i. /\ ValueIn(S) \in Int /\ RestIn(S) \in Int /\ MissedIn(S) \in Int
      /\ ValueIn(S)' \in Int /\ RestIn(S)' \in Int /\ MissedIn(S)' \in Int
  BY <1>2 DEF TermsOK
<1> HIDE DEF T, s
<1>9. CASE s \in S
  <2>1. ValueIn(S)' = ValueIn(S) + (ValueTerms'[s] - ValueTerms[s])
    <3>1. \A z \in S : z # s => ValueTerms'[z] = ValueTerms[z]
      BY <1>5
    <3> QED BY <1>0, <1>9, <1>v, <1>d, <3>1, SumOfChanged
  <2>2. RestIn(S)' = RestIn(S) + (RestTerms'[o] - RestTerms[o])
    <3>1. \A z \in T : z # o => RestTerms'[z] = RestTerms[z]
      BY <1>0, <1>6
    <3> QED BY <1>0, <1>9, <1>o, <1>d, <3>1, SumOfChanged
  <2>3. MissedIn(S)' = MissedIn(S) + (MissedTerms'[o] - MissedTerms[o])
    <3>1. \A z \in T : z # o => MissedTerms'[z] = MissedTerms[z]
      BY <1>0, <1>7
    <3> QED BY <1>0, <1>9, <1>k, <1>d, <3>1, SumOfChanged
  <2>4. ValueTerms'[s] \in Int /\ ValueTerms[s] \in Int /\ RestTerms'[o] \in Int
        /\ RestTerms[o] \in Int /\ MissedTerms'[o] \in Int /\ MissedTerms[o] \in Int
    BY <1>0, <1>9, <1>v, <1>o, <1>k
  <2> QED BY <1>1, <1>5, <1>6, <1>7, <1>i, <2>1, <2>2, <2>3, <2>4
<1>10. CASE s \notin S
  <2>1. ValueIn(S)' = ValueIn(S)
    <3>1. \A z \in S : ValueTerms[z] \in Int /\ ValueTerms'[z] = ValueTerms[z]
      BY <1>5, <1>10, <1>v
    <3> QED BY <1>0, <1>d, <3>1, SumOfSameTerms
  <2>2. RestIn(S)' = RestIn(S)
    <3>1. \A z \in T : RestTerms[z] \in Int /\ RestTerms'[z] = RestTerms[z]
      BY <1>0, <1>6, <1>10, <1>o
    <3> QED BY <1>0, <1>d, <3>1, SumOfSameTerms
  <2>3. MissedIn(S)' = MissedIn(S)
    <3>1. \A z \in T : MissedTerms[z] \in Int /\ MissedTerms'[z] = MissedTerms[z]
      BY <1>0, <1>7, <1>10, <1>k
    <3> QED BY <1>0, <1>d, <3>1, SumOfSameTerms
  <2> QED BY <1>i, <2>1, <2>2, <2>3
<1> QED BY <1>9, <1>10

\* What is accounted for after a step was before it.
LEMMA GoodBefore ==
    ReserveInv /\ [ExposureNext]_exposureVars /\ Good' => Good
<1> SUFFICES ASSUME ReserveInv, [ExposureNext]_exposureVars, Good' PROVE Good
  OBVIOUS
<1>t. /\ pc \in [Orders -> Phases] /\ atVenue \subseteq Orders
      /\ \A o \in atVenue : pc[o] \in {"sending", "open", "failed"}
  BY DEF ReserveInv, ExposureTypeOK, Ordered
<1>1. lapsed' = {} /\ forgotten' = {} /\ ~torn' /\ \A o \in atVenue' : pc'[o] # "failed"
  BY DEF Good, Accounted
<1>2. lapsed \subseteq lapsed' /\ forgotten \subseteq forgotten'
  BY DEF ExposureNext, exposureVars, BeginCheck, ReadPendingSymbol, ReadPositions, Approve,
         Reject, VenueAccepts, SubmitReturns, SubmitFails, VenueCancels, Age, RecordTrade,
         ReduceReads, ReduceWrites, Sweep, swept
<1>3. torn => torn'
  BY DEF ExposureNext, exposureVars, BeginCheck, ReadPendingSymbol, ReadPositions, Approve,
         Reject, VenueAccepts, SubmitReturns, SubmitFails, VenueCancels, Age, RecordTrade,
         ReduceReads, ReduceWrites
<1>4. ASSUME NEW x \in atVenue, pc[x] = "failed" PROVE x \in atVenue' /\ pc'[x] = "failed"
  <2>1. ASSUME NEW o \in Orders,
               \/ BeginCheck(o) \/ ReadPendingSymbol(o) \/ ReadPositions(o) \/ Approve(o)
               \/ VenueAccepts(o) \/ SubmitReturns(o) \/ SubmitFails(o)
               \/ VenueCancels(o) \/ Age(o)
        PROVE  x \in atVenue' /\ pc'[x] = "failed"
    BY <1>t, <1>4, <2>1 DEF BeginCheck, ReadPendingSymbol, ReadPositions, Approve,
         VenueAccepts, SubmitReturns, SubmitFails, VenueCancels, Age, Goto
  <2>2. ASSUME NEW o \in Orders, Reject(o) PROVE x \in atVenue' /\ pc'[x] = "failed"
    <3>1. pc[o] \in Checking
      BY <2>2 DEF Reject, ReserveInv, Ordered
    <3> QED BY <1>t, <1>4, <2>2, <3>1 DEF Reject, Goto, Checking
  <2>3. ASSUME NEW o \in Orders, NEW n \in 1 .. Lots[o], RecordTrade(o, n)
        PROVE  x \in atVenue' /\ pc'[x] = "failed"
    BY <1>4, <2>3 DEF RecordTrade
  <2>4. CASE ReduceReads \/ ReduceWrites \/ UNCHANGED exposureVars
    BY <1>4, <2>4 DEF ReduceReads, ReduceWrites, exposureVars
  <2> QED BY <2>1, <2>2, <2>3, <2>4 DEF ExposureNext
<1> QED BY <1>1, <1>2, <1>3, <1>4 DEF Good, Accounted

\* A sweep after which nothing is amiss removed nothing that stood for anything.
LEMMA SweepIsHarmless ==
    ASSUME NEW R, Sweep(R), Accounted'
    PROVE  \A x \in aged : Harmless(x)
  BY DEF Sweep, Accounted, Harmless

\* What the sweep leaves of the reservations still covers every order.
LEMMA SweptCovers ==
    ASSUME ReserveInv, Accounted, \A x \in aged : Harmless(x)
    PROVE  \A o \in Orders : Swept(o) \in Nat /\ RestTerms[o] + MissedTerms[o] <= Swept(o)
<1> SUFFICES ASSUME NEW o \in Orders
             PROVE  Swept(o) \in Nat /\ RestTerms[o] + MissedTerms[o] <= Swept(o)
  OBVIOUS
<1>t. ExposureTypeOK /\ Ordered /\ UnbookedOK /\ CoversOrder(o)
  BY UnbookedTypes DEF ReserveInv
<1>1. /\ Unbooked(o) \in Nat /\ InFlight(o) \in Nat /\ pending[o] \in Nat /\ Swept(o) \in Nat
      /\ RestTerms[o] = Unbooked(o) /\ MissedTerms[o] \in {0, InFlight(o)}
  BY <1>t, SweptTypes DEF UnbookedOK, ExposureTypeOK, InFlight, RestTerms, MissedTerms
<1>2. Unbooked(o) + InFlight(o) <= Swept(o)
  <2>1. CASE pc[o] = "failed"
    <3>1. o \notin atVenue /\ filled[o] = 0 /\ o \notin Working
      BY <1>t, <2>1 DEF Accounted, Ordered, Working
    <3>2. Unbooked(o) = 0 /\ InFlight(o) = 0
      BY <1>t, <3>1 DEF UnbookedOK, Ordered, InFlight
    <3> QED BY <1>1, <3>2
  <2>2. CASE pc[o] # "failed" /\ o \in aged
    BY <1>1, <2>2, HarmlessStandsForNothing
  <2>3. CASE pc[o] # "failed" /\ o \notin aged
    BY <1>t, <2>3 DEF Accounted, CoversOrder, Swept
  <2> QED BY <2>1, <2>2, <2>3
<1> QED BY <1>1, <1>2

\* Only an approval or a trade changes a position or puts an order to work.
LEMMA RestsNoMore ==
    ASSUME ReserveInv, ReserveInv', [ExposureNext]_exposureVars,
           \A o \in Orders : ~Approve(o),
           \A o \in Orders : \A n \in 1 .. Lots[o] : ~RecordTrade(o, n)
    PROVE  UNCHANGED position /\ \A x \in Orders : RestTerms'[x] <= RestTerms[x]
<1>t. ExposureTypeOK /\ ExposureTypeOK' /\ Ordered /\ pc \in [Orders -> Phases]
  BY DEF ReserveInv, ExposureTypeOK
<1>1. UNCHANGED <<position, filled>>
  BY DEF ExposureNext, exposureVars, BeginCheck, ReadPendingSymbol, ReadPositions,
         Reject, VenueAccepts, SubmitReturns, SubmitFails, VenueCancels, Age,
         ReduceReads, ReduceWrites
<1>2. \A x \in Orders : pc'[x] \in {"sending", "open"} => pc[x] \in {"sending", "open"}
  <2>1. ASSUME NEW o \in Orders,
               \/ BeginCheck(o) \/ ReadPendingSymbol(o) \/ ReadPositions(o) \/ Reject(o)
               \/ VenueAccepts(o) \/ SubmitReturns(o) \/ SubmitFails(o)
               \/ VenueCancels(o) \/ Age(o)
        PROVE  \A x \in Orders : pc'[x] \in {"sending", "open"} => pc[x] \in {"sending", "open"}
    BY <1>t, <2>1 DEF BeginCheck, ReadPendingSymbol, ReadPositions, Reject,
         VenueAccepts, SubmitReturns, SubmitFails, VenueCancels, Age, Goto
  <2>2. CASE ReduceReads \/ ReduceWrites \/ UNCHANGED exposureVars
    BY <2>2 DEF ReduceReads, ReduceWrites, exposureVars
  <2> QED BY <2>1, <2>2 DEF ExposureNext
<1>3. \A x \in Orders : x \in Working' => x \in Working
  BY <1>2 DEF Working
<1>4. ASSUME NEW x \in Orders PROVE RestTerms'[x] <= RestTerms[x]
  <2>1. Unbooked(x)' <= Unbooked(x)
    BY <1>1, <1>3, <1>t, UnbookedStays
  <2> QED BY <2>1 DEF RestTerms
<1> QED BY <1>1, <1>4

\* While a check goes on that no fill tears, it misses no less.
LEMMA MissesNoLess ==
    ASSUME ReserveInv, [ExposureNext]_exposureVars, ~torn',
           riskLock \in Orders, riskLock' = riskLock,
           \A o \in Orders : \A n \in 1 .. Lots[o] : ~RecordTrade(o, n)
    PROVE  \A x \in Orders : MissedTerms[x] <= MissedTerms'[x]
<1>t. ExposureTypeOK /\ TermsOK /\ NoOrder \notin Orders
  BY TermTypes, ExposureAssumption DEF ReserveInv
<1>n. \A x \in Orders : MissedTerms[x] \in Nat
  BY <1>t DEF TermsOK
<1>1. CASE UNCHANGED feed
  BY <1>1, <1>n DEF MissedTerms, InFlight
<1>2. CASE ReduceReads
  <2>1. /\ feed.step = "read" /\ feed'.step = "write" /\ feed'.order = feed.order
        /\ feed'.lots = feed.lots /\ feed'.check = feed.check
    BY <1>2, <1>t DEF ReduceReads, ExposureTypeOK
  <2> QED BY <1>n, <2>1 DEF MissedTerms, InFlight
<1>3. CASE ReduceWrites
  <2>1. feed.check # riskLock /\ feed'.step = "idle"
    BY <1>3, <1>t DEF ReduceWrites, Idle
  <2> QED BY <2>1 DEF MissedTerms, InFlight
<1> QED BY <1>1, <1>2, <1>3
  DEF ExposureNext, exposureVars, BeginCheck, ReadPendingSymbol, ReadPositions, Approve,
      Reject, VenueAccepts, SubmitReturns, SubmitFails, VenueCancels, Age

\* A reservation is known for which symbol it is.
Dated == \A o \in Orders : pending[o] # 0 => o \in dated

\* What a check has read so far accounts for all there is now.
Checked ==
    \A c \in Orders :
        /\ pc[c] = "symbol" =>
              ValueIn({SymbolOf[c]}) <= seen.current + MissedIn({SymbolOf[c]})
        /\ pc[c] \in {"positions", "decide"} =>
              ValueIn({SymbolOf[c]}) + RestIn({SymbolOf[c]}) <= seen.current + seen.symbol
        /\ pc[c] = "decide" => ValueIn(Symbols) <= seen.gross + MissedIn(Symbols)

Limited ==
    /\ ValueIn(Symbols) + RestIn(Symbols) <= GrossLimit
    /\ \A s \in Symbols : ValueIn({s}) + RestIn({s}) <= SymbolLimit

\* No step drops the date of a reservation that did not lapse.
LEMMA DatedStep ==
    ASSUME ReserveInv, Good, Dated, [ExposureNext]_exposureVars
    PROVE  Dated'
<1>t. /\ ExposureTypeOK /\ Ordered /\ pending \in [Orders -> Nat]
      /\ \A x \in Orders : CoversOrder(x)
  BY DEF ReserveInv, ExposureTypeOK
<1>g. lapsed = {} /\ forgotten = {} /\ \A x \in atVenue : pc[x] # "failed"
  BY DEF Good, Accounted
<1>0. ASSUME UNCHANGED <<pending, dated>> PROVE Dated'
  BY <1>0 DEF Dated
<1>1. ASSUME NEW o \in Orders, BeginCheck(o) \/ ReadPositions(o) \/ VenueAccepts(o)
                  \/ SubmitReturns(o) \/ VenueCancels(o) \/ Age(o)
                  \/ \E n \in 1 .. Lots[o] : RecordTrade(o, n)
      PROVE  Dated'
  BY <1>0, <1>1 DEF BeginCheck, ReadPositions, VenueAccepts, SubmitReturns, VenueCancels,
                    Age, RecordTrade
<1>2. ASSUME NEW o \in Orders, ReadPendingSymbol(o) PROVE Dated'
  <2>1. dated' = dated \ aged /\ \A x \in Orders : pending'[x] = Swept(x)
    BY <1>2 DEF ReadPendingSymbol, Sweep, Nothing
  <2> QED BY <2>1 DEF Dated, Swept
<1>3. ASSUME NEW o \in Orders, Approve(o) PROVE Dated'
  <2>1. /\ dated' = (dated \ aged) \cup {o}
        /\ \A x \in Orders \ {o} : pending'[x] = Swept(x)
    BY <1>3 DEF Approve, Sweep
  <2> QED BY <2>1 DEF Dated, Swept
<1>4. ASSUME NEW o \in Orders, Reject(o) \/ SubmitFails(o) PROVE Dated'
  BY <1>4, <1>t DEF Reject, SubmitFails, ReleasePending, Dated
<1>5. CASE ReduceReads
  BY <1>0, <1>5 DEF ReduceReads
<1>6. CASE ReduceWrites
  <2>1. PICK o \in Orders : o = feed.order /\ o \in atVenue
    BY <1>6, <1>t DEF ReduceWrites, Ordered, ExposureTypeOK
  <2>2. CASE Reduced(feed) = 0
    BY <1>6, <1>t, <2>1, <2>2 DEF ReduceWrites, ReleasePending, Dated
  <2>3. CASE Reduced(feed) # 0
    <3>1. pending' = [pending EXCEPT ![o] = Reduced(feed)] /\ dated' = dated
          /\ feed.step = "write"
      BY <1>6, <2>1, <2>3 DEF ReduceWrites
    <3>2. o \notin lapsed \cup forgotten /\ pc[o] # "failed"
      BY <1>g, <2>1
    <3>3. pending[o] # 0
      BY <1>t, <2>1, <2>3, <3>1, <3>2 DEF CoversOrder, Reduced, ExposureTypeOK
    <3> QED BY <1>t, <3>1, <3>3 DEF Dated
  <2> QED BY <2>2, <2>3
<1>7. CASE UNCHANGED exposureVars
  BY <1>0, <1>7 DEF exposureVars
<1> QED BY <1>1, <1>2, <1>3, <1>4, <1>5, <1>6, <1>7 DEF ExposureNext

\* What there is grows with an approval only.
LEMMA NoApprovalNoMore ==
    ASSUME ReserveInv, ReserveInv', Good, Good', [ExposureNext]_exposureVars,
           \A o \in Orders : ~Approve(o), NEW S \in SUBSET Symbols
    PROVE  /\ ValueIn(S)' + RestIn(S)' <= ValueIn(S) + RestIn(S)
           /\ riskLock \in Orders /\ riskLock' = riskLock
                 => ValueIn(S)' - MissedIn(S)' <= ValueIn(S) - MissedIn(S)
<1>1. CASE \E o \in Orders : \E n \in 1 .. Lots[o] : RecordTrade(o, n)
  BY <1>1, TradeMoves DEF Good
<1>2. CASE ~\E o \in Orders : \E n \in 1 .. Lots[o] : RecordTrade(o, n)
  <2>0. ExposureTypeOK /\ ExposureTypeOK' /\ TermsOK /\ TermsOK'
    BY TermTypes, TermTypesAfter DEF ReserveInv
  <2>1. UNCHANGED position /\ \A x \in Orders : RestTerms'[x] <= RestTerms[x]
    BY <1>2, RestsNoMore
  <2>2. ValueIn(S)' = ValueIn(S)
    BY <2>1 DEF ValueIn, ValueTerms, BookNotional
  <2>3. RestIn(S)' <= RestIn(S)
    BY <2>0, <2>1, RestStays
  <2>4. ASSUME riskLock \in Orders, riskLock' = riskLock PROVE MissedIn(S) <= MissedIn(S)'
    <3>1. \A x \in Orders : MissedTerms[x] <= MissedTerms'[x]
      BY <1>2, <2>4, MissesNoLess DEF Good
    <3> QED BY <2>0, <3>1, MissedStays
  <2>5. /\ ValueIn(S) \in Int /\ RestIn(S) \in Int /\ MissedIn(S) \in Int
        /\ ValueIn(S)' \in Int /\ RestIn(S)' \in Int /\ MissedIn(S)' \in Int
    BY <2>0 DEF TermsOK
  <2> QED BY <2>2, <2>3, <2>4, <2>5
<1> QED BY <1>1, <1>2

\* The sums are those the check reads.
LEMMA ValuesRead ==
    ASSUME ReserveInv
    PROVE  /\ ValueIn(Symbols) = GrossPositions
           /\ \A s \in Symbols : ValueIn({s}) = BookNotional(s)
<1>1. ValueIn(Symbols) = GrossPositions
  BY DEF ValueIn, ValueTerms, GrossPositions
<1>2. ASSUME NEW s \in Symbols PROVE ValueIn({s}) = BookNotional(s)
  <2>1. ValueTerms[s] \in Int /\ ValueTerms[s] = BookNotional(s)
    BY TermTypes DEF TermsOK, ValueTerms, ReserveInv
  <2> QED BY <2>1, SumOfOne DEF ValueIn
<1> QED BY <1>1, <1>2

\* The same of the state after a step.
LEMMA ValuesReadAfter ==
    ReserveInv' => /\ (ValueIn(Symbols) = GrossPositions)'
                   /\ (\A s \in Symbols : ValueIn({s}) = BookNotional(s))'
  BY ValuesRead, PTL

\* The reservations it reads cover all it can know from them.
LEMMA ReservationsRead ==
    ASSUME ReserveInv, Accounted, Dated, \A x \in aged : Harmless(x)
    PROVE  /\ RestIn(Symbols) + MissedIn(Symbols) <= PendingGross
           /\ \A s \in Symbols : RestIn({s}) + MissedIn({s}) <= PendingSymbol(s)
<1> DEFINE f == [o \in Orders |-> Swept(o)]
           h == [o \in Orders |-> RestTerms[o] + MissedTerms[o]]
<1>0. dated \subseteq Orders /\ TermsOK
  BY TermTypes DEF ReserveInv, ExposureTypeOK
<1>1. \A o \in Orders : /\ RestTerms[o] \in Int /\ MissedTerms[o] \in Int
                        /\ h[o] = RestTerms[o] + MissedTerms[o] /\ h[o] \in Int
                        /\ f[o] = Swept(o) /\ f[o] \in Int /\ h[o] <= f[o]
  BY <1>0, SweptCovers DEF TermsOK
<1>2. /\ PendingGross = SumFunctionOnSet(f, Orders)
      /\ \A s : PendingSymbol(s) = SumFunctionOnSet(f, {o \in dated \ aged : SymbolOf[o] = s})
  BY DEF PendingGross, PendingSymbol
<1> HIDE DEF f, h
<1>3. ASSUME NEW S \in SUBSET Symbols
      PROVE  RestIn(S) + MissedIn(S) <= SumFunctionOnSet(f, OfSymbols(S))
  <2> DEFINE T == OfSymbols(S)
  <2>1. IsFiniteSet(T) /\ T \subseteq Orders
    BY FiniteParts
  <2>2. RestIn(S) = SumFunctionOnSet(RestTerms, T) /\ MissedIn(S) = SumFunctionOnSet(MissedTerms, T)
    BY DEF RestIn, MissedIn
  <2>3. \A o \in T : /\ RestTerms[o] \in Int /\ MissedTerms[o] \in Int
                     /\ h[o] = RestTerms[o] + MissedTerms[o]
    BY <1>1, <2>1
  <2>4. \A o \in T : h[o] \in Int /\ f[o] \in Int /\ h[o] <= f[o]
    BY <1>1, <2>1
  <2> HIDE DEF T
  <2>5. SumFunctionOnSet(h, T) = SumFunctionOnSet(RestTerms, T) + SumFunctionOnSet(MissedTerms, T)
    BY <2>1, <2>3, SumOfSums
  <2>6. SumFunctionOnSet(h, T) <= SumFunctionOnSet(f, T)
    BY <2>1, <2>4, SumMonotonic
  <2> QED BY <2>2, <2>5, <2>6 DEF T
<1>4. OfSymbols(Symbols) = Orders
  BY ExposureAssumption DEF OfSymbols
<1>5. RestIn(Symbols) + MissedIn(Symbols) <= PendingGross
  BY <1>2, <1>3, <1>4
<1>6. ASSUME NEW s \in Symbols PROVE RestIn({s}) + MissedIn({s}) <= PendingSymbol(s)
  <2> DEFINE T == {o \in dated \ aged : SymbolOf[o] = s}
             U == OfSymbols({s})
  <2>1. T \subseteq U /\ U \subseteq Orders /\ IsFiniteSet(U)
    BY <1>0, FiniteParts DEF OfSymbols
  <2>2. \A o \in U \ T : f[o] = 0
    BY <1>1, <2>1 DEF OfSymbols, Dated, Swept
  <2>3. \A o \in T : f[o] \in Int
    BY <1>1, <2>1
  <2>4. PendingSymbol(s) = SumFunctionOnSet(f, T)
    BY <1>2
  <2>5. RestIn({s}) + MissedIn({s}) <= SumFunctionOnSet(f, U)
    BY <1>3
  <2> HIDE DEF T, U
  <2>6. SumFunctionOnSet(f, U) = SumFunctionOnSet(f, T)
    BY <2>1, <2>2, <2>3, SumOfPart
  <2> QED BY <2>4, <2>5, <2>6
<1> QED BY <1>5, <1>6

\* What a check has read keeps accounting for what there is.
LEMMA CheckedStep ==
    ASSUME ReserveInv, ReserveInv', Good, Good', Dated, Checked, Limited,
           [ExposureNext]_exposureVars
    PROVE  Checked'
<1>t. /\ ExposureTypeOK /\ Ordered /\ Ordered' /\ pc \in [Orders -> Phases]
      /\ NoOrder \notin Orders
  BY ExposureAssumption DEF ReserveInv, ExposureTypeOK
<1>g. Accounted /\ Accounted'
  BY DEF Good
<1>n. \A S \in SUBSET Symbols :
         /\ ValueIn(S) \in Nat /\ RestIn(S) \in Nat /\ MissedIn(S) \in Nat
         /\ ValueIn(S)' \in Nat /\ RestIn(S)' \in Nat /\ MissedIn(S)' \in Nat
  <2>1. TermsOK /\ TermsOK'
    BY TermTypes, TermTypesAfter DEF ReserveInv
  <2> QED BY <2>1 DEF TermsOK
<1>r. /\ seen.current \in Nat /\ seen.symbol \in Nat /\ seen.gross \in Nat
  BY <1>t DEF ExposureTypeOK
\* Nothing is being checked after the step.
<1>0. ASSUME riskLock' = NoOrder PROVE Checked'
  <2>1. \A c \in Orders : pc'[c] \notin Checking
    BY <1>0, <1>t DEF Ordered
  <2> QED BY <2>1 DEF Checked, Checking
<1>1. ASSUME NEW o \in Orders, Approve(o) \/ Reject(o) PROVE Checked'
  BY <1>0, <1>1 DEF Approve, Reject
<1>2. ASSUME NEW o \in Orders, BeginCheck(o) PROVE Checked'
  <2> DEFINE s == SymbolOf[o]
  <2>1. /\ riskLock' = o /\ pc'[o] = "symbol" /\ position' = position
        /\ seen'.current = BookNotional(s)
    BY <1>2, <1>t DEF BeginCheck, Goto, ExposureTypeOK
  <2>2. s \in Symbols /\ {s} \in SUBSET Symbols
    BY OrderTypes
  <2>3. BookNotional(s)' = BookNotional(s)
    BY <2>1 DEF BookNotional
  <2>4. ValueIn({s})' = seen'.current
    BY <2>1, <2>2, <2>3, ValuesReadAfter
  <2>5. MissedIn({s})' \in Nat /\ ValueIn({s})' \in Nat
    BY <1>n, <2>2
  <2>6. ValueIn({s})' <= seen'.current + MissedIn({s})'
    BY <2>4, <2>5
  <2>7. \A c \in Orders : pc'[c] \in Checking => c = o
    BY <1>t, <2>1 DEF Ordered
  <2>8. ASSUME NEW c \in Orders, pc'[c] \in Checking
        PROVE  /\ pc'[c] = "symbol"
               /\ ValueIn({SymbolOf[c]})' <= seen'.current + MissedIn({SymbolOf[c]})'
    BY <2>1, <2>6, <2>7, <2>8
  <2> HIDE DEF s
  <2> QED BY <2>8 DEF Checked, Checking
<1>3. ASSUME NEW o \in Orders, ReadPendingSymbol(o) PROVE Checked'
  <2> DEFINE s == SymbolOf[o]
  <2>1. /\ pc[o] = "symbol" /\ pc'[o] = "positions" /\ riskLock' = riskLock
        /\ seen'.symbol = PendingSymbol(s) /\ seen'.current = seen.current
    BY <1>3, <1>t DEF ReadPendingSymbol, Goto, ExposureTypeOK
  <2>2. s \in Symbols /\ {s} \in SUBSET Symbols
    BY OrderTypes
  <2>3. riskLock = o
    BY <1>t, <2>1 DEF Ordered, Checking
  <2>4. ValueIn({s}) <= seen.current + MissedIn({s})
    BY <2>1 DEF Checked
  <2>5. \A x \in aged : Harmless(x)
    BY <1>3, <1>g, SweepIsHarmless DEF ReadPendingSymbol
  <2>6. RestIn({s}) + MissedIn({s}) <= PendingSymbol(s) /\ PendingSymbol(s) \in Nat
    BY <1>g, <1>t, <2>2, <2>5, ReservationsRead, ReadTypes
  <2>7. \A x \in Orders : ~Approve(x)
    BY <1>3, <1>t, <2>3 DEF Approve, ReadPendingSymbol, Ordered, Checking
  <2>8. ValueIn({s})' + RestIn({s})' <= ValueIn({s}) + RestIn({s})
    BY <2>2, <2>7, NoApprovalNoMore
  <2>9. /\ ValueIn({s}) \in Nat /\ RestIn({s}) \in Nat /\ MissedIn({s}) \in Nat
        /\ ValueIn({s})' \in Nat /\ RestIn({s})' \in Nat
    BY <1>n, <2>2
  <2>10. ValueIn({s})' + RestIn({s})' <= seen'.current + seen'.symbol
    BY <1>r, <2>1, <2>4, <2>6, <2>8, <2>9
  <2>11. \A c \in Orders : pc'[c] \in Checking => c = o
    BY <1>t, <2>1, <2>3 DEF Ordered
  <2>12. ASSUME NEW c \in Orders, pc'[c] \in Checking
         PROVE  /\ pc'[c] = "positions"
                /\ ValueIn({SymbolOf[c]})' + RestIn({SymbolOf[c]})'
                     <= seen'.current + seen'.symbol
    BY <2>1, <2>10, <2>11, <2>12
  <2> HIDE DEF s
  <2> QED BY <2>12 DEF Checked, Checking
<1>4. ASSUME NEW o \in Orders, ReadPositions(o) PROVE Checked'
  <2> DEFINE s == SymbolOf[o]
  <2>1. /\ pc[o] = "positions" /\ pc'[o] = "decide" /\ riskLock' = riskLock
        /\ seen'.symbol = seen.symbol /\ seen'.current = seen.current
        /\ seen'.gross = GrossPositions /\ position' = position
    BY <1>4, <1>t DEF ReadPositions, Goto, ExposureTypeOK
  <2>2. s \in Symbols /\ {s} \in SUBSET Symbols
    BY OrderTypes
  <2>3. riskLock = o
    BY <1>t, <2>1 DEF Ordered, Checking
  <2>4. ValueIn({s}) + RestIn({s}) <= seen.current + seen.symbol
    BY <2>1 DEF Checked
  <2>5. \A x \in Orders : ~Approve(x)
    BY <1>4, <1>t, <2>3 DEF Approve, ReadPositions, Ordered, Checking
  <2>6. ValueIn({s})' + RestIn({s})' <= ValueIn({s}) + RestIn({s})
    BY <2>2, <2>5, NoApprovalNoMore
  <2>7. /\ ValueIn({s}) \in Nat /\ RestIn({s}) \in Nat
        /\ ValueIn({s})' \in Nat /\ RestIn({s})' \in Nat
        /\ ValueIn(Symbols)' \in Nat /\ MissedIn(Symbols)' \in Nat
    BY <1>n, <2>2
  <2>8. ValueIn({s})' + RestIn({s})' <= seen'.current + seen'.symbol
    BY <1>r, <2>1, <2>4, <2>6, <2>7
  <2>9. ValueIn(Symbols)' <= seen'.gross + MissedIn(Symbols)'
    <3>1. GrossPositions' = GrossPositions
      BY <2>1 DEF GrossPositions, BookNotional
    <3>2. ValueIn(Symbols)' = seen'.gross
      BY <2>1, <3>1, ValuesReadAfter
    <3> QED BY <2>7, <3>2
  <2>10. \A c \in Orders : pc'[c] \in Checking => c = o
    BY <1>t, <2>1, <2>3 DEF Ordered
  <2>11. ASSUME NEW c \in Orders, pc'[c] \in Checking
         PROVE  /\ pc'[c] = "decide"
                /\ ValueIn({SymbolOf[c]})' + RestIn({SymbolOf[c]})'
                     <= seen'.current + seen'.symbol
    BY <2>1, <2>8, <2>10, <2>11
  <2> HIDE DEF s
  <2> QED BY <2>9, <2>11 DEF Checked, Checking
\* Every other step leaves the check where it is.
<1>5. ASSUME riskLock' = riskLock, seen' = seen, \A o \in Orders : ~Approve(o),
             \A c \in Orders : pc[c] \in Checking => pc'[c] = pc[c]
      PROVE  Checked'
  <2> SUFFICES ASSUME NEW c \in Orders, pc'[c] \in Checking
               PROVE  /\ pc'[c] = "symbol" =>
                            ValueIn({SymbolOf[c]})' <= seen'.current + MissedIn({SymbolOf[c]})'
                      /\ pc'[c] \in {"positions", "decide"} =>
                            ValueIn({SymbolOf[c]})' + RestIn({SymbolOf[c]})'
                               <= seen'.current + seen'.symbol
                      /\ pc'[c] = "decide" =>
                            ValueIn(Symbols)' <= seen'.gross + MissedIn(Symbols)'
    BY DEF Checked, Checking
  <2> DEFINE S == {SymbolOf[c]}
  <2>1. riskLock = c /\ pc'[c] = pc[c]
    BY <1>5, <1>t DEF Ordered
  <2>2. S \in SUBSET Symbols /\ Symbols \in SUBSET Symbols
    BY OrderTypes
  <2>3. /\ ValueIn(S)' + RestIn(S)' <= ValueIn(S) + RestIn(S)
        /\ ValueIn(S)' - MissedIn(S)' <= ValueIn(S) - MissedIn(S)
        /\ ValueIn(Symbols)' - MissedIn(Symbols)' <= ValueIn(Symbols) - MissedIn(Symbols)
    BY <1>5, <2>1, <2>2, NoApprovalNoMore
  <2>4. /\ pc[c] = "symbol" => ValueIn(S) <= seen.current + MissedIn(S)
        /\ pc[c] \in {"positions", "decide"} =>
              ValueIn(S) + RestIn(S) <= seen.current + seen.symbol
        /\ pc[c] = "decide" => ValueIn(Symbols) <= seen.gross + MissedIn(Symbols)
    BY DEF Checked
  <2>5. /\ ValueIn(S) \in Nat /\ RestIn(S) \in Nat /\ MissedIn(S) \in Nat
        /\ ValueIn(S)' \in Nat /\ RestIn(S)' \in Nat /\ MissedIn(S)' \in Nat
        /\ ValueIn(Symbols) \in Nat /\ MissedIn(Symbols) \in Nat
        /\ ValueIn(Symbols)' \in Nat /\ MissedIn(Symbols)' \in Nat
    BY <1>n, <2>2
  <2> HIDE DEF S
  <2>6. /\ pc'[c] = "symbol" => ValueIn(S)' <= seen'.current + MissedIn(S)'
        /\ pc'[c] \in {"positions", "decide"} =>
              ValueIn(S)' + RestIn(S)' <= seen'.current + seen'.symbol
        /\ pc'[c] = "decide" => ValueIn(Symbols)' <= seen'.gross + MissedIn(Symbols)'
    BY <1>5, <1>r, <2>1, <2>3, <2>4, <2>5
  <2> QED BY <2>6 DEF S
<1>6. ASSUME NEW o \in Orders, VenueAccepts(o) \/ SubmitReturns(o) \/ SubmitFails(o)
                  \/ VenueCancels(o) \/ Age(o)
                  \/ \E n \in 1 .. Lots[o] : RecordTrade(o, n)
      PROVE  Checked'
  <2>1. /\ riskLock' = riskLock /\ seen' = seen
        /\ \A c \in Orders : pc[c] \in Checking => pc'[c] = pc[c]
    BY <1>6, <1>t DEF VenueAccepts, SubmitReturns, SubmitFails, VenueCancels, Age,
                      RecordTrade, Goto, Checking
  <2>2. \A x \in Orders : ~Approve(x)
    BY <1>6, <1>t DEF VenueAccepts, SubmitReturns, SubmitFails, VenueCancels, Age,
                      RecordTrade, Approve, Goto
  <2> QED BY <1>5, <2>1, <2>2
<1>7. CASE ReduceReads \/ ReduceWrites \/ UNCHANGED exposureVars
  <2>1. riskLock' = riskLock /\ seen' = seen /\ pc' = pc
    BY <1>7 DEF ReduceReads, ReduceWrites, exposureVars
  <2>2. \A x \in Orders : ~Approve(x)
    BY <1>t, <2>1 DEF Approve, Goto
  <2> QED BY <1>5, <2>1, <2>2
<1> QED BY <1>1, <1>2, <1>3, <1>4, <1>6, <1>7 DEF ExposureNext

\* What is approved adds its notional and changes nothing else.
LEMMA ApprovalOpens ==
    ASSUME ReserveInv, ReserveInv', NEW o \in Orders, Approve(o), NEW S \in SUBSET Symbols
    PROVE  /\ ValueIn(S)' = ValueIn(S)
           /\ SymbolOf[o] \in S => RestIn(S)' = RestIn(S) + Notional(o)
           /\ SymbolOf[o] \notin S => RestIn(S)' = RestIn(S)
<1> DEFINE T == OfSymbols(S)
<1>0. IsFiniteSet(T) /\ T \subseteq Orders /\ (o \in T <=> SymbolOf[o] \in S)
  BY FiniteParts DEF OfSymbols
<1>t. /\ ExposureTypeOK /\ ExposureTypeOK' /\ Ordered /\ pc \in [Orders -> Phases]
  BY DEF ReserveInv, ExposureTypeOK
<1>1. /\ UNCHANGED <<position, filled>> /\ pc[o] = "decide" /\ pc'[o] = "sending"
      /\ \A x \in Orders \ {o} : pc'[x] = pc[x]
  BY <1>t DEF Approve, Goto
<1>2. ValueTerms' = ValueTerms /\ ValueIn(S)' = ValueIn(S)
  BY <1>1 DEF ValueTerms, ValueIn, BookNotional
<1>3. \A x \in T : RestTerms[x] \in Int /\ RestTerms'[x] \in Int
  <2>1. TermsOK /\ TermsOK'
    BY <1>t, TermTypes, TermTypesAfter
  <2> QED BY <1>0, <2>1 DEF TermsOK
<1>u. UnbookedOK /\ UnbookedOK' /\ filled[o] = 0 /\ o \notin Working /\ o \in Working'
  BY <1>t, <1>1, UnbookedTypes, UnbookedTypesAfter DEF Ordered, Working
<1>4. RestTerms[o] = 0
  BY <1>u DEF RestTerms, UnbookedOK
<1>5. RestTerms'[o] = Notional(o)
  <2>1. Notional(o)' = Notional(o) /\ Notional(o) \in Nat
    BY OrderTypes DEF Notional
  <2>2. Unbooked(o)' = Notional(o)' - filled'[o]
    BY <1>u DEF UnbookedOK
  <2> QED BY <1>1, <1>u, <2>1, <2>2 DEF RestTerms
<1>6. \A x \in Orders : x # o => RestTerms'[x] = RestTerms[x]
  BY <1>1 DEF RestTerms, Unbooked, Working, OpenNotional, Remaining
<1>7. RestIn(S) = SumFunctionOnSet(RestTerms, T) /\ RestIn(S)' = SumFunctionOnSet(RestTerms', T)
  BY DEF RestIn, OfSymbols
<1>8. Notional(o) \in Int /\ RestIn(S) \in Int
  <2>1. TermsOK
    BY <1>t, TermTypes
  <2> QED BY <2>1, OrderTypes DEF TermsOK
<1> HIDE DEF T
<1>9. CASE o \in T
  <2>1. \A x \in T : x # o => RestTerms'[x] = RestTerms[x]
    BY <1>0, <1>6
  <2>2. SumFunctionOnSet(RestTerms', T)
           = SumFunctionOnSet(RestTerms, T) + (RestTerms'[o] - RestTerms[o])
    <3>1. IsFiniteSet(T)
      BY <1>0
    <3> QED BY <1>3, <1>9, <2>1, <3>1, SumOfChanged
  <2>3. RestIn(S)' = RestIn(S) + (RestTerms'[o] - RestTerms[o])
    BY <1>7, <2>2
  <2> QED BY <1>0, <1>2, <1>4, <1>5, <1>8, <1>9, <2>3
<1>10. CASE o \notin T
  <2>1. \A x \in T : RestTerms[x] \in Int /\ RestTerms'[x] = RestTerms[x]
    BY <1>0, <1>3, <1>6, <1>10
  <2>2. RestIn(S)' = RestIn(S)
    BY <1>0, <1>7, <2>1, SumOfSameTerms
  <2> QED BY <1>0, <1>2, <1>10, <2>2
<1> QED BY <1>9, <1>10

\* What was read covers what is approved, so the limits are kept.
LEMMA LimitedStep ==
    ASSUME ReserveInv, ReserveInv', Good, Good', Dated, Checked, Limited,
           [ExposureNext]_exposureVars
    PROVE  Limited'
<1>n. \A S \in SUBSET Symbols :
         /\ ValueIn(S) \in Nat /\ RestIn(S) \in Nat /\ MissedIn(S) \in Nat
         /\ ValueIn(S)' \in Nat /\ RestIn(S)' \in Nat
  <2>1. TermsOK /\ TermsOK'
    BY TermTypes, TermTypesAfter DEF ReserveInv
  <2> QED BY <2>1 DEF TermsOK
<1>s. Symbols \in SUBSET Symbols /\ \A s \in Symbols : {s} \in SUBSET Symbols
  OBVIOUS
<1>l. GrossLimit \in Nat /\ SymbolLimit \in Nat
  BY ExposureAssumption
<1>1. CASE \A o \in Orders : ~Approve(o)
  <2>1. \A S \in SUBSET Symbols : ValueIn(S)' + RestIn(S)' <= ValueIn(S) + RestIn(S)
    BY <1>1, NoApprovalNoMore
  <2>2. ValueIn(Symbols)' + RestIn(Symbols)' <= GrossLimit
    <3>1. ValueIn(Symbols) + RestIn(Symbols) <= GrossLimit
      BY DEF Limited
    <3> QED BY <1>l, <1>n, <1>s, <2>1, <3>1
  <2>3. ASSUME NEW s \in Symbols PROVE ValueIn({s})' + RestIn({s})' <= SymbolLimit
    <3>1. ValueIn({s}) + RestIn({s}) <= SymbolLimit
      BY DEF Limited
    <3> QED BY <1>l, <1>n, <1>s, <2>1, <3>1
  <2> QED BY <2>2, <2>3 DEF Limited
<1>2. ASSUME NEW o \in Orders, Approve(o) PROVE Limited'
  <2>1. /\ pc[o] = "decide"
        /\ seen.current + seen.symbol + Notional(o) <= SymbolLimit
        /\ seen.gross + PendingGross + Notional(o) <= GrossLimit
    BY <1>2 DEF Approve, WithinLimits
  <2>2. /\ SymbolOf[o] \in Symbols /\ Notional(o) \in Nat
        /\ seen.current \in Nat /\ seen.symbol \in Nat /\ seen.gross \in Nat
    BY OrderTypes DEF ReserveInv, ExposureTypeOK
  <2>3. ValueIn(Symbols)' + RestIn(Symbols)' <= GrossLimit
    <3>1. ValueIn(Symbols) <= seen.gross + MissedIn(Symbols)
      BY <2>1 DEF Checked
    <3>2. \A x \in aged : Harmless(x)
      BY <1>2, SweepIsHarmless DEF Approve, Good
    <3>3. RestIn(Symbols) + MissedIn(Symbols) <= PendingGross /\ PendingGross \in Nat
      BY <3>2, ReservationsRead, ReadTypes DEF Good, ReserveInv
    <3>4. /\ ValueIn(Symbols)' = ValueIn(Symbols)
          /\ RestIn(Symbols)' = RestIn(Symbols) + Notional(o)
      BY <1>2, <1>s, <2>2, ApprovalOpens
    <3>5. ValueIn(Symbols) \in Nat /\ RestIn(Symbols) \in Nat /\ MissedIn(Symbols) \in Nat
      BY <1>n, <1>s
    <3> QED BY <1>l, <2>1, <2>2, <3>1, <3>3, <3>4, <3>5
  <2>4. ASSUME NEW s \in Symbols PROVE ValueIn({s})' + RestIn({s})' <= SymbolLimit
    <3>1. ValueIn({s})' = ValueIn({s})
      BY <1>2, <1>s, ApprovalOpens
    <3>2. ValueIn({s}) \in Nat /\ RestIn({s}) \in Nat
      BY <1>n, <1>s
    <3>3. CASE SymbolOf[o] = s
      <4>1. ValueIn({s}) + RestIn({s}) <= seen.current + seen.symbol
        BY <2>1, <3>3 DEF Checked
      <4>2. RestIn({s})' = RestIn({s}) + Notional(o)
        BY <1>2, <1>s, <3>3, ApprovalOpens
      <4> QED BY <1>l, <2>1, <2>2, <3>1, <3>2, <4>1, <4>2
    <3>4. CASE SymbolOf[o] # s
      <4>1. ValueIn({s}) + RestIn({s}) <= SymbolLimit
        BY DEF Limited
      <4>2. RestIn({s})' = RestIn({s})
        BY <1>2, <1>s, <3>4, ApprovalOpens
      <4> QED BY <3>1, <4>1, <4>2
    <3> QED BY <3>3, <3>4
  <2> QED BY <2>3, <2>4 DEF Limited
<1> QED BY <1>1, <1>2

-----------------------------------------------------------------------------
\* What the book does not count of the positions, and of the fills they come
\* from.
ExcessTerms == [s \in Symbols |-> Magnitude(position[s]) * (Multiplier[s] - 1)]
HiddenTerms == [o \in Orders |-> Hidden(o)]

ExcessIn(S) == SumFunctionOnSet(ExcessTerms, S)
HiddenIn(S) == SumFunctionOnSet(HiddenTerms, OfSymbols(S))

\* No position is larger than the fills it comes from.
Booked == \A S \in SUBSET Symbols : ExcessIn(S) <= HiddenIn(S)

ExcessOK ==
    /\ \A s \in Symbols : ExcessTerms[s] \in Nat
    /\ \A o \in Orders : HiddenTerms[o] \in Nat
    /\ \A S \in SUBSET Symbols : ExcessIn(S) \in Nat /\ HiddenIn(S) \in Nat

LEMMA ExcessTypes == ExposureTypeOK => ExcessOK
<1> SUFFICES ASSUME ExposureTypeOK PROVE ExcessOK
  OBVIOUS
<1>1. ASSUME NEW s \in Symbols PROVE ExcessTerms[s] \in Nat
  <2> DEFINE a == Magnitude(position[s])
             m == Multiplier[s] - 1
  <2>1. a \in Nat /\ m \in Nat
    BY ExposureAssumption DEF ExposureTypeOK, Magnitude
  <2>2. ExcessTerms[s] = a * m
    BY DEF ExcessTerms
  <2> HIDE DEF a, m
  <2> QED BY <2>1, <2>2, Products
<1>2. \A o \in Orders : HiddenTerms[o] \in Nat
  BY UnbookedTypes DEF UnbookedOK, HiddenTerms
<1>3. ASSUME NEW S \in SUBSET Symbols PROVE ExcessIn(S) \in Nat /\ HiddenIn(S) \in Nat
  <2>1. IsFiniteSet(S) /\ IsFiniteSet(OfSymbols(S)) /\ OfSymbols(S) \subseteq Orders
    BY FiniteParts
  <2>2. ExcessIn(S) \in Nat
    BY <1>1, <2>1, SumType DEF ExcessIn
  <2>3. HiddenIn(S) \in Nat
    BY <1>2, <2>1, SumType DEF HiddenIn
  <2> QED BY <2>2, <2>3
<1> QED BY <1>1, <1>2, <1>3 DEF ExcessOK

\* The same of the state after a step.
LEMMA ExcessTypesAfter == ExposureTypeOK' => ExcessOK'
  BY ExcessTypes, PTL

\* A trade moves a position by no more than it fills.
LEMMA TradeIsBooked ==
    ASSUME ExposureTypeOK, ExposureTypeOK', Booked,
           NEW o \in Orders, NEW n \in 1 .. Lots[o], RecordTrade(o, n)
    PROVE  Booked'
<1> SUFFICES ASSUME NEW S \in SUBSET Symbols PROVE ExcessIn(S)' <= HiddenIn(S)'
  BY DEF Booked
<1> DEFINE T == OfSymbols(S)
           s == SymbolOf[o]
           m == Multiplier[s] - 1
           x == n * m
<1>0. IsFiniteSet(T) /\ T \subseteq Orders /\ IsFiniteSet(S) /\ (o \in T <=> s \in S)
  BY FiniteParts DEF OfSymbols
<1>1. /\ s \in Symbols /\ Sign[o] \in {1, -1} /\ n \in Nat /\ n > 0 /\ m \in Nat
      /\ Unit(o) - 1 = m
  BY OrderTypes DEF Unit
<1>2. ExcessOK /\ ExcessOK'
  BY ExcessTypes, ExcessTypesAfter
<1>3. /\ position' = [position EXCEPT ![s] = @ + Sign[o] * n] /\ position \in [Symbols -> Int]
      /\ filled' = [filled EXCEPT ![o] = @ + n] /\ filled \in [Orders -> Nat]
  BY DEF RecordTrade, ExposureTypeOK
<1>4. ExcessTerms'[s] <= ExcessTerms[s] + x /\ \A z \in Symbols \ {s} : ExcessTerms'[z] = ExcessTerms[z]
  <2>1. position'[s] = position[s] + Sign[o] * n /\ position[s] \in Int
    BY <1>1, <1>3
  <2> DEFINE a == Magnitude(position[s])
             b == Magnitude(position'[s])
  <2>2. a \in Nat /\ b \in Nat /\ b <= a + n
    BY <1>1, <2>1, MagnitudeMoves
  <2>3. ExcessTerms[s] = a * m /\ ExcessTerms'[s] = b * m
    BY <1>1 DEF ExcessTerms
  <2>4. \A z \in Symbols \ {s} : ExcessTerms'[z] = ExcessTerms[z]
    BY <1>3 DEF ExcessTerms
  <2> HIDE DEF a, b, m
  <2>5. b * m <= (a + n) * m /\ (a + n) * m = a * m + n * m
    <3>1. a + n \in Int /\ a \in Int /\ b \in Int /\ n \in Int
      BY <1>1, <2>2
    <3> QED BY <1>1, <2>2, <3>1, Products
  <2> QED BY <2>3, <2>4, <2>5 DEF x
<1>5. HiddenTerms'[o] = HiddenTerms[o] + x /\ \A z \in Orders \ {o} : HiddenTerms'[z] = HiddenTerms[z]
  <2>1. filled'[o] = filled[o] + n /\ filled[o] \in Nat /\ \A z \in Orders \ {o} : filled'[z] = filled[z]
    BY <1>3
  <2> DEFINE k == filled[o]
  <2>2. HiddenTerms[o] = k * m /\ HiddenTerms'[o] = (k + n) * m /\ k \in Int /\ n \in Int
    BY <1>1, <2>1 DEF HiddenTerms, Hidden, Unit
  <2>3. \A z \in Orders \ {o} : HiddenTerms'[z] = HiddenTerms[z]
    BY <2>1 DEF HiddenTerms, Hidden, Unit
  <2> HIDE DEF k, m
  <2>4. (k + n) * m = k * m + n * m
    BY <1>1, <2>2, Products
  <2> QED BY <2>2, <2>3, <2>4 DEF x
<1>v. \A z \in S : ExcessTerms[z] \in Int /\ ExcessTerms'[z] \in Int
  BY <1>2 DEF ExcessOK
<1>o. \A z \in T : HiddenTerms[z] \in Int /\ HiddenTerms'[z] \in Int
  BY <1>0, <1>2 DEF ExcessOK
<1>d. /\ ExcessIn(S) = SumFunctionOnSet(ExcessTerms, S) /\ ExcessIn(S)' = SumFunctionOnSet(ExcessTerms', S)
      /\ HiddenIn(S) = SumFunctionOnSet(HiddenTerms, T) /\ HiddenIn(S)' = SumFunctionOnSet(HiddenTerms', T)
  BY DEF ExcessIn, HiddenIn, OfSymbols
<1>i. /\ ExcessIn(S) \in Int /\ HiddenIn(S) \in Int /\ ExcessIn(S)' \in Int /\ HiddenIn(S)' \in Int
      /\ ExcessIn(S) <= HiddenIn(S)
  BY <1>2 DEF ExcessOK, Booked
<1>x. x \in Int
  BY <1>1
<1> HIDE DEF T, s, m, x
<1>6. CASE s \in S
  <2>1. ExcessIn(S)' = ExcessIn(S) + (ExcessTerms'[s] - ExcessTerms[s])
    <3>1. \A z \in S : z # s => ExcessTerms'[z] = ExcessTerms[z]
      BY <1>4
    <3>2. SumFunctionOnSet(ExcessTerms', S)
             = SumFunctionOnSet(ExcessTerms, S) + (ExcessTerms'[s] - ExcessTerms[s])
      <4>1. IsFiniteSet(S)
        BY <1>0
      <4> QED BY <1>6, <1>v, <3>1, <4>1, SumOfChanged
    <3> QED BY <1>d, <3>2
  <2>2. HiddenIn(S)' = HiddenIn(S) + (HiddenTerms'[o] - HiddenTerms[o])
    <3>1. \A z \in T : z # o => HiddenTerms'[z] = HiddenTerms[z]
      BY <1>0, <1>5
    <3> QED BY <1>0, <1>6, <1>o, <1>d, <3>1, SumOfChanged
  <2>3. /\ ExcessTerms'[s] \in Int /\ ExcessTerms[s] \in Int
        /\ HiddenTerms'[o] \in Int /\ HiddenTerms[o] \in Int
    BY <1>0, <1>6, <1>v, <1>o
  <2> QED BY <1>4, <1>5, <1>i, <1>x, <2>1, <2>2, <2>3
<1>7. CASE s \notin S
  <2>1. ExcessIn(S)' = ExcessIn(S)
    <3>1. \A z \in S : ExcessTerms[z] \in Int /\ ExcessTerms'[z] = ExcessTerms[z]
      BY <1>4, <1>7, <1>v
    <3> QED BY <1>0, <1>d, <3>1, SumOfSameTerms
  <2>2. HiddenIn(S)' = HiddenIn(S)
    <3>1. \A z \in T : HiddenTerms[z] \in Int /\ HiddenTerms'[z] = HiddenTerms[z]
      BY <1>0, <1>5, <1>7, <1>o
    <3> QED BY <1>0, <1>d, <3>1, SumOfSameTerms
  <2> QED BY <1>i, <2>1, <2>2
<1> QED BY <1>6, <1>7

\* No other step fills anything.
LEMMA BookedStep ==
    ReserveInv /\ ReserveInv' /\ Booked /\ [ExposureNext]_exposureVars => Booked'
<1> SUFFICES ASSUME ReserveInv, ReserveInv', Booked, [ExposureNext]_exposureVars PROVE Booked'
  OBVIOUS
<1>1. CASE \E o \in Orders : \E n \in 1 .. Lots[o] : RecordTrade(o, n)
  BY <1>1, TradeIsBooked DEF ReserveInv
<1>2. CASE ~\E o \in Orders : \E n \in 1 .. Lots[o] : RecordTrade(o, n)
  <2>1. UNCHANGED <<position, filled>>
    BY <1>2 DEF ExposureNext, exposureVars, BeginCheck, ReadPendingSymbol, ReadPositions,
           Approve, Reject, VenueAccepts, SubmitReturns, SubmitFails, VenueCancels, Age,
           ReduceReads, ReduceWrites
  <2>2. \A S : ExcessIn(S)' = ExcessIn(S) /\ HiddenIn(S)' = HiddenIn(S)
    BY <2>1 DEF ExcessIn, ExcessTerms, HiddenIn, HiddenTerms, Hidden, Unit, OfSymbols
  <2> QED BY <2>2 DEF Booked
<1> QED BY <1>1, <1>2

\* What is approved was counted.
ExposureInv == ReserveInv /\ Booked /\ (Good => Dated /\ Checked /\ Limited)

\* Nothing is owned, reserved or open at the start.
LEMMA ExposureInvInit == ExposureInit => ExposureInv
<1> SUFFICES ASSUME ExposureInit PROVE ExposureInv
  OBVIOUS
<1>1. ReserveInv /\ UnbookedOK
  BY ReserveInit, UnbookedTypes DEF ReserveInv
<1>2. Dated
  BY DEF ExposureInit, Dated
<1>3. Checked
  BY DEF ExposureInit, Checked
<1>z. \A s \in Symbols : Magnitude(position[s]) = 0 /\ Multiplier[s] \in Nat
  BY ExposureAssumption DEF ExposureInit, Magnitude
<1>4. ASSUME NEW S \in SUBSET Symbols
      PROVE  ValueIn(S) = 0 /\ RestIn(S) = 0 /\ ExcessIn(S) = 0 /\ HiddenIn(S) = 0
  <2>1. IsFiniteSet(S) /\ IsFiniteSet(OfSymbols(S)) /\ OfSymbols(S) \subseteq Orders
    BY FiniteParts
  <2>2. \A s \in S : ValueTerms[s] = 0 /\ ExcessTerms[s] = 0
    BY <1>z DEF ValueTerms, BookNotional, ExcessTerms
  <2>3. \A o \in OfSymbols(S) : RestTerms[o] = 0 /\ HiddenTerms[o] = 0
    BY <1>1, <2>1 DEF ExposureInit, UnbookedOK, RestTerms, HiddenTerms, Working
  <2> QED BY <2>1, <2>2, <2>3, SumOfNothing DEF ValueIn, RestIn, ExcessIn, HiddenIn
<1>5. Limited
  <2>1. Symbols \in SUBSET Symbols /\ \A s \in Symbols : {s} \in SUBSET Symbols
    OBVIOUS
  <2> QED BY <1>4, <2>1, ExposureAssumption DEF Limited
<1>6. Booked
  BY <1>4 DEF Booked
<1> QED BY <1>1, <1>2, <1>3, <1>5, <1>6 DEF ExposureInv

\* Every step keeps all of it.
LEMMA ExposureInvStep == ExposureInv /\ [ExposureNext]_exposureVars => ExposureInv'
<1> SUFFICES ASSUME ExposureInv, [ExposureNext]_exposureVars PROVE ExposureInv'
  OBVIOUS
<1>1. ReserveInv /\ ReserveInv' /\ Booked'
  BY ReserveStep, BookedStep DEF ExposureInv
<1>2. ASSUME Good' PROVE Dated' /\ Checked' /\ Limited'
  <2>1. Good /\ Dated /\ Checked /\ Limited
    BY <1>1, <1>2, GoodBefore DEF ExposureInv
  <2> QED BY <1>1, <1>2, <2>1, DatedStep, CheckedStep, LimitedStep
<1> QED BY <1>1, <1>2 DEF ExposureInv

\* What is owned and open is what the check reads of it and what it does not.
LEMMA WorthIsCovered ==
    ASSUME ReserveInv, Booked, NEW S \in SUBSET Symbols
    PROVE  SumFunctionOnSet([s \in Symbols |-> Owned(s)], S)
               + OpenOf({o \in Working : SymbolOf[o] \in S})
             <= ValueIn(S) + RestIn(S)
<1> DEFINE f == [o \in Orders |-> OpenNotional(o)]
           g == [s \in Symbols |-> Owned(s)]
           w == [o \in Orders |-> IF o \in Working THEN OpenNotional(o) ELSE 0]
           T == {o \in Working : SymbolOf[o] \in S}
           U == OfSymbols(S)
<1>0. /\ IsFiniteSet(U) /\ U \subseteq Orders /\ IsFiniteSet(S) /\ T \subseteq U
      /\ \A o \in U \ T : o \notin Working
      /\ \A o \in T : o \in Working
  BY FiniteParts DEF OfSymbols, Working
<1>t. ExposureTypeOK /\ UnbookedOK /\ TermsOK /\ ExcessOK
  BY UnbookedTypes, TermTypes, ExcessTypes DEF ReserveInv
<1>1. \A o \in Orders : /\ f[o] \in Nat
                        /\ o \in Working => w[o] = f[o]
                        /\ o \notin Working => w[o] = 0
                        /\ w[o] \in Int /\ HiddenTerms[o] \in Int
                        /\ RestTerms[o] = w[o] + HiddenTerms[o]
  BY <1>t, OpenTypes DEF UnbookedOK, RestTerms, HiddenTerms
<1>2. \A s \in S : /\ ValueTerms[s] \in Int /\ ExcessTerms[s] \in Int
                   /\ g[s] = ValueTerms[s] + ExcessTerms[s]
  <2> SUFFICES ASSUME NEW s \in S
               PROVE  /\ ValueTerms[s] \in Int /\ ExcessTerms[s] \in Int
                      /\ g[s] = ValueTerms[s] + ExcessTerms[s]
    OBVIOUS
  <2> DEFINE a == Magnitude(position[s])
             m == Multiplier[s]
  <2>1. s \in Symbols /\ a \in Int /\ m \in Nat /\ m >= 1
    BY ExposureAssumption, <1>t DEF ExposureTypeOK, Magnitude
  <2>2. ValueTerms[s] = a /\ ExcessTerms[s] = a * (m - 1) /\ g[s] = a * m
    BY <2>1 DEF ValueTerms, BookNotional, ExcessTerms, Owned
  <2> HIDE DEF a, m, g
  <2>3. a * (m - 1) = a * m - a /\ a * m \in Int
    BY <2>1
  <2> QED BY <2>1, <2>2, <2>3
<1>3. SumFunctionOnSet([s \in Symbols |-> Owned(s)], S) = SumFunctionOnSet(g, S)
      /\ OpenOf(T) = SumFunctionOnSet(f, T)
  BY DEF OpenOf
<1>4. /\ ValueIn(S) = SumFunctionOnSet(ValueTerms, S)
      /\ ExcessIn(S) = SumFunctionOnSet(ExcessTerms, S)
      /\ RestIn(S) = SumFunctionOnSet(RestTerms, U)
      /\ HiddenIn(S) = SumFunctionOnSet(HiddenTerms, U)
  BY DEF ValueIn, ExcessIn, RestIn, HiddenIn
<1>5. /\ ValueIn(S) \in Int /\ ExcessIn(S) \in Int /\ RestIn(S) \in Int /\ HiddenIn(S) \in Int
      /\ ExcessIn(S) <= HiddenIn(S)
  BY <1>t DEF TermsOK, ExcessOK, Booked
<1> HIDE DEF f, g, w, T, U
<1>6. SumFunctionOnSet(g, S) = ValueIn(S) + ExcessIn(S)
  BY <1>0, <1>2, <1>4, SumOfSums
<1>7. SumFunctionOnSet(RestTerms, U) = SumFunctionOnSet(w, U) + SumFunctionOnSet(HiddenTerms, U)
  <2>1. \A o \in U : w[o] \in Int /\ HiddenTerms[o] \in Int /\ RestTerms[o] = w[o] + HiddenTerms[o]
    BY <1>0, <1>1
  <2> QED BY <1>0, <2>1, SumOfSums
<1>8. SumFunctionOnSet(w, U) = SumFunctionOnSet(f, T) /\ SumFunctionOnSet(w, U) \in Int
  <2>1. \A o \in T : f[o] \in Int /\ w[o] = f[o]
    BY <1>0, <1>1
  <2>2. \A o \in U \ T : w[o] = 0
    BY <1>0, <1>1
  <2>3. \A o \in U : w[o] \in Int
    BY <1>0, <1>1
  <2> QED BY <1>0, <2>1, <2>2, <2>3, SumOfPart, SumType
<1>9. SumFunctionOnSet(g, S) + OpenOf(T) <= ValueIn(S) + RestIn(S)
  BY <1>3, <1>4, <1>5, <1>6, <1>7, <1>8
<1> QED BY <1>9 DEF g, T

\* So the limits on what the check counts are limits on the worth.
LEMMA LimitedIsWithin == ReserveInv /\ Booked /\ Limited => WithinBothLimits
<1> SUFFICES ASSUME ReserveInv, Booked, Limited PROVE WithinBothLimits
  OBVIOUS
<1> DEFINE g == [s \in Symbols |-> Owned(s)]
<1>t. ExposureTypeOK /\ TermsOK
  BY TermTypes DEF ReserveInv
<1>1. \A s \in Symbols : g[s] = Owned(s) /\ Owned(s) \in Nat
  <2> SUFFICES ASSUME NEW s \in Symbols PROVE Owned(s) \in Nat
    OBVIOUS
  <2> DEFINE a == Magnitude(position[s])
             m == Multiplier[s]
  <2>1. a \in Nat /\ m \in Nat /\ Owned(s) = a * m
    BY <1>t, ExposureAssumption DEF ExposureTypeOK, Magnitude, Owned
  <2> HIDE DEF a, m
  <2> QED BY <2>1, Products
<1>2. \A S \in SUBSET Symbols :
         SumFunctionOnSet(g, S) + OpenOf({o \in Working : SymbolOf[o] \in S})
             <= ValueIn(S) + RestIn(S)
  BY WorthIsCovered
<1>3. /\ Symbols \in SUBSET Symbols /\ \A s \in Symbols : {s} \in SUBSET Symbols
      /\ IsFiniteSet(Symbols) /\ GrossLimit \in Nat /\ SymbolLimit \in Nat
  BY ExposureAssumption
<1>4. ASSUME NEW os \in SUBSET Orders PROVE OpenOf(os) \in Nat
  <2> DEFINE f == [o \in Orders |-> OpenNotional(o)]
  <2>1. \A o \in os : f[o] \in Nat
    BY <1>t, OpenTypes
  <2>2. IsFiniteSet(os) /\ OpenOf(os) = SumFunctionOnSet(f, os)
    BY FS_Subset, ExposureAssumption DEF OpenOf
  <2> HIDE DEF f
  <2> QED BY <2>1, <2>2, SumType
<1>5. Exposed = SumFunctionOnSet(g, Symbols) + OpenOf(Working)
  BY DEF Exposed
<1> HIDE DEF g
<1>6. Exposed <= GrossLimit
  <2>1. {o \in Working : SymbolOf[o] \in Symbols} = Working /\ Working \in SUBSET Orders
    BY ExposureAssumption DEF Working
  <2>2. Exposed <= ValueIn(Symbols) + RestIn(Symbols)
    BY <1>2, <1>3, <1>5, <2>1
  <2>3. Exposed \in Int /\ ValueIn(Symbols) \in Int /\ RestIn(Symbols) \in Int
    BY <1>1, <1>3, <1>4, <1>5, <1>t, <2>1, SumType DEF TermsOK
  <2> QED BY <1>3, <2>2, <2>3 DEF Limited
<1>7. ASSUME NEW s \in Symbols PROVE ExposedIn(s) <= SymbolLimit
  <2>1. {o \in Working : SymbolOf[o] \in {s}} = {o \in Working : SymbolOf[o] = s}
    OBVIOUS
  <2> DEFINE W == {o \in Working : SymbolOf[o] = s}
  <2>2. W \in SUBSET Orders
    BY DEF Working
  <2>3. ExposedIn(s) = Owned(s) + OpenOf(W)
    BY DEF ExposedIn
  <2>4. SumFunctionOnSet(g, {s}) + OpenOf(W) <= ValueIn({s}) + RestIn({s})
    BY <1>2, <1>3, <2>1
  <2> HIDE DEF W
  <2>5. SumFunctionOnSet(g, {s}) = Owned(s)
    <3>1. g[s] = Owned(s) /\ g[s] \in Int
      BY <1>1
    <3> QED BY <3>1, SumOfOne
  <2>6. Owned(s) \in Int /\ OpenOf(W) \in Int /\ ValueIn({s}) \in Int /\ RestIn({s}) \in Int
    BY <1>1, <1>3, <1>4, <1>t, <2>2 DEF TermsOK
  <2> QED BY <1>3, <2>3, <2>4, <2>5, <2>6 DEF Limited
<1> QED BY <1>6, <1>7 DEF WithinBothLimits

\* check_order and the fills: what the account owns, at its worth, and what its
\* working orders may still add stay within the gross limit and the limit of every
\* symbol, for any orders, multipliers and limits, however the four reads of a
\* check interleave with the fills, the releases, the sweeps and the failures of
\* other orders, although the check values a position for one per lot: the rest
\* is in the reservation its order is left with.  So it holds as long as no sweep
\* removed that or the reservation of a working order, no order at the venue was
\* given up and no fill moved from the reservations to the positions inside one
\* check.
THEOREM ExposureStaysWithinLimits == ExposureSpec => []ExposureWithinLimits
<1>1. ExposureInv => ExposureWithinLimits
  BY LimitedIsWithin DEF ExposureInv, Good, ExposureWithinLimits
<1> QED BY <1>1, ExposureInvInit, ExposureInvStep, PTL DEF ExposureSpec
=============================================================================
