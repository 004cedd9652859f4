-------------------------- MODULE CollectionLemmas --------------------------
(***************************************************************************)
(* What the proofs need to know of sequences and of sums.                  *)
(*                                                                         *)
(* The event buses keep queues and windows that grow at their end and are  *)
(* cut at their front, in which no element comes twice, and counters.      *)
(* Fills, reservations, losses and tokens are added up, with               *)
(* SumFunctionOnSet and SumFunction of the module Functions.               *)
(*                                                                         *)
(* The induction theorems of the library take an operator as a parameter;  *)
(* FiniteSetInduction and NaturalInduction say the same of a set, from the *)
(* well-founded ordering of finite sets.                                   *)
(***************************************************************************)
EXTENDS Integers, Sequences, SequencesExt, SequenceTheorems,
        FiniteSetTheorems, TLAPS

(***************************************************************************)
(* Sequences and counters.                                                 *)
(***************************************************************************)
\* No element comes twice.
Distinct(s) == \A i, j \in 1 .. Len(s) : s[i] = s[j] => i = j

\* The set of a sequence's elements is one of its carrier.
LEMMA ElementsAreTyped ==
    ASSUME NEW S, NEW s \in Seq(S)
    PROVE  ToSet(s) \subseteq S /\ ToSet(s) = {s[i] : i \in 1 .. Len(s)}
<1>1. DOMAIN s = 1 .. Len(s)
  BY LenProperties
<1>2. \A i \in 1 .. Len(s) : s[i] \in S
  BY ElementOfSeq
<1> QED BY <1>1, <1>2 DEF ToSet

\* The head of a sequence and the elements of its tail.
LEMMA TailElements ==
    ASSUME NEW S, NEW s \in Seq(S), s # <<>>
    PROVE  /\ Head(s) \in S /\ Tail(s) \in Seq(S)
           /\ ToSet(s) = {Head(s)} \cup ToSet(Tail(s))
           /\ Distinct(s) => Distinct(Tail(s)) /\ Head(s) \notin ToSet(Tail(s))
<1>1. /\ Head(s) \in S /\ Tail(s) \in Seq(S) /\ Head(s) = s[1]
      /\ Len(s) \in Nat \ {0} /\ Len(Tail(s)) = Len(s) - 1
      /\ \A i \in 1 .. Len(Tail(s)) : Tail(s)[i] = s[i + 1]
  BY HeadTailProperties, LenProperties, EmptySeq
<1>2. ToSet(s) = {s[i] : i \in 1 .. Len(s)}
  BY ElementsAreTyped
<1>3. ToSet(Tail(s)) = {Tail(s)[i] : i \in 1 .. Len(Tail(s))}
  BY <1>1, ElementsAreTyped
<1>4. ToSet(s) = {Head(s)} \cup ToSet(Tail(s))
  <2>1. ASSUME NEW x \in ToSet(s) PROVE x = Head(s) \/ x \in ToSet(Tail(s))
    <3>1. PICK i \in 1 .. Len(s) : x = s[i]
      BY <1>2, <2>1
    <3>2. CASE i = 1
      BY <1>1, <3>1, <3>2
    <3>3. CASE i # 1
      <4>1. i - 1 \in 1 .. Len(Tail(s)) /\ Tail(s)[i - 1] = s[i]
        BY <1>1, <3>1, <3>3
      <4> QED BY <1>3, <3>1, <4>1
    <3> QED BY <3>2, <3>3
  <2>2. Head(s) \in ToSet(s)
    BY <1>1, <1>2
  <2>3. ASSUME NEW x \in ToSet(Tail(s)) PROVE x \in ToSet(s)
    <3>1. PICK i \in 1 .. Len(Tail(s)) : x = Tail(s)[i]
      BY <1>3, <2>3
    <3>2. i + 1 \in 1 .. Len(s) /\ x = s[i + 1]
      BY <1>1, <3>1
    <3> QED BY <1>2, <3>2
  <2> QED BY <2>1, <2>2, <2>3
<1>5. ASSUME Distinct(s) PROVE Distinct(Tail(s)) /\ Head(s) \notin ToSet(Tail(s))
  <2>1. \A i, j \in 1 .. Len(s) : s[i] = s[j] => i = j
    BY <1>5 DEF Distinct
  <2>2. \A i \in 1 .. Len(Tail(s)) : i + 1 \in 1 .. Len(s) /\ i + 1 # 1 /\ 1 \in 1 .. Len(s)
    BY <1>1
  <2>3. \A i, j \in 1 .. Len(Tail(s)) : Tail(s)[i] = Tail(s)[j] => i = j
    <3> SUFFICES ASSUME NEW i \in 1 .. Len(Tail(s)), NEW j \in 1 .. Len(Tail(s)),
                        Tail(s)[i] = Tail(s)[j]
                 PROVE  i = j
      OBVIOUS
    <3>1. i + 1 = j + 1
      BY <1>1, <2>1, <2>2
    <3> QED BY <3>1
  <2>4. \A i \in 1 .. Len(Tail(s)) : Tail(s)[i] # Head(s)
    BY <1>1, <2>1, <2>2
  <2> QED BY <1>3, <2>3, <2>4 DEF Distinct
<1> QED BY <1>1, <1>4, <1>5

\* The elements of a sequence with one more.
LEMMA AppendElements ==
    ASSUME NEW S, NEW s \in Seq(S), NEW x \in S
    PROVE  /\ Append(s, x) \in Seq(S) /\ Len(Append(s, x)) = Len(s) + 1
           /\ Append(s, x) # <<>>
           /\ ToSet(Append(s, x)) = ToSet(s) \cup {x}
           /\ Distinct(s) /\ x \notin ToSet(s) => Distinct(Append(s, x))
<1>1. /\ Append(s, x) \in Seq(S) /\ Len(Append(s, x)) = Len(s) + 1 /\ Len(s) \in Nat
      /\ \A i \in 1 .. Len(s) : Append(s, x)[i] = s[i]
      /\ Append(s, x)[Len(s) + 1] = x
      /\ Append(s, x) # <<>>
  BY AppendProperties, LenProperties, EmptySeq
<1>2. ToSet(s) = {s[i] : i \in 1 .. Len(s)}
  BY ElementsAreTyped
<1>3. ToSet(Append(s, x)) = {Append(s, x)[i] : i \in 1 .. Len(s) + 1}
  BY <1>1, ElementsAreTyped
<1>4. 1 .. Len(s) + 1 = 1 .. Len(s) \cup {Len(s) + 1}
  BY <1>1
<1>5. ToSet(Append(s, x)) = ToSet(s) \cup {x}
  BY <1>1, <1>2, <1>3, <1>4
<1>6. ASSUME Distinct(s), x \notin ToSet(s) PROVE Distinct(Append(s, x))
  BY <1>1, <1>2, <1>4, <1>6 DEF Distinct
<1> QED BY <1>1, <1>5, <1>6

\* A sequence with one element taken out.
LEMMA RemoveAtElements ==
    ASSUME NEW S, NEW s \in Seq(S), NEW i \in DOMAIN s
    PROVE  /\ RemoveAt(s, i) \in Seq(S)
           /\ Distinct(s) => Distinct(RemoveAt(s, i))
<1> DEFINE a == SubSeq(s, 1, i - 1)
           b == SubSeq(s, i + 1, Len(s))
<1>1. Len(s) \in Nat /\ i \in 1 .. Len(s)
  BY LenProperties
<1>2. /\ a \in Seq(S) /\ Len(a) = i - 1
      /\ \A j \in 1 .. Len(a) : a[j] = s[j]
  BY <1>1, SubSeqProperties
<1>3. /\ b \in Seq(S) /\ Len(b) = Len(s) - i
      /\ \A j \in 1 .. Len(b) : b[j] = s[i + j]
  BY <1>1, SubSeqProperties
<1> HIDE DEF a, b
<1> DEFINE c == a \o b
<1>4. /\ c \in Seq(S) /\ Len(c) = Len(s) - 1
      /\ \A j \in 1 .. Len(c) : c[j] = IF j <= Len(a) THEN a[j] ELSE b[j - Len(a)]
  <2>1. /\ c \in Seq(S) /\ Len(c) = Len(a) + Len(b)
        /\ \A j \in 1 .. Len(a) + Len(b) :
              c[j] = IF j <= Len(a) THEN a[j] ELSE b[j - Len(a)]
    BY <1>2, <1>3, ConcatProperties
  <2>2. Len(a) + Len(b) = Len(s) - 1
    BY <1>1, <1>2, <1>3
  <2> HIDE DEF c
  <2> QED BY <2>1, <2>2
<1> HIDE DEF c
<1>5. \A j \in 1 .. Len(c) : j < i => c[j] = s[j]
  <2> SUFFICES ASSUME NEW j \in 1 .. Len(c), j < i PROVE c[j] = s[j]
    OBVIOUS
  <2>1. j <= Len(a) /\ j \in 1 .. Len(a)
    BY <1>1, <1>2, <1>4
  <2> QED BY <1>2, <1>4, <2>1
<1>6. \A j \in 1 .. Len(c) : j >= i => c[j] = s[j + 1]
  <2> SUFFICES ASSUME NEW j \in 1 .. Len(c), j >= i PROVE c[j] = s[j + 1]
    OBVIOUS
  <2>1. c[j] = b[j - Len(a)] /\ j - Len(a) \in 1 .. Len(b) /\ i + (j - Len(a)) = j + 1
    BY <1>1, <1>2, <1>3, <1>4
  <2> QED BY <1>3, <2>1
<1>7. RemoveAt(s, i) = c
  BY DEF RemoveAt, a, b, c
<1>8. ASSUME Distinct(s) PROVE Distinct(c)
  <2> SUFFICES ASSUME NEW j \in 1 .. Len(c), NEW k \in 1 .. Len(c), c[j] = c[k]
               PROVE  j = k
    BY DEF Distinct
  <2> DEFINE p(x) == IF x < i THEN x ELSE x + 1
  <2>1. p(j) \in 1 .. Len(s) /\ p(k) \in 1 .. Len(s) /\ s[p(j)] = s[p(k)]
    <3>1. ASSUME NEW x \in 1 .. Len(c) PROVE p(x) \in 1 .. Len(s) /\ c[x] = s[p(x)]
      <4>1. CASE x < i
        <5>1. p(x) = x
          BY <4>1
        <5>2. x \in 1 .. Len(s)
          BY <1>1, <1>4, <3>1
        <5> QED BY <1>5, <3>1, <4>1, <5>1, <5>2
      <4>2. CASE x >= i
        BY <1>1, <1>4, <1>6, <3>1, <4>2
      <4> QED BY <1>1, <3>1, <4>1, <4>2
    <3> HIDE DEF p
    <3>2. c[j] = s[p(j)] /\ c[k] = s[p(k)]
      BY <3>1
    <3> QED BY <3>1, <3>2
  <2>2. p(j) = p(k)
    BY <1>8, <2>1 DEF Distinct
  <2> QED BY <1>1, <2>2
<1> QED BY <1>4, <1>7, <1>8

\* Nothing is in an empty sequence.
LEMMA NothingLeft == ToSet(<<>>) = {}
<1>1. DOMAIN <<>> = {}
  OBVIOUS
<1> QED BY <1>1 DEF ToSet

\* A counter of one key goes up by one and the others stay.
LEMMA CountedUp ==
    ASSUME NEW K, NEW f \in [K -> Nat], NEW k \in K
    PROVE  /\ [f EXCEPT ![k] = @ + 1] \in [K -> Nat]
           /\ [f EXCEPT ![k] = @ + 1][k] = f[k] + 1
           /\ \A x \in K : x # k => [f EXCEPT ![k] = @ + 1][x] = f[x]
           /\ \A x \in K : [f EXCEPT ![k] = @ + 1][x] >= f[x]
<1>1. f[k] + 1 >= f[k] /\ \A x \in K : f[x] \in Nat /\ f[x] >= f[x]
  OBVIOUS
<1>2. \A x \in K : [f EXCEPT ![k] = @ + 1][x] = IF x = k THEN f[k] + 1 ELSE f[x]
  OBVIOUS
<1> QED BY <1>1, <1>2

\* The two parts of a sequence that is cut after n elements.
FirstPart(s, n) == SubSeq(s, 1, n)
LastPart(s, n)  == SubSeq(s, n + 1, Len(s))

\* The parts, their elements, and that they have none in common.
LEMMA CutElements ==
    ASSUME NEW S, NEW s \in Seq(S), NEW n \in 0 .. Len(s)
    PROVE  /\ FirstPart(s, n) \in Seq(S) /\ LastPart(s, n) \in Seq(S)
           /\ Len(FirstPart(s, n)) = n /\ Len(LastPart(s, n)) = Len(s) - n
           /\ \A i \in 1 .. n : FirstPart(s, n)[i] = s[i]
           /\ \A i \in 1 .. Len(s) - n : LastPart(s, n)[i] = s[n + i]
           /\ ToSet(s) = ToSet(FirstPart(s, n)) \cup ToSet(LastPart(s, n))
           /\ Distinct(s) => /\ Distinct(FirstPart(s, n)) /\ Distinct(LastPart(s, n))
                             /\ ToSet(FirstPart(s, n)) \cap ToSet(LastPart(s, n)) = {}
<1> DEFINE a == FirstPart(s, n)
           b == LastPart(s, n)
<1>1. Len(s) \in Nat /\ n \in Nat /\ n <= Len(s)
  BY LenProperties
<1>2. a \in Seq(S) /\ Len(a) = n /\ \A i \in 1 .. Len(a) : a[i] = s[i]
  BY <1>1, SubSeqProperties DEF FirstPart
<1>3. b \in Seq(S) /\ Len(b) = Len(s) - n /\ \A i \in 1 .. Len(b) : b[i] = s[n + i]
  BY <1>1, SubSeqProperties DEF LastPart
<1> HIDE DEF a, b
<1>4. /\ ToSet(s) = {s[i] : i \in 1 .. Len(s)}
      /\ ToSet(a) = {a[i] : i \in 1 .. Len(a)}
      /\ ToSet(b) = {b[i] : i \in 1 .. Len(b)}
  <2>1. DOMAIN s = 1 .. Len(s) /\ DOMAIN a = 1 .. Len(a) /\ DOMAIN b = 1 .. Len(b)
    BY <1>2, <1>3, LenProperties
  <2> QED BY <2>1 DEF ToSet
<1>5. /\ \A i \in 1 .. Len(a) : i \in 1 .. Len(s)
      /\ \A i \in 1 .. Len(b) : n + i \in 1 .. Len(s)
      /\ \A i \in 1 .. Len(s) : i \in 1 .. Len(a) \/ (i - n \in 1 .. Len(b) /\ n + (i - n) = i)
  BY <1>1, <1>2, <1>3
<1>6. ToSet(s) = ToSet(a) \cup ToSet(b)
  <2>1. ASSUME NEW x \in ToSet(s) PROVE x \in ToSet(a) \cup ToSet(b)
    <3>1. PICK i \in 1 .. Len(s) : x = s[i]
      BY <1>4, <2>1
    <3>2. CASE i \in 1 .. Len(a)
      BY <1>2, <1>4, <3>1, <3>2
    <3>3. CASE i - n \in 1 .. Len(b) /\ n + (i - n) = i
      <4>1. b[i - n] = s[i]
        BY <1>3, <3>3
      <4> QED BY <1>4, <3>1, <3>3, <4>1
    <3> QED BY <1>5, <3>2, <3>3
  <2>2. ASSUME NEW x \in ToSet(a) PROVE x \in ToSet(s)
    BY <1>2, <1>4, <1>5, <2>2
  <2>3. ASSUME NEW x \in ToSet(b) PROVE x \in ToSet(s)
    BY <1>3, <1>4, <1>5, <2>3
  <2> QED BY <2>1, <2>2, <2>3
<1>7. ASSUME Distinct(s) PROVE Distinct(a) /\ Distinct(b) /\ ToSet(a) \cap ToSet(b) = {}
  <2>1. \A i, j \in 1 .. Len(s) : s[i] = s[j] => i = j
    BY <1>7 DEF Distinct
  <2>2. Distinct(a)
    BY <1>2, <1>5, <2>1 DEF Distinct
  <2>3. ASSUME NEW i \in 1 .. Len(b), NEW j \in 1 .. Len(b), b[i] = b[j] PROVE i = j
    <3>1. n + i = n + j
      BY <1>3, <1>5, <2>1, <2>3
    <3> QED BY <1>1, <3>1
  <2>4. ASSUME NEW i \in 1 .. Len(a), NEW j \in 1 .. Len(b), a[i] = b[j] PROVE FALSE
    <3>1. i = n + j
      BY <1>2, <1>3, <1>5, <2>1, <2>4
    <3> QED BY <1>1, <1>2, <3>1
  <2>5. Distinct(b)
    BY <2>3 DEF Distinct
  <2>6. ASSUME NEW x \in ToSet(a), x \in ToSet(b) PROVE FALSE
    <3>1. PICK i \in 1 .. Len(a) : x = a[i]
      BY <1>4, <2>6
    <3>2. PICK j \in 1 .. Len(b) : x = b[j]
      BY <1>4, <2>6
    <3> QED BY <2>4, <3>1, <3>2
  <2> QED BY <2>2, <2>5, <2>6
<1> QED BY <1>2, <1>3, <1>6, <1>7 DEF a, b

\* How often an element comes in a sequence that has no element twice.
LEMMA CountOfDistinct ==
    ASSUME NEW S, NEW s \in Seq(S), Distinct(s), NEW x
    PROVE  Cardinality({i \in DOMAIN s : s[i] = x}) = IF x \in ToSet(s) THEN 1 ELSE 0
<1>1. DOMAIN s = 1 .. Len(s) /\ ToSet(s) = {s[i] : i \in 1 .. Len(s)}
  BY LenProperties DEF ToSet
<1>2. CASE x \in ToSet(s)
  <2>1. PICK k \in 1 .. Len(s) : s[k] = x
    BY <1>1, <1>2
  <2>2. {i \in DOMAIN s : s[i] = x} = {k}
    BY <1>1, <2>1 DEF Distinct
  <2> QED BY <1>2, <2>2, FS_Singleton
<1>3. CASE x \notin ToSet(s)
  <2>1. {i \in DOMAIN s : s[i] = x} = {}
    BY <1>1, <1>3
  <2> QED BY <1>3, <2>1, FS_EmptySet
<1> QED BY <1>2, <1>3


(***************************************************************************)
(* Induction.                                                              *)
(***************************************************************************)
\* A set of finite sets that holds the empty set, and with a set the set with
\* one more element, holds every finite set.
LEMMA FiniteSetInduction ==
    ASSUME NEW S, IsFiniteSet(S), NEW G, {} \in G,
           \A T \in SUBSET S, x \in S : T \in G => T \cup {x} \in G
    PROVE  S \in G
<1> SUFFICES ASSUME S \notin G PROVE FALSE
  OBVIOUS
<1> DEFINE Bad == {T \in SUBSET S : T \notin G}
<1>1. Bad \subseteq FiniteSubsetsOf(S) /\ Bad # {}
  BY FS_Subset DEF FiniteSubsetsOf
<1>2. PICK T \in Bad : \A U \in Bad : <<U, T>> \notin StrictSubsetOrdering(S)
  BY <1>1, FS_StrictSubsetOrderingWellFounded, WFMin
<1>3. PICK x \in T : TRUE
  OBVIOUS
<1>4. T \ {x} \notin Bad /\ T \ {x} \in SUBSET S
  BY <1>2, <1>3 DEF StrictSubsetOrdering
<1>5. (T \ {x}) \cup {x} = T /\ x \in S
  BY <1>3
<1> QED BY <1>2, <1>4, <1>5

\* The natural numbers: zero, and with a number the next one.
LEMMA NaturalInduction ==
    ASSUME NEW G, 0 \in G, \A n \in Nat : n \in G => n + 1 \in G
    PROVE  Nat \subseteq G
<1> SUFFICES ASSUME NEW k \in Nat, k \notin G PROVE FALSE
  OBVIOUS
<1> DEFINE Bad == {n \in Nat : n \notin G}
           Initial == {0 .. n : n \in Bad}
<1>1. Initial \subseteq FiniteSubsetsOf(Nat) /\ Initial # {}
  <2>1. \A n \in Nat : IsFiniteSet(0 .. n) /\ 0 .. n \in SUBSET Nat
    BY FS_Interval
  <2> QED BY <2>1 DEF FiniteSubsetsOf
<1>2. PICK T \in Initial : \A U \in Initial : <<U, T>> \notin StrictSubsetOrdering(Nat)
  BY <1>1, FS_StrictSubsetOrderingWellFounded, WFMin
<1>3. PICK n \in Bad : T = 0 .. n
  BY <1>2
<1>4. n # 0 /\ n - 1 \in Nat /\ n - 1 \in Bad
  BY <1>3
<1>5. 0 .. n - 1 \in Initial /\ 0 .. n - 1 \subseteq T /\ 0 .. n - 1 # T
  <2>1. n \in T /\ n \notin 0 .. n - 1 /\ 0 .. n - 1 \subseteq 0 .. n
    BY <1>3, <1>4
  <2> QED BY <1>3, <1>4, <2>1
<1>6. 0 .. n - 1 \in SUBSET Nat /\ T \in SUBSET Nat
  BY <1>3, <1>4
<1> QED BY <1>2, <1>5, <1>6 DEF StrictSubsetOrdering

(***************************************************************************)
(* Sums over finite sets.  SumFunctionOnSet adds in an order it chooses;   *)
(* a table of partial sums that is the same in every order gives its value.*)
(***************************************************************************)

\* g holds, for every part of S, the sum of f over it.
IsSumTable(g, f, S) ==
    /\ DOMAIN g = SUBSET S /\ g[{}] = 0
    /\ \A T \in SUBSET S, x \in S : x \notin T => g[T \cup {x}] = f[x] + g[T]

\* One step of SumFunctionOnSet: a chosen element and the sum of the others.
SumStep(f, g, T) ==
    IF T = {} THEN 0 ELSE LET x == CHOOSE x \in T : TRUE IN f[x] + g[T \ {x}]

\* Integers have a table of sums over every finite set, and natural numbers
\* one of natural numbers.
LEMMA SumTableExists ==
    ASSUME NEW S, IsFiniteSet(S), NEW R \in {Nat, Int}, NEW f,
           \A x \in S : f[x] \in R
    PROVE  \E g \in [SUBSET S -> R] : IsSumTable(g, f, S)
<1> DEFINE G == {T \in SUBSET S : \E g \in [SUBSET T -> R] : IsSumTable(g, f, T)}
<1>0. 0 \in R /\ (\A a, b \in R : a + b \in R) /\ R \subseteq Int
  OBVIOUS
<1>1. {} \in G
  <2>1. [T \in SUBSET {} |-> 0] \in [SUBSET {} -> R]
    BY <1>0
  <2>2. IsSumTable([T \in SUBSET {} |-> 0], f, {})
    BY DEF IsSumTable
  <2> QED BY <2>1, <2>2
<1>2. ASSUME NEW T \in SUBSET S, NEW x \in S, T \in G PROVE T \cup {x} \in G
  <2>1. CASE x \in T
    <3>1. T \cup {x} = T
      BY <2>1
    <3> QED BY <1>2, <3>1
  <2>2. CASE x \notin T
    <3>1. PICK g \in [SUBSET T -> R] : IsSumTable(g, f, T)
      BY <1>2
    <3> DEFINE h == [U \in SUBSET (T \cup {x}) |->
                        IF x \in U THEN f[x] + g[U \ {x}] ELSE g[U]]
    <3>2. h \in [SUBSET (T \cup {x}) -> R]
      <4>1. ASSUME NEW U \in SUBSET (T \cup {x})
            PROVE  (IF x \in U THEN f[x] + g[U \ {x}] ELSE g[U]) \in R
        <5>1. U \ {x} \in SUBSET T /\ (x \notin U => U \in SUBSET T) /\ f[x] \in R
          OBVIOUS
        <5>2. g[U \ {x}] \in R /\ (x \notin U => g[U] \in R)
          BY <5>1
        <5> QED BY <1>0, <5>1, <5>2
      <4> QED BY <4>1
    <3>3. \A U \in SUBSET (T \cup {x}) :
             h[U] = IF x \in U THEN f[x] + g[U \ {x}] ELSE g[U]
      OBVIOUS
    <3>4. DOMAIN h = SUBSET (T \cup {x})
      OBVIOUS
    <3> HIDE DEF h
    <3>5. ASSUME NEW U \in SUBSET (T \cup {x}), NEW y \in T \cup {x}, y \notin U
          PROVE  h[U \cup {y}] = f[y] + h[U]
      <4>0. U \cup {y} \in SUBSET (T \cup {x})
        OBVIOUS
      <4>1. CASE y = x
        <5>1. (U \cup {y}) \ {x} = U
          BY <3>5, <4>1
        <5> QED BY <3>3, <3>5, <4>0, <4>1, <5>1
      <4>2. CASE y # x /\ x \notin U
        <5>1. U \in SUBSET T /\ y \in T /\ x \notin U \cup {y}
          BY <4>2
        <5> QED BY <3>1, <3>3, <3>5, <4>0, <4>2, <5>1 DEF IsSumTable
      <4>3. CASE y # x /\ x \in U
        <5> DEFINE V == U \ {x}
        <5>1. V \in SUBSET T /\ y \in T /\ y \notin V /\ (U \cup {y}) \ {x} = V \cup {y}
          BY <3>5, <4>3
        <5>2. g[V \cup {y}] = f[y] + g[V]
          BY <3>1, <5>1 DEF IsSumTable
        <5>3. h[U] = f[x] + g[V] /\ h[U \cup {y}] = f[x] + g[V \cup {y}]
          BY <3>3, <4>0, <4>3, <5>1
        <5>4. f[x] \in Int /\ f[y] \in Int /\ g[V] \in Int
          BY <1>0, <5>1
        <5> QED BY <5>2, <5>3, <5>4
      <4> QED BY <4>1, <4>2, <4>3
    <3>6. h[{}] = 0
      BY <3>1, <3>3 DEF IsSumTable
    <3>7. IsSumTable(h, f, T \cup {x})
      BY <3>4, <3>5, <3>6 DEF IsSumTable
    <3> QED BY <3>2, <3>7
  <2> QED BY <2>1, <2>2
<1>3. S \in G
  BY <1>1, <1>2, FiniteSetInduction
<1> QED BY <1>3

\* Every table of the steps of SumFunctionOnSet is the one that has no order.
LEMMA SumTableUnique ==
    ASSUME NEW S, IsFiniteSet(S), NEW f, NEW g, IsSumTable(g, f, S),
           NEW h, h = [T \in SUBSET S |-> SumStep(f, h, T)]
    PROVE  h[S] = g[S]
<1> DEFINE Bad == {T \in SUBSET S : h[T] # g[T]}
<1> SUFFICES ASSUME Bad # {} PROVE FALSE
  OBVIOUS
<1>1. Bad \subseteq FiniteSubsetsOf(S)
  BY FS_Subset DEF FiniteSubsetsOf
<1>2. PICK T \in Bad : \A U \in Bad : <<U, T>> \notin StrictSubsetOrdering(S)
  BY <1>1, FS_StrictSubsetOrderingWellFounded, WFMin
<1>3. h[T] = SumStep(f, h, T)
  OBVIOUS
<1>4. CASE T = {}
  BY <1>2, <1>3, <1>4 DEF SumStep, IsSumTable
<1>5. CASE T # {}
  <2> DEFINE x == CHOOSE x \in T : TRUE
  <2>1. x \in T
    BY <1>5
  <2>2. h[T] = f[x] + h[T \ {x}]
    BY <1>3, <1>5 DEF SumStep
  <2> HIDE DEF x
  <2>3. T \ {x} \in SUBSET S /\ T \ {x} \notin Bad /\ (T \ {x}) \cup {x} = T
    <3>1. T \ {x} \in SUBSET S /\ (T \ {x}) \cup {x} = T /\ T \ {x} # T
      BY <2>1
    <3>2. <<T \ {x}, T>> \in StrictSubsetOrdering(S)
      BY <3>1 DEF StrictSubsetOrdering
    <3> QED BY <1>2, <3>1, <3>2
  <2>4. g[T] = f[x] + g[T \ {x}]
    <3>1. x \in S /\ x \notin T \ {x}
      BY <2>1
    <3> QED BY <2>3, <3>1 DEF IsSumTable
  <2> QED BY <1>2, <2>2, <2>3, <2>4
<1> QED BY <1>4, <1>5

\* So SumFunctionOnSet is what any such table says.
LEMMA SumIsTable ==
    ASSUME NEW S, IsFiniteSet(S), NEW f, NEW g, IsSumTable(g, f, S)
    PROVE  SumFunctionOnSet(f, S) = g[S]
<1> DEFINE h == CHOOSE h : h = [T \in SUBSET S |-> SumStep(f, h, T)]
<1>1. \E e : e = [T \in SUBSET S |-> SumStep(f, e, T)]
  <2> DEFINE e == [T \in SUBSET S |-> g[T]]
  <2>1. \A T \in SUBSET S : e[T] = SumStep(f, e, T)
    <3> SUFFICES ASSUME NEW T \in SUBSET S PROVE g[T] = SumStep(f, e, T)
      OBVIOUS
    <3>1. CASE T = {}
      BY <3>1 DEF SumStep, IsSumTable
    <3>2. CASE T # {}
      <4> DEFINE x == CHOOSE x \in T : TRUE
      <4>1. x \in T
        BY <3>2
      <4>2. SumStep(f, e, T) = f[x] + e[T \ {x}]
        BY <3>2 DEF SumStep
      <4> HIDE DEF x
      <4>3. (T \ {x}) \cup {x} = T /\ T \ {x} \in SUBSET S /\ x \in S /\ x \notin T \ {x}
        BY <4>1
      <4>4. g[T] = f[x] + g[T \ {x}]
        BY <4>3 DEF IsSumTable
      <4> QED BY <4>2, <4>3, <4>4
    <3> QED BY <3>1, <3>2
  <2>2. e = [T \in SUBSET S |-> SumStep(f, e, T)]
    <3> HIDE DEF e
    <3>1. DOMAIN e = SUBSET S /\ e = [T \in SUBSET S |-> e[T]]
      BY DEF e
    <3> QED BY <2>1, <3>1
  <2> QED BY <2>2
<1>2. h = [T \in SUBSET S |-> SumStep(f, h, T)]
  BY <1>1
<1>3. SumFunctionOnSet(f, S) = h[S]
  BY DEF SumFunctionOnSet, FoldFunctionOnSet, MapThenFoldSet, SumStep
<1> HIDE DEF h
<1> QED BY <1>2, <1>3, SumTableUnique

\* A sum of integers is an integer, of natural numbers a natural number.
LEMMA SumType ==
    ASSUME NEW S, IsFiniteSet(S), NEW R \in {Nat, Int}, NEW f, \A x \in S : f[x] \in R
    PROVE  SumFunctionOnSet(f, S) \in R
<1>1. PICK g \in [SUBSET S -> R] : IsSumTable(g, f, S)
  BY SumTableExists
<1> QED BY <1>1, SumIsTable

\* Nothing adds up to zero, and so do zeros.
LEMMA SumOfNothing ==
    ASSUME NEW S, IsFiniteSet(S), NEW f, \A x \in S : f[x] = 0
    PROVE  SumFunctionOnSet(f, S) = 0
<1> DEFINE g == [T \in SUBSET S |-> 0]
<1>1. IsSumTable(g, f, S)
  <2>1. DOMAIN g = SUBSET S /\ \A T \in SUBSET S : g[T] = 0
    OBVIOUS
  <2> HIDE DEF g
  <2> QED BY <2>1 DEF IsSumTable
<1> QED BY <1>1, SumIsTable

\* The sum with one element more.
LEMMA SumOfOneMore ==
    ASSUME NEW S, IsFiniteSet(S), NEW x, x \notin S, NEW f,
           \A y \in S \cup {x} : f[y] \in Int
    PROVE  SumFunctionOnSet(f, S \cup {x}) = f[x] + SumFunctionOnSet(f, S)
<1> DEFINE U == S \cup {x}
<1>1. IsFiniteSet(U)
  BY FS_AddElement
<1>2. PICK g \in [SUBSET U -> Int] : IsSumTable(g, f, U)
  BY <1>1, SumTableExists
<1> DEFINE h == [T \in SUBSET S |-> g[T]]
<1>3. IsSumTable(h, f, S)
  <2>1. DOMAIN h = SUBSET S /\ \A T \in SUBSET S : h[T] = g[T]
    OBVIOUS
  <2>2. ASSUME NEW T \in SUBSET S, NEW y \in S, y \notin T
        PROVE  h[T \cup {y}] = f[y] + h[T]
    <3>1. T \in SUBSET U /\ T \cup {y} \in SUBSET S /\ y \in U
      OBVIOUS
    <3> QED BY <1>2, <2>1, <2>2, <3>1 DEF IsSumTable
  <2>3. h[{}] = 0
    BY <1>2, <2>1 DEF IsSumTable
  <2> HIDE DEF h
  <2> QED BY <2>1, <2>2, <2>3 DEF IsSumTable
<1>4. SumFunctionOnSet(f, S) = g[S]
  <2>1. h[S] = g[S]
    OBVIOUS
  <2> QED BY <1>3, <2>1, SumIsTable
<1>5. SumFunctionOnSet(f, U) = g[U]
  BY <1>1, <1>2, SumIsTable
<1>6. g[S \cup {x}] = f[x] + g[S]
  <2>1. S \in SUBSET U /\ x \in U
    OBVIOUS
  <2> QED BY <1>2, <2>1 DEF IsSumTable
<1> QED BY <1>4, <1>5, <1>6

\* The sum, with one of its terms set apart.
LEMMA SumSetApart ==
    ASSUME NEW S, IsFiniteSet(S), NEW x \in S, NEW f, \A y \in S : f[y] \in Int
    PROVE  SumFunctionOnSet(f, S) = f[x] + SumFunctionOnSet(f, S \ {x})
<1> DEFINE U == S \ {x}
<1>1. IsFiniteSet(U) /\ x \notin U /\ U \cup {x} = S
  BY FS_RemoveElement
<1> HIDE DEF U
<1>2. SumFunctionOnSet(f, U \cup {x}) = f[x] + SumFunctionOnSet(f, U)
  BY <1>1, SumOfOneMore
<1> QED BY <1>1, <1>2 DEF U

\* Only the terms count.
LEMMA SumOfSameTerms ==
    ASSUME NEW S, IsFiniteSet(S), NEW f, NEW h,
           \A x \in S : f[x] \in Int /\ h[x] = f[x]
    PROVE  SumFunctionOnSet(h, S) = SumFunctionOnSet(f, S)
<1>1. PICK g \in [SUBSET S -> Int] : IsSumTable(g, f, S)
  BY SumTableExists
<1>2. IsSumTable(g, h, S)
  BY <1>1 DEF IsSumTable
<1> QED BY <1>1, <1>2, SumIsTable

\* One term changes, the sum changes as much.
LEMMA SumOfChanged ==
    ASSUME NEW S, IsFiniteSet(S), NEW f, NEW h, NEW x \in S,
           \A y \in S : f[y] \in Int /\ h[y] \in Int,
           \A y \in S : y # x => h[y] = f[y]
    PROVE  SumFunctionOnSet(h, S) = SumFunctionOnSet(f, S) + (h[x] - f[x])
<1> DEFINE U == S \ {x}
<1>1. IsFiniteSet(U)
  BY FS_RemoveElement
<1>2. SumFunctionOnSet(h, U) = SumFunctionOnSet(f, U) /\ SumFunctionOnSet(f, U) \in Int
  BY <1>1, SumOfSameTerms, SumType
<1>3. SumFunctionOnSet(f, S) = f[x] + SumFunctionOnSet(f, U)
  BY SumSetApart
<1>4. SumFunctionOnSet(h, S) = h[x] + SumFunctionOnSet(h, U)
  BY SumSetApart
<1> QED BY <1>2, <1>3, <1>4

\* The sum of two tables is the table of the sums.
LEMMA SumOfSums ==
    ASSUME NEW S, IsFiniteSet(S), NEW f, NEW d, NEW h,
           \A x \in S : f[x] \in Int /\ d[x] \in Int /\ h[x] = f[x] + d[x]
    PROVE  SumFunctionOnSet(h, S) = SumFunctionOnSet(f, S) + SumFunctionOnSet(d, S)
<1>1. PICK g \in [SUBSET S -> Int] : IsSumTable(g, f, S)
  BY SumTableExists
<1>2. PICK e \in [SUBSET S -> Int] : IsSumTable(e, d, S)
  BY SumTableExists
<1> DEFINE t == [T \in SUBSET S |-> g[T] + e[T]]
<1>3. IsSumTable(t, h, S)
  <2>1. DOMAIN t = SUBSET S /\ \A T \in SUBSET S : t[T] = g[T] + e[T]
    OBVIOUS
  <2> HIDE DEF t
  <2>2. t[{}] = 0
    BY <1>1, <1>2, <2>1 DEF IsSumTable
  <2>3. ASSUME NEW T \in SUBSET S, NEW x \in S, x \notin T
        PROVE  t[T \cup {x}] = h[x] + t[T]
    <3>1. T \cup {x} \in SUBSET S
      OBVIOUS
    <3>2. g[T \cup {x}] = f[x] + g[T] /\ e[T \cup {x}] = d[x] + e[T]
      BY <1>1, <1>2, <2>3 DEF IsSumTable
    <3>3. g[T] \in Int /\ e[T] \in Int
      OBVIOUS
    <3> QED BY <2>1, <3>1, <3>2, <3>3
  <2> QED BY <2>1, <2>2, <2>3 DEF IsSumTable
<1>4. t[S] = g[S] + e[S]
  OBVIOUS
<1> HIDE DEF t
<1> QED BY <1>1, <1>2, <1>3, <1>4, SumIsTable

\* Larger terms add up to more.
LEMMA SumMonotonic ==
    ASSUME NEW S, IsFiniteSet(S), NEW f, NEW h,
           \A x \in S : f[x] \in Int /\ h[x] \in Int /\ f[x] <= h[x]
    PROVE  SumFunctionOnSet(f, S) <= SumFunctionOnSet(h, S)
<1> DEFINE d == [x \in S |-> h[x] - f[x]]
<1>1. \A x \in S : d[x] \in Nat /\ d[x] \in Int /\ h[x] = f[x] + d[x]
  OBVIOUS
<1> HIDE DEF d
<1>2. SumFunctionOnSet(h, S) = SumFunctionOnSet(f, S) + SumFunctionOnSet(d, S)
  BY <1>1, SumOfSums
<1>3. SumFunctionOnSet(f, S) \in Int /\ SumFunctionOnSet(d, S) \in Nat
  BY <1>1, SumType
<1> QED BY <1>2, <1>3

\* The sum of one term.
LEMMA SumOfOne ==
    ASSUME NEW x, NEW f, f[x] \in Int
    PROVE  SumFunctionOnSet(f, {x}) = f[x]
<1>1. IsFiniteSet({x}) /\ {x} \ {x} = {} /\ IsFiniteSet({})
  BY FS_Singleton, FS_EmptySet
<1>2. SumFunctionOnSet(f, {x}) = f[x] + SumFunctionOnSet(f, {x} \ {x})
  BY <1>1, SumSetApart
<1>3. SumFunctionOnSet(f, {}) = 0
  BY <1>1, SumOfNothing
<1> QED BY <1>1, <1>2, <1>3

\* What is zero outside a part adds up to the sum of the part.
LEMMA SumOfPart ==
    ASSUME NEW S, IsFiniteSet(S), NEW T, T \subseteq S, NEW f, NEW h,
           \A x \in T : f[x] \in Int /\ h[x] = f[x],
           \A x \in S \ T : h[x] = 0
    PROVE  SumFunctionOnSet(h, S) = SumFunctionOnSet(f, T)
<1>1. IsFiniteSet(T)
  BY FS_Subset
<1>2. PICK g \in [SUBSET T -> Int] : IsSumTable(g, f, T)
  BY <1>1, SumTableExists
<1> DEFINE t == [U \in SUBSET S |-> g[U \cap T]]
<1>3. DOMAIN t = SUBSET S /\ \A U \in SUBSET S : t[U] = g[U \cap T]
  OBVIOUS
<1>4. t[S] = g[T]
  <2>1. S \cap T = T
    OBVIOUS
  <2> QED BY <1>3, <2>1
<1> HIDE DEF t
<1>5. t[{}] = 0
  <2>1. {} \cap T = {} /\ {} \in SUBSET S
    OBVIOUS
  <2> QED BY <1>2, <1>3, <2>1 DEF IsSumTable
<1>6. ASSUME NEW U \in SUBSET S, NEW x \in S, x \notin U
      PROVE  t[U \cup {x}] = h[x] + t[U]
  <2>1. U \cup {x} \in SUBSET S /\ U \cap T \in SUBSET T /\ g[U \cap T] \in Int
    OBVIOUS
  <2>2. CASE x \in T
    <3>1. (U \cup {x}) \cap T = (U \cap T) \cup {x} /\ x \notin U \cap T
      BY <1>6, <2>2
    <3>2. g[(U \cap T) \cup {x}] = f[x] + g[U \cap T]
      BY <1>2, <2>1, <2>2, <3>1 DEF IsSumTable
    <3> QED BY <1>3, <2>1, <2>2, <3>1, <3>2
  <2>3. CASE x \notin T
    <3>1. (U \cup {x}) \cap T = U \cap T /\ h[x] = 0
      BY <2>3
    <3> QED BY <1>3, <2>1, <3>1
  <2> QED BY <2>2, <2>3
<1>7. IsSumTable(t, h, S)
  BY <1>3, <1>5, <1>6 DEF IsSumTable
<1> QED BY <1>1, <1>2, <1>4, <1>7, SumIsTable

\* The first n positions of a sequence.
LEMMA Positions ==
    ASSUME NEW n \in Nat
    PROVE  /\ IsFiniteSet(1 .. n) /\ n + 1 \notin 1 .. n
           /\ (1 .. n) \cup {n + 1} = 1 .. n + 1
<1>1. IsFiniteSet(1 .. n)
  BY FS_Interval
<1>2. n + 1 \notin 1 .. n /\ (1 .. n) \cup {n + 1} = 1 .. n + 1
  OBVIOUS
<1> QED BY <1>1, <1>2

\* Terms that are the steps from each value to the next add up to the way from
\* the first to the last.
LEMMA SumOfSteps ==
    ASSUME NEW n \in Nat, NEW f, NEW b, \A i \in 1 .. n + 1 : b[i] \in Int,
           \A i \in 1 .. n : f[i] \in Int /\ b[i + 1] = b[i] + f[i]
    PROVE  SumFunctionOnSet(f, 1 .. n) = b[n + 1] - b[1]
<1> DEFINE G == {k \in Nat : k <= n => SumFunctionOnSet(f, 1 .. k) = b[k + 1] - b[1]}
<1>1. 0 \in G
  <2>1. SumFunctionOnSet(f, {}) = 0
    BY SumOfNothing, FS_EmptySet
  <2>2. 1 .. 0 = {} /\ b[0 + 1] - b[1] = 0
    OBVIOUS
  <2> QED BY <2>1, <2>2
<1>2. ASSUME NEW k \in Nat, k \in G PROVE k + 1 \in G
  <2> SUFFICES ASSUME k + 1 <= n
               PROVE  SumFunctionOnSet(f, 1 .. k + 1) = b[(k + 1) + 1] - b[1]
    OBVIOUS
  <2>1. SumFunctionOnSet(f, 1 .. k) = b[k + 1] - b[1]
    BY <1>2
  <2>2. IsFiniteSet(1 .. k) /\ k + 1 \notin 1 .. k /\ (1 .. k) \cup {k + 1} = 1 .. k + 1
    BY Positions
  <2>3. \A y \in (1 .. k) \cup {k + 1} : f[y] \in Int
    BY <2>2
  <2>4. SumFunctionOnSet(f, 1 .. k + 1) = f[k + 1] + SumFunctionOnSet(f, 1 .. k)
    BY <2>2, <2>3, SumOfOneMore
  <2>5. b[(k + 1) + 1] = b[k + 1] + f[k + 1]
    OBVIOUS
  <2>6. b[1] \in Int /\ b[k + 1] \in Int /\ f[k + 1] \in Int
    OBVIOUS
  <2> QED BY <2>1, <2>4, <2>5, <2>6
<1>3. n \in G
  BY <1>1, <1>2, NaturalInduction
<1> QED BY <1>3

\* The sum of a sequence of integers, when it grows at its end and is taken
\* from its front.
LEMMA SumOfSequence ==
    ASSUME NEW s \in Seq(Int)
    PROVE  /\ SumFunction(s) = SumFunctionOnSet(s, 1 .. Len(s))
           /\ SumFunction(s) \in Int
           /\ s = <<>> => SumFunction(s) = 0
<1>1. DOMAIN s = 1 .. Len(s) /\ Len(s) \in Nat /\ \A i \in 1 .. Len(s) : s[i] \in Int
  BY LenProperties, ElementOfSeq
<1>2. SumFunction(s) = SumFunctionOnSet(s, 1 .. Len(s))
  BY <1>1 DEF SumFunction
<1>3. IsFiniteSet(1 .. Len(s))
  BY <1>1, FS_Interval
<1>4. s = <<>> => 1 .. Len(s) = {}
  BY <1>1
<1> QED BY <1>1, <1>2, <1>3, <1>4, SumType, SumOfNothing

\* A sum with one number more at the end.
LEMMA SumOfAppended ==
    ASSUME NEW s \in Seq(Int), NEW x \in Int
    PROVE  SumFunction(Append(s, x)) = SumFunction(s) + x
<1> DEFINE a == Append(s, x)
           n == Len(s)
<1>1. /\ a \in Seq(Int) /\ Len(a) = n + 1 /\ n \in Nat /\ a[n + 1] = x
      /\ \A i \in 1 .. n : a[i] = s[i] /\ s[i] \in Int
  BY AppendProperties, LenProperties, ElementOfSeq
<1> HIDE DEF a, n
<1>2. IsFiniteSet(1 .. n) /\ n + 1 \notin 1 .. n /\ 1 .. n + 1 = (1 .. n) \cup {n + 1}
  BY <1>1, Positions
<1>3. SumFunctionOnSet(a, 1 .. n + 1) = x + SumFunctionOnSet(a, 1 .. n)
  BY <1>1, <1>2, SumOfOneMore
<1>4. SumFunctionOnSet(a, 1 .. n) = SumFunctionOnSet(s, 1 .. n)
  BY <1>1, <1>2, SumOfSameTerms
<1>5. SumFunction(a) = SumFunctionOnSet(a, 1 .. n + 1)
  BY <1>1, SumOfSequence
<1>6. SumFunction(s) = SumFunctionOnSet(s, 1 .. n) /\ SumFunction(s) \in Int
  BY SumOfSequence DEF n
<1> QED BY <1>3, <1>4, <1>5, <1>6 DEF a

\* A sum without its first number.
LEMMA SumOfTail ==
    ASSUME NEW s \in Seq(Int), s # <<>>
    PROVE  SumFunction(s) = Head(s) + SumFunction(Tail(s))
<1> DEFINE w == Tail(s)
           n == Len(w)
           b == [i \in 1 .. n + 1 |-> SumFunctionOnSet(s, 1 .. i)]
<1>1. /\ w \in Seq(Int) /\ Head(s) = s[1] /\ Len(s) = n + 1 /\ n \in Nat
      /\ \A i \in 1 .. n : w[i] = s[i + 1]
      /\ \A i \in 1 .. n + 1 : s[i] \in Int
  BY HeadTailProperties, LenProperties, EmptySeq, ElementOfSeq
<1>2. \A i \in 1 .. n + 1 : b[i] = SumFunctionOnSet(s, 1 .. i)
  OBVIOUS
<1> HIDE DEF w, n, b
<1>3. \A i \in 1 .. n + 1 : b[i] \in Int
  <2> SUFFICES ASSUME NEW i \in 1 .. n + 1 PROVE SumFunctionOnSet(s, 1 .. i) \in Int
    BY <1>2
  <2>1. IsFiniteSet(1 .. i) /\ \A j \in 1 .. i : s[j] \in Int
    BY <1>1, FS_Interval
  <2> QED BY <2>1, SumType
<1>4. \A i \in 1 .. n : w[i] \in Int /\ b[i + 1] = b[i] + w[i]
  <2> SUFFICES ASSUME NEW i \in 1 .. n PROVE w[i] \in Int /\ b[i + 1] = b[i] + w[i]
    OBVIOUS
  <2>1. /\ IsFiniteSet(1 .. i) /\ i + 1 \notin 1 .. i /\ (1 .. i) \cup {i + 1} = 1 .. i + 1
        /\ i \in 1 .. n + 1 /\ i + 1 \in 1 .. n + 1
    <3>1. n \in Nat /\ i \in Nat
      BY <1>1
    <3> QED BY <3>1, Positions
  <2>2. \A y \in (1 .. i) \cup {i + 1} : s[y] \in Int
    BY <1>1, <2>1
  <2>3. SumFunctionOnSet(s, 1 .. i + 1) = s[i + 1] + SumFunctionOnSet(s, 1 .. i)
    BY <2>1, <2>2, SumOfOneMore
  <2> QED BY <1>1, <1>2, <1>3, <2>1, <2>3
<1>5. SumFunctionOnSet(w, 1 .. n) = b[n + 1] - b[1]
  <2>1. n \in Nat
    BY <1>1
  <2> QED BY <1>3, <1>4, <2>1, SumOfSteps
<1>6. b[1] = s[1]
  <2>1. 1 \in 1 .. n + 1 /\ 1 .. 1 = {1} /\ {1} \ {1} = {}
    BY <1>1
  <2>2. SumFunctionOnSet(s, {1}) = s[1] + SumFunctionOnSet(s, {})
    <3>1. IsFiniteSet({1}) /\ 1 \in {1} /\ \A y \in {1} : s[y] \in Int
      BY <1>1, <2>1, FS_Singleton
    <3> QED BY <2>1, <3>1, SumSetApart
  <2>3. SumFunctionOnSet(s, {}) = 0
    BY SumOfNothing, FS_EmptySet
  <2>4. b[1] = SumFunctionOnSet(s, {1}) /\ s[1] \in Int
    BY <1>1, <1>2, <2>1
  <2> QED BY <2>2, <2>3, <2>4
<1>7. SumFunction(s) = SumFunctionOnSet(s, 1 .. n + 1)
  BY <1>1, SumOfSequence
<1>8. SumFunction(w) = SumFunctionOnSet(w, 1 .. n) /\ SumFunction(w) \in Int
  BY <1>1, SumOfSequence DEF n
<1>9. b[n + 1] = SumFunctionOnSet(s, 1 .. n + 1) /\ b[n + 1] \in Int /\ b[1] \in Int
  <2>1. n + 1 \in 1 .. n + 1 /\ 1 \in 1 .. n + 1
    BY <1>1
  <2> QED BY <1>2, <1>3, <2>1
<1>10. SumFunction(w) = SumFunction(s) - s[1] /\ SumFunction(s) \in Int /\ s[1] \in Int
  BY <1>5, <1>6, <1>7, <1>8, <1>9
<1> HIDE DEF w
<1> QED BY <1>1, <1>10 DEF w

=============================================================================
