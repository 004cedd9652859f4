------------------------ MODULE AtMostOnceSubmission ------------------------
(***************************************************************************)
(* What order placement promises, seen from outside: a correlation id is   *)
(* committed durably before it is submitted, submitted at most once, and   *)
(* held by the venue only after it was submitted.                          *)
(***************************************************************************)
EXTENDS Naturals

CONSTANT Corr

VARIABLES committed,  \* the correlation ids with a durable intent
          sent,       \* how often each was submitted
          held        \* the correlation ids the venue has an order for

Init ==
    /\ committed = {}
    /\ sent = [c \in Corr |-> 0]
    /\ held = {}

Commit(c) ==
    /\ c \notin committed
    /\ committed' = committed \cup {c}
    /\ UNCHANGED <<sent, held>>

Submit(c) ==
    /\ c \in committed
    /\ sent[c] = 0
    /\ sent' = [sent EXCEPT ![c] = 1]
    /\ UNCHANGED <<committed, held>>

Accept(c) ==
    /\ sent[c] = 1
    /\ held' = held \cup {c}
    /\ UNCHANGED <<committed, sent>>

Next == \E c \in Corr : Commit(c) \/ Submit(c) \/ Accept(c)

Spec == Init /\ [][Next]_<<committed, sent, held>>
=============================================================================
