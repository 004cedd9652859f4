-------------------------- MODULE OrderedDelivery --------------------------
(***************************************************************************)
(* What AsyncEventBus (src/infrastructure/event_bus/async_event_bus.py)    *)
(* promises to its users, without its queue, its threads or its batches:   *)
(* each accepted event is handed over once, in the order of acceptance, as *)
(* long as every stop ends in time.  Once one did not, only the order is   *)
(* given up.                                                               *)
(***************************************************************************)
EXTENDS Naturals, Sequences, SequencesExt

CONSTANT Events

VARIABLES accepted, delivered, disordered

vars == <<accepted, delivered, disordered>>

Init == accepted = <<>> /\ delivered = <<>> /\ disordered = FALSE

Accept(e) ==
    /\ e \notin ToSet(accepted)
    /\ accepted' = Append(accepted, e)
    /\ UNCHANGED <<delivered, disordered>>

\* The next event in the order of acceptance, or after GiveUpOrder any event
\* that is still owed.
Deliver(e) ==
    /\ e \in ToSet(accepted) \ ToSet(delivered)
    /\ disordered \/ e = accepted[Len(delivered) + 1]
    /\ delivered' = Append(delivered, e)
    /\ UNCHANGED <<accepted, disordered>>

GiveUpOrder == ~disordered /\ disordered' = TRUE /\ UNCHANGED <<accepted, delivered>>

Next == GiveUpOrder \/ \E e \in Events : Accept(e) \/ Deliver(e)

Spec == Init /\ [][Next]_vars
=============================================================================
