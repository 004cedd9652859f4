--------------------------- MODULE OrderStatuses ---------------------------
(***************************************************************************)
(* The order statuses of src/domain/enums.py and the canonical transition  *)
(* table of src/domain/entities/order_lifecycle.py, shared by the modules  *)
(* that hold orders.                                                       *)
(***************************************************************************)

OrderStatus == {"OPEN", "PENDING", "SUBMITTED", "PARTIALLY_FILLED", "FILLED",
                "CANCELLED", "PARTIALLY_CANCELLED", "REJECTED", "EXPIRED",
                "UNKNOWN"}

\* ORDER_STATUS_TRANSITIONS.get(status, frozenset()): PENDING and SUBMITTED
\* have no row of their own.
ORDER_STATUS_TRANSITIONS ==
    [s \in OrderStatus |->
        CASE s = "OPEN" -> {"PARTIALLY_FILLED", "FILLED", "CANCELLED",
                            "PARTIALLY_CANCELLED", "REJECTED", "EXPIRED",
                            "UNKNOWN"}
          [] s = "PARTIALLY_FILLED" -> {"FILLED", "CANCELLED",
                                        "PARTIALLY_CANCELLED", "REJECTED"}
          [] s = "UNKNOWN" -> {"OPEN", "REJECTED", "CANCELLED"}
          [] OTHER -> {}]

\* StateMachine.can_transition_to.
CanTransition(from, to) == to \in ORDER_STATUS_TRANSITIONS[from]

\* Order.with_status: raises IllegalTransitionError when this is false.
WithStatusAllowed(from, to) == to = from \/ CanTransition(from, to)

\* The statuses docs/architecture/STATE_MACHINES.md marks terminal.
Terminal == {"FILLED", "CANCELLED", "PARTIALLY_CANCELLED", "REJECTED",
             "EXPIRED"}
=============================================================================
