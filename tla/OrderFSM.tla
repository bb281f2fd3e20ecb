------------------------------ MODULE OrderFSM ------------------------------
(***************************************************************************)
(* The order state machine: the states of an order, its terminal states    *)
(* and the moves Order.transition accepts                                  *)
(* (crypto_core/execution/state_machine.py).  No variables: the modules of *)
(* the engine and of the ledger it keeps are built on it.                  *)
(***************************************************************************)

OrderState ==
  {"CREATED", "VALIDATED", "SUBMITTED", "PARTIALLY_FILLED", "FILLED",
   "CANCELLED", "REJECTED", "EXPIRED", "CANCEL_PENDING", "REPLACE_PENDING",
   "STALE"}

TerminalStates == {"FILLED", "CANCELLED", "REJECTED", "EXPIRED", "STALE"}

\* States in which a venue holds, or may hold, the order.
AtVenue == {"SUBMITTED", "PARTIALLY_FILLED", "CANCEL_PENDING", "REPLACE_PENDING"}

\* _ALLOWED_TRANSITIONS as a relation.  Leaving a terminal state is in no row.
AllowedTransitions ==
  ({"CREATED"} \X {"VALIDATED", "REJECTED"})
    \cup ({"VALIDATED"} \X {"SUBMITTED", "REJECTED"})
    \cup ({"SUBMITTED"} \X {"REJECTED"})
    \cup (AtVenue \X {"PARTIALLY_FILLED", "FILLED", "CANCELLED", "EXPIRED", "STALE"})
    \cup ({"SUBMITTED", "PARTIALLY_FILLED"} \X {"CANCEL_PENDING", "REPLACE_PENDING"})

CanTransition(from, to) == <<from, to>> \in AllowedTransitions

=============================================================================
