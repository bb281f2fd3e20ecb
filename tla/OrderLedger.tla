---------------------------- MODULE OrderLedger ----------------------------
(***************************************************************************)
(* What the execution state store promises its reader, whatever crashes,   *)
(* restarts and recoveries happen: each order it holds was created once    *)
(* and has since moved along the order state machine, so a terminal order  *)
(* stays as it is.  OrderLifecycle implements it: the state of an order in *)
(* the ledger is the one its last record reports.                          *)
(***************************************************************************)
EXTENDS OrderFSM

CONSTANT Order

VARIABLE ledger   \* the state of each order, "NONE" before it is created

Init == ledger = [o \in Order |-> "NONE"]

Open(o) ==
  /\ ledger[o] = "NONE"
  /\ ledger' = [ledger EXCEPT ![o] = "CREATED"]

Move(o) ==
  \E to \in OrderState :
    /\ CanTransition(ledger[o], to)
    /\ ledger' = [ledger EXCEPT ![o] = to]

Next == \E o \in Order : Open(o) \/ Move(o)

Spec == Init /\ [][Next]_ledger

=============================================================================
