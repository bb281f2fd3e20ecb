-------------------------- MODULE MCOrderLifecycle --------------------------
(* Instances of OrderLifecycle for TLC. *)
EXTENDS OrderLifecycle

ClockBehind == {-1, 0}   \* feed timestamps at or behind the local clock
Sizes == {-1, 2}         \* a size refused for itself and one for two units
ClockExact == {0}
ClockAhead == {0, 1}     \* a feed clock that may run ahead of the local one

=============================================================================
