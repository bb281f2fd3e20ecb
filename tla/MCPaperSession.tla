--------------------------- MODULE MCPaperSession ---------------------------
(* Instances of PaperSession for TLC. *)
EXTENDS PaperSession

ClockBehind == {-1, 0}   \* feed timestamps at or behind the local clock
ClockExact == {0}        \* and exactly at it

=============================================================================
