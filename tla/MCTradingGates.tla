--------------------------- MODULE MCTradingGates ---------------------------
(* The gates for TLC: one unit is the cool-down of levels 2 and 3. *)
EXTENDS TradingGates

Hold(degraded, defensive, crisis) ==
  [NORMAL |-> 0, DEGRADED |-> degraded, DEFENSIVE |-> defensive, CRISIS |-> crisis,
   HALT |-> 0]
LeastTimes == Hold(1, 1, 2)
SustainedTimes == Hold(1, 2, 2)

Plain(shs) == [shs |-> shs, maxed |-> {}]
GoodOnes == {Plain(6), Plain(7)}

\* Every target, both sides of each exit threshold, and each kind of maxed signal.
SomeReadings ==
  GoodOnes \cup {Plain(shs) : shs \in {0, 1, 3, 4, 5}}
    \cup {[shs |-> 5, maxed |-> {"s1"}], [shs |-> 7, maxed |-> {"s4"}],
          [shs |-> 2, maxed |-> {"other"}]}

Durations == [l \in Blocking |-> IF l = 4 THEN 2 ELSE 1]

=============================================================================
