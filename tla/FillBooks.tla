------------------------------ MODULE FillBooks -----------------------------
(***************************************************************************)
(* What a session keeps of its fills: the position tracker                 *)
(* (crypto_core/portfolio/tracker.py), its saved copy, and the loop that   *)
(* measures each fill by later prices and appends a record of it to a file *)
(* (execution/tca_loop.py, markout.py, tca_store.py), driven by the cycles *)
(* of the pipeline (orchestrator/pipeline.py) and lost with the process.   *)
(*                                                                         *)
(* Time is abstracted: at a price, any of the fills under observation may  *)
(* have all their horizons resolved or expired.  The mark price enters     *)
(* neither the average nor the realized profit and is left out.            *)
(***************************************************************************)
EXTENDS Integers, FiniteSets

CONSTANTS
  Symbol,       \* instruments, each with its exchange
  Price, Size,  \* prices, in a unit so small that every average is a whole number
  MaxFills,     \* bound: fills of all processes
  NoFile        \* the portfolio file does not exist

ASSUME BooksAssumption ==
  /\ IsFiniteSet(Symbol) /\ MaxFills \in Nat
  /\ Price \subseteq Nat \ {0} /\ Size \subseteq Nat \ {0}

Side == {"FLAT", "LONG", "SHORT"}
Opening == {"LONG", "SHORT"}   \* what a buy and a sell open

VARIABLES
  pc,           \* where the pipeline, or the process, is
  positions,    \* _positions: side, quantity, avg_entry_price, realized_pnl
  daily,        \* _daily_realized_pnl
  portfolio,    \* portfolio.json: the positions and daily as saved, or NoFile
  newest,       \* order of the latest fill, and the fills so far
  traded,       \* this cycle has booked a fill
  registered,   \* TCA loop: orders that have been registered
  pending,      \* markout observer: fills with a horizon ahead
  harvested,    \* complete, and not yet appended
  recorded,     \* orders whose record was appended to the TCA file
  sums,         \* history: what the fills in positions come to, and what resets took
  savedSums,    \* history: sums as of portfolio
  discarded     \* history: orders whose record was lost to a failed append

tracker == <<positions, daily, sums>>
saved == <<portfolio, savedSums>>
loop == <<registered, pending, harvested, discarded>>
vars == <<pc, tracker, saved, newest, traded, loop, recorded>>

Order == 1..MaxFills

NoPosition == [side |-> "FLAT", qty |-> 0, avg |-> 0, realized |-> 0]
NoSums == [net |-> 0, cash |-> 0, settled |-> 0]

Init ==
  /\ pc = "idle"
  /\ positions = [s \in Symbol |-> NoPosition] /\ daily = 0
  /\ portfolio = NoFile
  /\ newest = [order |-> 0, fills |-> 0] /\ traded = FALSE
  /\ registered = {} /\ pending = {} /\ harvested = {}
  /\ recorded = {}
  /\ sums = [s \in Symbol |-> NoSums]
  /\ savedSums = [s \in Symbol |-> NoSums] /\ discarded = {}

-----------------------------------------------------------------------------
(* The tracker: _apply_buy and _apply_sell, which mirror each other *)

Signed(side, n) == CASE side = "LONG" -> n [] side = "SHORT" -> -n [] side = "FLAT" -> 0

\* Realized by closing n of position p.
Gain(p, n, price) == Signed(p.side, (price - p.avg) * n)

Increased(p, side, n, price) ==
  [p EXCEPT !.side = side, !.qty = p.qty + n,
            !.avg = (p.avg * p.qty + price * n) \div (p.qty + n)]

\* Mutant of Reduced: a fill larger than the position does not turn it.
ReducedBelowZero(p, side, n, price) ==
  [p EXCEPT !.qty = p.qty - n, !.realized = @ + Gain(p, n, price)]

\* Mutant of Reduced: the turned position keeps the average of the closed one.
ReducedKeepingAverage(p, side, n, price) ==
  [p EXCEPT !.side = IF n < p.qty THEN p.side ELSE IF n = p.qty THEN "FLAT" ELSE side,
            !.qty = IF n < p.qty THEN p.qty - n ELSE n - p.qty,
            !.avg = IF n = p.qty THEN 0 ELSE p.avg,
            !.realized = @ + Gain(p, IF n < p.qty THEN n ELSE p.qty, price)]

\* A partial close, a close, or a flip: closed, and the rest opened the other way.
Reduced(p, side, n, price) ==
  IF n < p.qty
  THEN [p EXCEPT !.qty = p.qty - n, !.realized = @ + Gain(p, n, price)]
  ELSE [side |-> IF n = p.qty THEN "FLAT" ELSE side,
        qty |-> n - p.qty,
        avg |-> IF n = p.qty THEN 0 ELSE price,
        realized |-> p.realized + Gain(p, p.qty, price)]

Filled(p, side, n, price) ==
  IF p.side \in {"FLAT", side} THEN Increased(p, side, n, price)
                               ELSE Reduced(p, side, n, price)

-----------------------------------------------------------------------------
(* A cycle of the pipeline *)

BeginCycle ==
  /\ pc = "idle"
  /\ pc' = "fills"
  /\ UNCHANGED <<tracker, saved, newest, traded, loop, recorded>>

\* The next fill, of a new order or a further one of the same, is booked, and its
\* order registered with the TCA loop (on_fill), once.
BookFill(s, side, n, price, order) ==
  /\ pc = "fills" /\ newest.fills < MaxFills
  /\ order = newest.order + 1 \/ (traded /\ order = newest.order)
  /\ newest' = [order |-> order, fills |-> newest.fills + 1]
  /\ traded' = TRUE
  /\ LET p == Filled(positions[s], side, n, price) IN
     /\ positions' = [positions EXCEPT ![s] = p]
     /\ daily' = daily + (p.realized - positions[s].realized)
  /\ sums' = [sums EXCEPT ![s].net = @ + Signed(side, n),
                          ![s].cash = @ - Signed(side, n) * price]
  /\ pending' = pending \cup ({order} \ registered)
  /\ registered' = registered \cup {order}
  /\ UNCHANGED <<pc, saved, harvested, discarded, recorded>>

\* Mutant of ObservePrice: what is harvested is forgotten with all the rest.
ObservePriceForgetting(due) ==
  /\ pc = "fills" /\ due \subseteq pending
  /\ pending' = IF due = {} THEN pending ELSE {}
  /\ harvested' = due
  /\ pc' = IF due = {} THEN "save" ELSE "persist"
  /\ UNCHANGED <<tracker, saved, newest, traded, registered, discarded, recorded>>

\* on_price_update: the complete fills leave the observer before they are appended.
ObservePrice(due) ==
  /\ pc = "fills" /\ due \subseteq pending
  /\ pending' = pending \ due
  /\ harvested' = due
  /\ pc' = IF due = {} THEN "save" ELSE "persist"
  /\ UNCHANGED <<tracker, saved, newest, traded, registered, discarded, recorded>>

AppendRecord ==
  /\ pc = "persist"
  /\ \E o \in harvested :
       /\ \A other \in harvested : o <= other
       /\ recorded' = recorded \cup {o}
       /\ harvested' = harvested \ {o}
  /\ pc' = IF harvested' = {} THEN "save" ELSE "persist"
  /\ UNCHANGED <<tracker, saved, newest, traded, registered, pending, discarded>>

\* The error ends the cycle: no later record, and no save of what the cycle booked.
AppendFails ==
  /\ pc = "persist"
  /\ discarded' = discarded \cup harvested /\ harvested' = {}
  /\ pc' = "idle" /\ traded' = FALSE
  /\ UNCHANGED <<tracker, saved, newest, registered, pending, recorded>>

\* The portfolio is saved after a cycle with fills (saves that fail are in PaperSession).
EndCycle ==
  /\ pc = "save"
  /\ IF traded
       THEN portfolio' = [positions |-> positions, daily |-> daily] /\ savedSums' = sums
       ELSE UNCHANGED saved
  /\ pc' = "idle" /\ traded' = FALSE
  /\ UNCHANGED <<tracker, newest, loop, recorded>>

\* reset_day_pnl, by the caller between cycles.
ResetDay ==
  /\ pc = "idle"
  /\ daily' = 0
  /\ positions' = [s \in Symbol |-> [positions[s] EXCEPT !.realized = 0]]
  /\ sums' = [s \in Symbol |-> [sums[s] EXCEPT !.settled = @ + positions[s].realized]]
  /\ UNCHANGED <<pc, saved, newest, traded, loop, recorded>>

-----------------------------------------------------------------------------
(* The process dies, and another one starts *)

Die ==
  /\ pc # "down" /\ pc' = "down"
  /\ positions' = [s \in Symbol |-> NoPosition] /\ daily' = 0
  /\ sums' = [s \in Symbol |-> NoSums]
  /\ registered' = {} /\ pending' = {} /\ harvested' = {} /\ discarded' = {}
  /\ traded' = FALSE
  /\ UNCHANGED <<saved, newest, recorded>>

\* The tracker is the saved one; a TCA file that does not load (a line of it is torn) is
\* gone on without.
Start ==
  /\ pc = "down" /\ pc' = "idle"
  /\ IF portfolio = NoFile
       THEN UNCHANGED tracker
       ELSE positions' = portfolio.positions /\ daily' = portfolio.daily /\ sums' = savedSums
  /\ registered' \in {recorded, {}}
  /\ UNCHANGED <<saved, newest, traded, pending, harvested, discarded, recorded>>

-----------------------------------------------------------------------------

Cycle ==
  \/ BeginCycle \/ AppendRecord \/ AppendFails \/ EndCycle
  \/ \E due \in SUBSET pending : ObservePrice(due)

Next ==
  \/ Cycle \/ ResetDay \/ Die \/ Start
  \/ \E s \in Symbol, side \in Opening, n \in Size, price \in Price, order \in Order :
       BookFill(s, side, n, price, order)

Spec == Init /\ [][Next]_vars

\* The feed delivers events and their prices, and time passes: each horizon is
\* resolved or expires in the end.
FairSpec ==
  /\ Spec /\ WF_vars(Cycle)
  /\ \A o \in Order : SF_vars(\E due \in SUBSET pending : o \in due /\ ObservePrice(due))

-----------------------------------------------------------------------------
(* Properties *)

\* Type invariant.
BooksTypeOK ==
  /\ pc \in {"idle", "fills", "persist", "save", "down"}
  /\ positions \in [Symbol -> [side : Side, qty : Nat, avg : Nat, realized : Int]]
  /\ daily \in Int /\ traded \in BOOLEAN
  /\ portfolio # NoFile =>
       /\ portfolio.positions \in [Symbol -> [side : Side, qty : Nat, avg : Nat, realized : Int]]
       /\ portfolio.daily \in Int
  /\ newest \in [order : 0..MaxFills, fills : 0..MaxFills]
  /\ {registered, pending, harvested, recorded, discarded} \subseteq SUBSET Order

\* Position p is the net of the fills, and what it cost and earned is what they paid:
\* realized profit and cash differ by the position at its average.
Balanced(p, sum) ==
  /\ Signed(p.side, p.qty) = sum.net /\ (p.side = "FLAT" <=> p.qty = 0)
  /\ p.realized + sum.settled = sum.cash + Signed(p.side, p.qty) * p.avg

\* The sum of the whole numbers f, counted unit by unit: the gains less the losses.
Units(f) == UNION {{s} \X (1..f[s]) : s \in DOMAIN f}
SumOf(f) == Cardinality(Units(f)) - Cardinality(Units([s \in DOMAIN f |-> -f[s]]))

\* The books add up, through increases, partial closes, flips, day resets and restarts:
\* every position balances, and the day's profit is the sum over the positions.
BooksBalance ==
  /\ \A s \in Symbol : Balanced(positions[s], sums[s])
  /\ daily = SumOf([s \in Symbol |-> positions[s].realized])

\* A fill under observation gets its record, unless the process dies or an append
\* fails: none is forgotten between the observer and the file.
FillsAreMeasured ==
  \A o \in Order : o \in pending ~> o \in recorded \cup discarded \/ pc = "down"

=============================================================================
