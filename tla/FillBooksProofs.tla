--------------------------- MODULE FillBooksProofs ---------------------------
(***************************************************************************)
(* Proofs about the tracker's books: their types, and that positions,      *)
(* average prices and profits add up to the fills, for any instruments,    *)
(* prices, sizes and number of fills.                                      *)
(***************************************************************************)
EXTENDS FillBooks, FiniteSetTheorems, TLAPS

-----------------------------------------------------------------------------
(* Sums of whole numbers, counted unit by unit *)

LEMMA UnitsAt ==
  ASSUME NEW s, NEW k \in Int
  PROVE  /\ IsFiniteSet({s} \X (1..k))
         /\ Cardinality({s} \X (1..k)) = IF k > 0 THEN k ELSE 0
<1>1. IsFiniteSet(1..k) /\ Cardinality(1..k) = IF k > 0 THEN k ELSE 0
  <2>1. IsFiniteSet(1..k) /\ Cardinality(1..k) = IF 1 > k THEN 0 ELSE k - 1 + 1
    BY FS_Interval
  <2> QED BY <2>1
<1>2. IsFiniteSet({s}) /\ Cardinality({s}) = 1
  BY FS_Singleton
<1>3. /\ IsFiniteSet({s} \X (1..k))
      /\ Cardinality({s} \X (1..k)) = Cardinality({s}) * Cardinality(1..k)
  BY <1>1, <1>2, FS_Product
<1> QED BY <1>1, <1>2, <1>3

\* The units of f are those at t and those elsewhere.
LEMMA UnitsSplit ==
  ASSUME NEW S, IsFiniteSet(S), NEW f \in [S -> Int], NEW t \in S
  PROVE  LET rest == UNION {{s} \X (1..f[s]) : s \in S \ {t}} IN
         /\ Cardinality(rest) \in Nat
         /\ Cardinality(Units(f)) = Cardinality(rest) + (IF f[t] > 0 THEN f[t] ELSE 0)
<1> DEFINE parts == {{s} \X (1..f[s]) : s \in S \ {t}}
           rest == UNION parts
           F == [s \in S \ {t} |-> {s} \X (1..f[s])]
           at == {t} \X (1..f[t])
<1>1. IsFiniteSet(S \ {t})
  BY FS_RemoveElement
<1>2. F \in Surjection(S \ {t}, parts)
  BY DEF Surjection
<1>3. IsFiniteSet(parts)
  BY <1>1, <1>2, FS_Surjection
<1>4. \A part \in parts : IsFiniteSet(part)
  BY UnitsAt
<1>5. IsFiniteSet(rest) /\ Cardinality(rest) \in Nat
  BY <1>3, <1>4, FS_UNION, FS_CardinalityType
<1>6. /\ IsFiniteSet(at) /\ Cardinality(at) = IF f[t] > 0 THEN f[t] ELSE 0
      /\ Cardinality(at) \in Nat
  BY UnitsAt, FS_CardinalityType
<1>7. Units(f) = rest \cup at
  BY DEF Units
<1>8. rest \cap at = {}
  OBVIOUS
<1> HIDE DEF rest, at
<1>9. Cardinality(rest \cup at) = Cardinality(rest) + Cardinality(at) - Cardinality(rest \cap at)
  BY <1>5, <1>6, FS_Union
<1>10. Cardinality({}) = 0
  BY FS_EmptySet
<1>11. Cardinality(Units(f)) = Cardinality(rest) + Cardinality(at)
  <2>1. Cardinality(rest \cap at) = 0 /\ Cardinality(Units(f)) = Cardinality(rest \cup at)
    BY <1>7, <1>8, <1>10
  <2> QED BY <1>5, <1>6, <1>9, <2>1
<1> QED BY <1>5, <1>6, <1>11 DEF rest

\* A sum changes by as much as the one number that changes.
LEMMA SumOfChange ==
  ASSUME NEW S, IsFiniteSet(S), NEW f \in [S -> Int], NEW g \in [S -> Int], NEW t \in S,
         \A s \in S \ {t} : g[s] = f[s]
  PROVE  SumOf(g) = SumOf(f) + (g[t] - f[t])
<1> DEFINE Neg(h) == [s \in DOMAIN h |-> -h[s]]
           Rest(h) == UNION {{s} \X (1..h[s]) : s \in S \ {t}}
           Up(k) == IF k > 0 THEN k ELSE 0
<1>1. /\ Neg(f) \in [S -> Int] /\ Neg(g) \in [S -> Int]
      /\ Neg(f)[t] = -f[t] /\ Neg(g)[t] = -g[t]
      /\ \A s \in S \ {t} : Neg(g)[s] = Neg(f)[s]
  OBVIOUS
<1> HIDE DEF Neg
<1>2. ASSUME NEW h \in [S -> Int]
      PROVE  /\ Cardinality(Rest(h)) \in Nat
             /\ Cardinality(Units(h)) = Cardinality(Rest(h)) + Up(h[t])
  BY UnitsSplit
<1>3. Rest(g) = Rest(f) /\ Rest(Neg(g)) = Rest(Neg(f))
  BY <1>1
<1> HIDE DEF Rest
<1>4. /\ SumOf(f) = Cardinality(Units(f)) - Cardinality(Units(Neg(f)))
      /\ SumOf(g) = Cardinality(Units(g)) - Cardinality(Units(Neg(g)))
  BY DEF SumOf, Neg
<1>5. /\ Cardinality(Units(f)) = Cardinality(Rest(f)) + Up(f[t])
      /\ Cardinality(Units(g)) = Cardinality(Rest(f)) + Up(g[t])
      /\ Cardinality(Units(Neg(f))) = Cardinality(Rest(Neg(f))) + Up(-f[t])
      /\ Cardinality(Units(Neg(g))) = Cardinality(Rest(Neg(f))) + Up(-g[t])
      /\ Cardinality(Rest(f)) \in Nat /\ Cardinality(Rest(Neg(f))) \in Nat
  BY <1>1, <1>2, <1>3
<1>6. f[t] \in Int /\ g[t] \in Int
  OBVIOUS
<1>7. SumOf(g) = SumOf(f) + ((Up(g[t]) - Up(-g[t])) - (Up(f[t]) - Up(-f[t])))
  BY <1>4, <1>5, <1>6
<1>8. \A k \in Int : Up(k) - Up(-k) = k
  OBVIOUS
<1> HIDE DEF Up
<1>9. Up(g[t]) - Up(-g[t]) = g[t] /\ Up(f[t]) - Up(-f[t]) = f[t]
  BY <1>6, <1>8
<1> QED BY <1>7, <1>9

LEMMA SumOfNothing ==
  ASSUME NEW S, NEW f \in [S -> Int], \A s \in S : f[s] = 0
  PROVE  SumOf(f) = 0
<1>1. Units(f) = {} /\ Units([s \in DOMAIN f |-> -f[s]]) = {}
  BY DEF Units
<1> QED BY <1>1, FS_EmptySet DEF SumOf

-----------------------------------------------------------------------------
(* One fill and one position *)

PositionType == [side : Side, qty : Nat, avg : Nat, realized : Int]
SumsType == [net : Int, cash : Int, settled : Int]

\* What a fill adds to the history of its symbol.
Paid(sum, side, n, price) ==
  [sum EXCEPT !.net = @ + Signed(side, n), !.cash = @ - Signed(side, n) * price]

\* The part of the balance that needs no average.
Nets(p, sum) == Signed(p.side, p.qty) = sum.net /\ (p.side = "FLAT" <=> p.qty = 0)

\* The average of q units at a and n units at price, whether it is a whole number, and
\* what it then is: the units are worth as much at avg.
Average(a, q, price, n) == (a * q + price * n) \div (q + n)
IsExact(a, q, price, n) == (a * q + price * n) % (q + n) = 0
KeepsWorth(a, q, price, n, avg) == (q + n) * avg = a * q + price * n

\* The average after the fill is a whole number, as the unit of Price is meant to make it.
Whole(p, side, n, price) ==
  p.side \in {"FLAT", side} => IsExact(p.avg, p.qty, price, n)

LEMMA SignedOf ==
  ASSUME NEW n
  PROVE  Signed("LONG", n) = n /\ Signed("SHORT", n) = -n /\ Signed("FLAT", n) = 0
BY DEF Signed

LEMMA FillTypes ==
  /\ \A n \in Size : n \in Nat /\ n > 0
  /\ \A price \in Price : price \in Nat
  /\ \A side \in Opening : side \in {"LONG", "SHORT"}
BY BooksAssumption DEF Opening

\* The average of two whole quantities.
LEMMA AverageIs ==
  ASSUME NEW a \in Nat, NEW q \in Nat, NEW price \in Nat, NEW n \in Nat, n > 0
  PROVE  /\ Average(a, q, price, n) \in Nat
         /\ IsExact(a, q, price, n) =>
              KeepsWorth(a, q, price, n, Average(a, q, price, n))
<1>1. \A m \in Nat : \A d \in Nat \ {0} :
        m \div d \in Nat /\ (m % d = 0 => d * (m \div d) = m)
  OBVIOUS
<1>2. a * q \in Nat /\ price * n \in Nat
  OBVIOUS
<1>3. a * q + price * n \in Nat /\ q + n \in Nat \ {0}
  BY <1>2
<1> QED BY <1>1, <1>3 DEF Average, IsExact, KeepsWorth

\* A fill leaves a position, and one that is the net of its fills still is.
LEMMA FilledPosition ==
  ASSUME NEW p \in PositionType, NEW side \in Opening, NEW n \in Size, NEW price \in Price
  PROVE  Filled(p, side, n, price) \in PositionType
<1>1. /\ n \in Nat /\ n > 0 /\ price \in Nat /\ side \in {"LONG", "SHORT"}
      /\ p.side \in Side /\ p.qty \in Nat /\ p.avg \in Nat /\ p.realized \in Int
  BY FillTypes DEF PositionType
<1>2. Increased(p, side, n, price) \in PositionType
  <2> DEFINE avg == Average(p.avg, p.qty, price, n)
  <2>1. avg \in Nat
    BY <1>1, AverageIs
  <2> PICK qty \in Nat : qty = p.qty + n
    BY <1>1
  <2>2. Increased(p, side, n, price) = [p EXCEPT !.side = side, !.qty = qty, !.avg = avg]
    BY DEF Increased, Average
  <2>3. side \in Side
    BY <1>1 DEF Side
  <2> HIDE DEF avg
  <2>4. [p EXCEPT !.side = side, !.qty = qty, !.avg = avg] \in PositionType
    BY <2>1, <2>3 DEF PositionType
  <2> QED BY <2>2, <2>4
<1>3. Reduced(p, side, n, price) \in PositionType
  <2>1. \A m \in Nat : Gain(p, m, price) \in Int
    <3> TAKE m \in Nat
    <3>1. (price - p.avg) * m \in Int
      BY <1>1
    <3> QED BY <1>1, <3>1, SignedOf DEF Gain, Side
  <2>2. CASE n < p.qty
    <3>1. p.qty - n \in Nat /\ p.realized + Gain(p, n, price) \in Int
      BY <1>1, <2>1, <2>2
    <3> QED BY <1>1, <2>2, <3>1 DEF Reduced, PositionType
  <2>3. CASE ~(n < p.qty)
    <3>1. n - p.qty \in Nat /\ p.realized + Gain(p, p.qty, price) \in Int
      BY <1>1, <2>1, <2>3
    <3> QED BY <1>1, <2>3, <3>1 DEF Reduced, PositionType, Side
  <2> QED BY <2>2, <2>3
<1> QED BY <1>2, <1>3 DEF Filled

LEMMA FilledNets ==
  ASSUME NEW p \in PositionType, NEW sum \in SumsType, Nets(p, sum),
         NEW side \in Opening, NEW n \in Size, NEW price \in Price
  PROVE  Nets(Filled(p, side, n, price), Paid(sum, side, n, price))
<1>1. /\ n \in Nat /\ n > 0 /\ side \in {"LONG", "SHORT"}
      /\ p.side \in {"FLAT", "LONG", "SHORT"} /\ p.qty \in Nat /\ sum.net \in Int
      /\ Paid(sum, side, n, price).net = sum.net + Signed(side, n)
  BY FillTypes DEF PositionType, SumsType, Side, Paid
<1>2. CASE p.side \in {"FLAT", side}
  <2>1. Filled(p, side, n, price).side = side /\ Filled(p, side, n, price).qty = p.qty + n
    BY <1>2 DEF Filled, Increased, PositionType
  <2>2. Signed(side, p.qty + n) = sum.net + Signed(side, n)
    BY <1>1, <1>2, SignedOf DEF Nets
  <2> QED BY <1>1, <2>1, <2>2 DEF Nets
<1>3. CASE p.side \notin {"FLAT", side} /\ n < p.qty
  <2>1. Filled(p, side, n, price).side = p.side /\ Filled(p, side, n, price).qty = p.qty - n
    BY <1>3 DEF Filled, Reduced, PositionType
  <2>2. Signed(p.side, p.qty - n) = sum.net + Signed(side, n)
    BY <1>1, <1>3, SignedOf DEF Nets
  <2> QED BY <1>1, <1>3, <2>1, <2>2 DEF Nets
<1>4. CASE p.side \notin {"FLAT", side} /\ ~(n < p.qty)
  <2>1. /\ Filled(p, side, n, price).side = (IF n = p.qty THEN "FLAT" ELSE side)
        /\ Filled(p, side, n, price).qty = n - p.qty
    BY <1>4 DEF Filled, Reduced
  <2>2. Signed(IF n = p.qty THEN "FLAT" ELSE side, n - p.qty) = sum.net + Signed(side, n)
    BY <1>1, <1>4, SignedOf DEF Nets
  <2> QED BY <1>1, <1>4, <2>1, <2>2 DEF Nets
<1> QED BY <1>2, <1>3, <1>4

\* A fill moves cash, profit and the value at average by amounts that cancel.
LEMMA FilledBalances ==
  ASSUME NEW p \in PositionType, NEW sum \in SumsType, Balanced(p, sum),
         NEW side \in Opening, NEW n \in Size, NEW price \in Price, Whole(p, side, n, price)
  PROVE  Balanced(Filled(p, side, n, price), Paid(sum, side, n, price))
<1> DEFINE new == Filled(p, side, n, price)
           paid == Paid(sum, side, n, price)
<1>1. /\ n \in Nat /\ n > 0 /\ price \in Nat /\ side \in {"LONG", "SHORT"}
      /\ p.side \in {"FLAT", "LONG", "SHORT"} /\ p.qty \in Nat /\ p.avg \in Nat
      /\ p.realized \in Int /\ sum.cash \in Int /\ sum.settled \in Int
      /\ paid.cash = sum.cash - Signed(side, n) * price /\ paid.settled = sum.settled
  BY FillTypes DEF PositionType, SumsType, Side, Paid
<1>2. /\ p.realized + sum.settled = sum.cash + Signed(p.side, p.qty) * p.avg
      /\ p.side = "FLAT" => p.qty = 0
  BY DEF Balanced
<1>3. Nets(new, paid)
  BY FilledNets DEF Balanced, Nets
<1> SUFFICES new.realized + paid.settled = paid.cash + Signed(new.side, new.qty) * new.avg
  BY <1>3 DEF Balanced, Nets
<1> PICK r \in Int, s \in Int, c \in Int, a \in Int, q \in Int, m \in Int, v \in Int :
      /\ r = p.realized /\ s = sum.settled /\ c = sum.cash /\ a = p.avg /\ q = p.qty
      /\ m = n /\ v = price
  BY <1>1
<1>4. CASE p.side \in {"FLAT", side}
  <2> DEFINE avg == Average(p.avg, p.qty, price, n)
  <2>1. /\ new.side = side /\ new.qty = p.qty + n /\ new.realized = p.realized
        /\ new.avg = avg
    BY <1>4 DEF Filled, Increased, Average, PositionType
  <2>2. avg \in Nat /\ (p.qty + n) * avg = p.avg * p.qty + price * n
    <3>1. IsExact(p.avg, p.qty, price, n)
      BY <1>4 DEF Whole
    <3>2. p.avg \in Nat /\ p.qty \in Nat /\ price \in Nat /\ n \in Nat /\ n > 0
      BY <1>1
    <3>3. avg \in Nat /\ KeepsWorth(p.avg, p.qty, price, n, avg)
      BY <3>1, <3>2, AverageIs
    <3> HIDE DEF avg
    <3> QED BY <3>3 DEF KeepsWorth
  <2> HIDE DEF new, paid, avg
  <2>3. CASE side = "LONG"
    <3>1. p.realized + sum.settled = sum.cash + p.qty * p.avg
      BY <1>1, <1>2, <1>4, <2>3, SignedOf
    <3>2. paid.cash = sum.cash - n * price
      BY <1>1, <2>3, SignedOf
    <3>3. Signed(new.side, new.qty) * new.avg = p.avg * p.qty + price * n
      BY <2>1, <2>2, <2>3, SignedOf
    <3> QED BY <1>1, <2>1, <3>1, <3>2, <3>3
  <2>4. CASE side = "SHORT"
    <3>1. p.realized + sum.settled = sum.cash - p.qty * p.avg
      <4>1. Signed(p.side, p.qty) = -p.qty
        BY <1>1, <1>2, <1>4, <2>4, SignedOf
      <4>2. r + s = c + (-q) * a
        BY <1>2, <4>1
      <4>3. r + s = c - q * a
        BY <4>2
      <4> QED BY <4>3
    <3>2. paid.cash = sum.cash + n * price
      BY <1>1, <2>4, SignedOf
    <3>3. Signed(new.side, new.qty) * new.avg = -(p.avg * p.qty + price * n)
      <4>1. Signed(new.side, new.qty) * new.avg = (-(p.qty + n)) * avg
        BY <2>1, <2>4, SignedOf
      <4> QED BY <1>1, <2>2, <4>1
    <3> QED BY <1>1, <2>1, <3>1, <3>2, <3>3
  <2> QED BY <1>1, <2>3, <2>4
<1>5. CASE p.side \notin {"FLAT", side} /\ n < p.qty
  <2>1. /\ new.side = p.side /\ new.qty = p.qty - n /\ new.avg = p.avg
        /\ new.realized = p.realized + Signed(p.side, (price - p.avg) * n)
    BY <1>5 DEF Filled, Reduced, Gain, PositionType
  <2> HIDE DEF new, paid
  <2>2. CASE p.side = "LONG"
    <3>1. /\ new.realized = p.realized + (price - p.avg) * n
          /\ paid.cash = sum.cash + n * price
          /\ Signed(new.side, new.qty) * new.avg = (p.qty - n) * p.avg
          /\ p.realized + sum.settled = sum.cash + p.qty * p.avg
      BY <1>1, <1>2, <1>5, <2>1, <2>2, SignedOf
    <3>2. r + s = c + q * a
      BY <3>1
    <3>3. (r + (v - a) * m) + s = (c + m * v) + (q - m) * a
      BY <3>2
    <3> QED BY <1>1, <3>1, <3>3
  <2>3. CASE p.side = "SHORT"
    <3>1. /\ new.realized = p.realized - (price - p.avg) * n
          /\ paid.cash = sum.cash - n * price
          /\ Signed(new.side, new.qty) * new.avg = (-(p.qty - n)) * p.avg
          /\ p.realized + sum.settled = sum.cash + (-p.qty) * p.avg
      BY <1>1, <1>2, <1>5, <2>1, <2>3, SignedOf
    <3>2. r + s = c + (-q) * a
      BY <3>1
    <3>3. (r - (v - a) * m) + s = (c - m * v) + (-(q - m)) * a
      <4>1. /\ (v - a) * m = m * v - m * a
            /\ (-(q - m)) * a = m * a - q * a /\ (-q) * a = -(q * a)
            /\ m * v \in Int /\ m * a \in Int /\ q * a \in Int
        OBVIOUS
      <4>2. r + s = c - q * a
        BY <3>2, <4>1
      <4>3. \A x \in Int, y \in Int, z \in Int :
              r + s = c - z => (r - (x - y)) + s = (c - x) + (y - z)
        OBVIOUS
      <4>4. (r - (m * v - m * a)) + s = (c - m * v) + (m * a - q * a)
        BY <4>1, <4>2, <4>3
      <4> QED BY <4>1, <4>4
    <3> QED BY <1>1, <3>1, <3>3
  <2> QED BY <1>1, <1>5, <2>2, <2>3
<1>6. CASE p.side \notin {"FLAT", side} /\ ~(n < p.qty)
  <2>1. /\ new.side = (IF n = p.qty THEN "FLAT" ELSE side) /\ new.qty = n - p.qty
        /\ new.avg = (IF n = p.qty THEN 0 ELSE price)
        /\ new.realized = p.realized + Signed(p.side, (price - p.avg) * p.qty)
    BY <1>6 DEF Filled, Reduced, Gain
  <2> HIDE DEF new, paid
  <2>2. Signed(new.side, new.qty) * new.avg = Signed(side, n - p.qty) * price
    <3>1. CASE n = p.qty
      <4>1. n - p.qty = 0 /\ new.side = "FLAT" /\ new.avg = 0
        BY <1>1, <2>1, <3>1
      <4>2. Signed(side, 0) = 0 /\ Signed("FLAT", n - p.qty) = 0
        BY <1>1, SignedOf
      <4>3. 0 * 0 = 0 /\ 0 * price = 0
        BY <1>1
      <4> QED BY <2>1, <4>1, <4>2, <4>3
    <3>2. CASE n # p.qty
      BY <2>1, <3>2
    <3> QED BY <3>1, <3>2
  <2>3. CASE p.side = "LONG"
    <3>0. side = "SHORT"
      BY <1>1, <1>6, <2>3
    <3>1. /\ new.realized = p.realized + (price - p.avg) * p.qty
          /\ paid.cash = sum.cash + n * price
          /\ Signed(new.side, new.qty) * new.avg = (-(n - p.qty)) * price
          /\ p.realized + sum.settled = sum.cash + p.qty * p.avg
      <4>1. paid.cash = sum.cash - (-n) * price /\ (-n) * price = -(n * price)
        BY <1>1, <3>0, SignedOf
      <4>2. n * price \in Int
        BY <1>1
      <4>3. paid.cash = sum.cash + n * price
        BY <1>1, <4>1, <4>2
      <4>4. /\ new.realized = p.realized + (price - p.avg) * p.qty
            /\ p.realized + sum.settled = sum.cash + p.qty * p.avg
        BY <1>2, <2>1, <2>3, SignedOf
      <4>5. Signed(new.side, new.qty) * new.avg = (-(n - p.qty)) * price
        BY <2>2, <3>0, SignedOf
      <4> QED BY <4>3, <4>4, <4>5
    <3>2. r + s = c + q * a
      BY <3>1
    <3>3. (r + (v - a) * q) + s = (c + m * v) + (-(m - q)) * v
      BY <3>2
    <3> QED BY <1>1, <3>1, <3>3
  <2>4. CASE p.side = "SHORT"
    <3>1. /\ new.realized = p.realized - (price - p.avg) * p.qty
          /\ paid.cash = sum.cash - n * price
          /\ Signed(new.side, new.qty) * new.avg = (n - p.qty) * price
          /\ p.realized + sum.settled = sum.cash + (-p.qty) * p.avg
      BY <1>1, <1>2, <1>6, <2>1, <2>2, <2>4, SignedOf
    <3>2. r + s = c + (-q) * a
      BY <3>1
    <3>3. (r - (v - a) * q) + s = (c - m * v) + (m - q) * v
      <4>1. /\ (v - a) * q = q * v - q * a
            /\ (m - q) * v = m * v - q * v /\ (-q) * a = -(q * a)
            /\ m * v \in Int /\ q * v \in Int /\ q * a \in Int
        OBVIOUS
      <4>2. r + s = c - q * a
        BY <3>2, <4>1
      <4>3. \A x \in Int, y \in Int, z \in Int :
              r + s = c - z => (r - (y - z)) + s = (c - x) + (x - y)
        OBVIOUS
      <4>4. (r - (q * v - q * a)) + s = (c - m * v) + (m * v - q * v)
        BY <4>1, <4>2, <4>3
      <4> QED BY <4>1, <4>4
    <3> QED BY <1>1, <3>1, <3>3
  <2> QED BY <1>1, <1>6, <2>3, <2>4
<1> QED BY <1>4, <1>5, <1>6

-----------------------------------------------------------------------------
(* The invariants *)

TypeInv ==
  BooksTypeOK /\ sums \in [Symbol -> SumsType] /\ savedSums \in [Symbol -> SumsType]

Realized(ps) == [s \in Symbol |-> ps[s].realized]

\* Positions ps, the day's profit and the history of the fills agree on quantities
\* and on profits.
BooksNet(ps, day, history) ==
  (\A s \in Symbol : Nets(ps[s], history[s])) /\ day = SumOf(Realized(ps))

\* So do the tracker, and the portfolio file as of its save.
NetInv ==
  /\ BooksNet(positions, daily, sums)
  /\ portfolio # NoFile => BooksNet(portfolio.positions, portfolio.daily, savedSums)

\* The positions balance, in the tracker and in the portfolio file.
BalanceInv ==
  \A s \in Symbol :
    /\ Balanced(positions[s], sums[s])
    /\ portfolio # NoFile => Balanced(portfolio.positions[s], savedSums[s])

\* The fills that may come next leave whole averages: the unit of Price is small enough.
WholeAverages ==
  \A s \in Symbol, side \in Opening, n \in Size, price \in Price :
    pc = "fills" /\ newest.fills < MaxFills => Whole(positions[s], side, n, price)

\* The tracker of a new process without a portfolio file.
EmptyTracker ==
  /\ positions' = [s \in Symbol |-> NoPosition] /\ daily' = 0
  /\ sums' = [s \in Symbol |-> NoSums]

LEMMA EmptyPosition ==
  /\ NoPosition \in PositionType /\ NoSums \in SumsType
  /\ Nets(NoPosition, NoSums) /\ Balanced(NoPosition, NoSums)
BY SignedOf DEF NoPosition, NoSums, PositionType, SumsType, Side, Nets, Balanced

LEMMA EmptyBooks ==
  ASSUME NEW ps, ps = [s \in Symbol |-> NoPosition], NEW history,
         history = [s \in Symbol |-> NoSums]
  PROVE  BooksNet(ps, 0, history)
<1>1. \A s \in Symbol : Nets(ps[s], history[s])
  BY EmptyPosition
<1>2. Realized(ps) \in [Symbol -> Int] /\ \A s \in Symbol : Realized(ps)[s] = 0
  BY DEF Realized, NoPosition
<1>3. SumOf(Realized(ps)) = 0
  BY <1>2, SumOfNothing
<1> QED BY <1>1, <1>3 DEF BooksNet

\* What a booked fill does to the tracker.
LEMMA BookFillMoves ==
  ASSUME TypeInv, NEW t \in Symbol, NEW side \in Opening, NEW n \in Size, NEW price \in Price,
         NEW order \in Order, BookFill(t, side, n, price, order)
  PROVE  /\ positions \in [Symbol -> PositionType] /\ sums \in [Symbol -> SumsType]
         /\ positions' \in [Symbol -> PositionType] /\ sums' \in [Symbol -> SumsType]
         /\ positions'[t] = Filled(positions[t], side, n, price)
         /\ sums'[t] = Paid(sums[t], side, n, price)
         /\ \A s \in Symbol \ {t} : positions'[s] = positions[s] /\ sums'[s] = sums[s]
         /\ daily' = daily + (positions'[t].realized - positions[t].realized)
         /\ daily' \in Int
         /\ pc = "fills" /\ newest.fills < MaxFills /\ UNCHANGED saved
<1>1. positions \in [Symbol -> PositionType] /\ sums \in [Symbol -> SumsType] /\ daily \in Int
  BY DEF TypeInv, BooksTypeOK, PositionType
<1>2. /\ positions' = [positions EXCEPT ![t] = Filled(positions[t], side, n, price)]
      /\ daily' = daily + (Filled(positions[t], side, n, price).realized - positions[t].realized)
      /\ sums' = [sums EXCEPT ![t].net = @ + Signed(side, n),
                              ![t].cash = @ - Signed(side, n) * price]
      /\ pc = "fills" /\ newest.fills < MaxFills /\ UNCHANGED saved
  BY DEF BookFill
<1>3. Filled(positions[t], side, n, price) \in PositionType
  BY <1>1, FilledPosition
<1>4. /\ positions' \in [Symbol -> PositionType]
      /\ positions'[t] = Filled(positions[t], side, n, price)
      /\ \A s \in Symbol \ {t} : positions'[s] = positions[s]
  BY <1>1, <1>2, <1>3
<1>5. /\ sums' = [sums EXCEPT ![t] = Paid(sums[t], side, n, price)]
      /\ Paid(sums[t], side, n, price) \in SumsType
  <2>1. /\ n \in Int /\ price \in Int /\ Signed(side, n) \in Int
    BY FillTypes, SignedOf
  <2>2. Signed(side, n) * price \in Int
    BY <2>1
  <2>3. sums' = [sums EXCEPT ![t] = Paid(sums[t], side, n, price)]
    BY <1>1, <1>2 DEF Paid
  <2>4. sums[t] \in SumsType /\ sums[t].net \in Int /\ sums[t].cash \in Int
    BY <1>1 DEF SumsType
  <2> PICK net \in Int, cash \in Int :
        net = sums[t].net + Signed(side, n) /\ cash = sums[t].cash - Signed(side, n) * price
    BY <2>1, <2>2, <2>4
  <2>5. Paid(sums[t], side, n, price) = [sums[t] EXCEPT !.net = net, !.cash = cash]
    BY DEF Paid
  <2>6. [sums[t] EXCEPT !.net = net, !.cash = cash] \in SumsType
    BY <2>4 DEF SumsType
  <2> QED BY <2>3, <2>5, <2>6
<1>6. /\ sums' \in [Symbol -> SumsType] /\ sums'[t] = Paid(sums[t], side, n, price)
      /\ \A s \in Symbol \ {t} : sums'[s] = sums[s]
  BY <1>1, <1>5
<1>7. /\ daily' = daily + (positions'[t].realized - positions[t].realized)
      /\ positions'[t].realized \in Int /\ positions[t].realized \in Int
  BY <1>1, <1>2, <1>4 DEF PositionType
<1> QED BY <1>1, <1>2, <1>4, <1>6, <1>7

\* What a day's reset does to the tracker.
LEMMA ResetMoves ==
  ASSUME TypeInv, ResetDay
  PROVE  /\ positions' \in [Symbol -> PositionType] /\ sums' \in [Symbol -> SumsType]
         /\ \A s \in Symbol :
              /\ positions[s] \in PositionType /\ sums[s] \in SumsType
              /\ positions'[s] = [positions[s] EXCEPT !.realized = 0]
              /\ sums'[s] = [sums[s] EXCEPT !.settled = @ + positions[s].realized]
         /\ daily' = 0 /\ UNCHANGED saved
<1>1. /\ \A s \in Symbol : positions[s] \in PositionType /\ sums[s] \in SumsType
  BY DEF TypeInv, BooksTypeOK, PositionType
<1>2. \A s \in Symbol :
        /\ [positions[s] EXCEPT !.realized = 0] \in PositionType
        /\ [sums[s] EXCEPT !.settled = @ + positions[s].realized] \in SumsType
  BY <1>1 DEF PositionType, SumsType
<1> QED BY <1>1, <1>2 DEF ResetDay

\* Every step leaves the tracker alone, books a fill, resets the day, empties the tracker
\* or takes the saved one; and it leaves the file alone or saves the tracker in it.
LEMMA TrackerMoves ==
  ASSUME [Next]_vars
  PROVE  \/ UNCHANGED tracker /\ UNCHANGED saved
         \/ /\ UNCHANGED tracker /\ savedSums' = sums
            /\ portfolio' = [positions |-> positions, daily |-> daily]
         \/ \E s \in Symbol, side \in Opening, n \in Size, price \in Price, order \in Order :
              BookFill(s, side, n, price, order)
         \/ ResetDay
         \/ EmptyTracker /\ UNCHANGED saved
         \/ /\ portfolio # NoFile /\ UNCHANGED saved
            /\ positions' = portfolio.positions /\ daily' = portfolio.daily /\ sums' = savedSums
<1>1. CASE Cycle
  BY <1>1 DEF Cycle, BeginCycle, AppendRecord, AppendFails, EndCycle, ObservePrice, tracker, saved
<1>2. CASE Die
  BY <1>2 DEF Die, EmptyTracker
<1>3. CASE Start
  BY <1>3 DEF Start
<1>4. CASE UNCHANGED vars
  BY <1>4 DEF vars, tracker, saved
<1> QED BY <1>1, <1>2, <1>3, <1>4 DEF Next

LEMMA NextBooksType == TypeInv /\ [Next]_vars => TypeInv'
<1> SUFFICES ASSUME TypeInv, [Next]_vars PROVE TypeInv'
  OBVIOUS
<1>1. /\ positions \in [Symbol -> PositionType] /\ daily \in Int
      /\ sums \in [Symbol -> SumsType] /\ savedSums \in [Symbol -> SumsType]
      /\ portfolio # NoFile =>
           portfolio.positions \in [Symbol -> PositionType] /\ portfolio.daily \in Int
  BY DEF TypeInv, BooksTypeOK, PositionType
<1> DEFINE Typed ==
      /\ positions' \in [Symbol -> PositionType] /\ daily' \in Int
      /\ sums' \in [Symbol -> SumsType] /\ savedSums' \in [Symbol -> SumsType]
      /\ portfolio' # NoFile =>
           portfolio'.positions \in [Symbol -> PositionType] /\ portfolio'.daily \in Int
<1>2. Typed
  <2>1. CASE UNCHANGED tracker /\ UNCHANGED saved
    BY <1>1, <2>1 DEF tracker, saved
  <2>2. CASE /\ UNCHANGED tracker /\ savedSums' = sums
             /\ portfolio' = [positions |-> positions, daily |-> daily]
    BY <1>1, <2>2 DEF tracker
  <2>3. ASSUME NEW s \in Symbol, NEW side \in Opening, NEW n \in Size, NEW price \in Price,
               NEW order \in Order, BookFill(s, side, n, price, order)
        PROVE  Typed
    BY <1>1, <2>3, BookFillMoves DEF saved
  <2>4. CASE ResetDay
    BY <1>1, <2>4, ResetMoves DEF saved
  <2>5. CASE EmptyTracker /\ UNCHANGED saved
    BY <1>1, <2>5, EmptyPosition DEF EmptyTracker, saved
  <2>6. CASE /\ portfolio # NoFile /\ UNCHANGED saved
             /\ positions' = portfolio.positions /\ daily' = portfolio.daily
             /\ sums' = savedSums
    BY <1>1, <2>6 DEF saved
  <2> QED BY <2>1, <2>2, <2>3, <2>4, <2>5, <2>6, TrackerMoves
<1>3. pc' \in {"idle", "fills", "persist", "save", "down"} /\ traded' \in BOOLEAN
  <2>1. CASE \E s \in Symbol, side \in Opening, n \in Size, price \in Price, order \in Order :
               BookFill(s, side, n, price, order)
    BY <2>1 DEF BookFill, TypeInv, BooksTypeOK
  <2>2. CASE Cycle
    BY <2>2 DEF Cycle, BeginCycle, ObservePrice, AppendRecord, AppendFails, EndCycle,
       TypeInv, BooksTypeOK
  <2>3. CASE ResetDay \/ Die \/ Start \/ UNCHANGED vars
    BY <2>3 DEF ResetDay, Die, Start, vars, TypeInv, BooksTypeOK
  <2> QED BY <2>1, <2>2, <2>3 DEF Next
<1>4. newest' \in [order : 0..MaxFills, fills : 0..MaxFills]
  <2>1. CASE newest' = newest
    BY <2>1 DEF TypeInv, BooksTypeOK
  <2>2. ASSUME NEW s \in Symbol, NEW side \in Opening, NEW n \in Size, NEW price \in Price,
               NEW order \in Order, BookFill(s, side, n, price, order)
        PROVE  newest' \in [order : 0..MaxFills, fills : 0..MaxFills]
    <3>1. newest' = [order |-> order, fills |-> newest.fills + 1] /\ newest.fills < MaxFills
      BY <2>2 DEF BookFill
    <3>2. newest.fills + 1 \in 0..MaxFills /\ order \in 0..MaxFills
      BY <3>1, BooksAssumption DEF TypeInv, BooksTypeOK, Order
    <3> QED BY <3>1, <3>2
  <2>3. newest' = newest \/ \E s \in Symbol, side \in Opening, n \in Size, price \in Price,
                               order \in Order : BookFill(s, side, n, price, order)
    BY DEF Next, Cycle, BeginCycle, ObservePrice, AppendRecord, AppendFails, EndCycle,
       ResetDay, Die, Start, vars
  <2> QED BY <2>1, <2>2, <2>3
<1>5. {registered', pending', harvested', recorded', discarded'} \subseteq SUBSET Order
  <2>0. {registered, pending, harvested, recorded, discarded} \subseteq SUBSET Order
    BY DEF TypeInv, BooksTypeOK
  <2>1. CASE \E s \in Symbol, side \in Opening, n \in Size, price \in Price, order \in Order :
               BookFill(s, side, n, price, order)
    BY <2>0, <2>1 DEF BookFill
  <2>2. CASE Cycle
    <3>1. CASE BeginCycle \/ AppendFails \/ EndCycle
      BY <2>0, <3>1 DEF BeginCycle, AppendFails, EndCycle, loop
    <3>2. CASE AppendRecord
      BY <2>0, <3>2 DEF AppendRecord
    <3>3. ASSUME NEW due \in SUBSET pending, ObservePrice(due)
          PROVE  {registered', pending', harvested', recorded', discarded'} \subseteq SUBSET Order
      BY <2>0, <3>3 DEF ObservePrice
    <3> QED BY <2>2, <3>1, <3>2, <3>3 DEF Cycle
  <2>3. CASE ResetDay \/ UNCHANGED vars
    BY <2>0, <2>3 DEF ResetDay, vars, loop
  <2>4. CASE Die \/ Start
    BY <2>0, <2>4 DEF Die, Start
  <2> QED BY <2>1, <2>2, <2>3, <2>4 DEF Next
<1> QED BY <1>2, <1>3, <1>4, <1>5 DEF TypeInv, BooksTypeOK, PositionType

\* A step that leaves the file alone leaves its books alone.
LEMMA SameFile ==
  ASSUME UNCHANGED saved
  PROVE  /\ NetInv => (portfolio # NoFile => BooksNet(portfolio.positions, portfolio.daily, savedSums))'
         /\ BalanceInv =>
              \A s \in Symbol : portfolio' # NoFile => Balanced(portfolio'.positions[s], savedSums'[s])
BY DEF saved, NetInv, BooksNet, Realized, BalanceInv

\* A fill, or a day's reset, keeps the quantities and the profits together.
LEMMA TrackerNets ==
  ASSUME TypeInv, BooksNet(positions, daily, sums),
         \/ \E s \in Symbol, side \in Opening, n \in Size, price \in Price, order \in Order :
              BookFill(s, side, n, price, order)
         \/ ResetDay
  PROVE  BooksNet(positions, daily, sums)'
<1>1. ASSUME NEW t \in Symbol, NEW side \in Opening, NEW n \in Size, NEW price \in Price,
             NEW order \in Order, BookFill(t, side, n, price, order)
      PROVE  BooksNet(positions, daily, sums)'
  <2>1. /\ positions \in [Symbol -> PositionType] /\ sums \in [Symbol -> SumsType]
        /\ positions' \in [Symbol -> PositionType]
        /\ positions'[t] = Filled(positions[t], side, n, price)
        /\ sums'[t] = Paid(sums[t], side, n, price)
        /\ \A s \in Symbol \ {t} : positions'[s] = positions[s] /\ sums'[s] = sums[s]
        /\ daily' = daily + (positions'[t].realized - positions[t].realized)
    BY <1>1, BookFillMoves
  <2>2. \A s \in Symbol : Nets(positions'[s], sums'[s])
    <3>1. Nets(positions[t], sums[t]) /\ positions[t] \in PositionType /\ sums[t] \in SumsType
      BY <2>1 DEF BooksNet
    <3>2. Nets(positions'[t], sums'[t])
      BY <2>1, <3>1, FilledNets
    <3>3. \A s \in Symbol \ {t} : Nets(positions'[s], sums'[s])
      BY <2>1 DEF BooksNet
    <3> QED BY <3>2, <3>3
  <2>3. SumOf(Realized(positions')) = daily'
    <3>1. /\ Realized(positions) \in [Symbol -> Int] /\ Realized(positions') \in [Symbol -> Int]
          /\ \A s \in Symbol \ {t} : Realized(positions')[s] = Realized(positions)[s]
          /\ Realized(positions')[t] = positions'[t].realized
          /\ Realized(positions)[t] = positions[t].realized
      BY <2>1 DEF Realized, PositionType
    <3>2. SumOf(Realized(positions'))
            = SumOf(Realized(positions)) + (positions'[t].realized - positions[t].realized)
      BY <3>1, SumOfChange, BooksAssumption
    <3> QED BY <2>1, <3>2 DEF BooksNet
  <2> QED BY <2>2, <2>3 DEF BooksNet, Realized
<1>2. CASE ResetDay
  <2>1. /\ \A s \in Symbol :
             /\ positions[s] \in PositionType /\ sums[s] \in SumsType
             /\ positions'[s] = [positions[s] EXCEPT !.realized = 0]
             /\ sums'[s] = [sums[s] EXCEPT !.settled = @ + positions[s].realized]
        /\ daily' = 0
    BY <1>2, ResetMoves
  <2>2. \A s \in Symbol :
          /\ positions'[s].side = positions[s].side /\ positions'[s].qty = positions[s].qty
          /\ positions'[s].realized = 0 /\ sums'[s].net = sums[s].net
    BY <2>1 DEF PositionType, SumsType
  <2>3. \A s \in Symbol : Nets(positions'[s], sums'[s])
    BY <2>2 DEF BooksNet, Nets
  <2>4. SumOf(Realized(positions')) = 0
    <3>1. /\ Realized(positions') \in [Symbol -> Int]
          /\ \A s \in Symbol : Realized(positions')[s] = 0
      BY <2>2 DEF Realized
    <3> QED BY <3>1, SumOfNothing
  <2> QED BY <2>1, <2>3, <2>4 DEF BooksNet, Realized
<1> QED BY <1>1, <1>2

LEMMA NextNet == TypeInv /\ NetInv /\ [Next]_vars => NetInv'
<1> SUFFICES ASSUME TypeInv, NetInv, [Next]_vars PROVE NetInv'
  OBVIOUS
<1>1. BooksNet(positions, daily, sums)
  BY DEF NetInv
<1>2. CASE UNCHANGED tracker /\ UNCHANGED saved
  BY <1>2 DEF tracker, saved, NetInv, BooksNet, Realized
<1>3. CASE /\ UNCHANGED tracker /\ savedSums' = sums
           /\ portfolio' = [positions |-> positions, daily |-> daily]
  <2>1. portfolio'.positions = positions /\ portfolio'.daily = daily
    BY <1>3
  <2> QED BY <1>1, <1>3, <2>1 DEF tracker, NetInv, BooksNet, Realized
<1>4. CASE \/ \E s \in Symbol, side \in Opening, n \in Size, price \in Price, order \in Order :
                BookFill(s, side, n, price, order)
           \/ ResetDay
  <2>1. UNCHANGED saved
    BY <1>4, BookFillMoves, ResetMoves
  <2> QED BY <1>1, <1>4, <2>1, TrackerNets, SameFile DEF NetInv
<1>5. CASE EmptyTracker /\ UNCHANGED saved
  <2>1. BooksNet(positions, daily, sums)'
    BY <1>5, EmptyBooks DEF EmptyTracker
  <2> QED BY <1>5, <2>1, SameFile DEF NetInv
<1>6. CASE /\ portfolio # NoFile /\ UNCHANGED saved
           /\ positions' = portfolio.positions /\ daily' = portfolio.daily /\ sums' = savedSums
  <2>1. BooksNet(positions, daily, sums)'
    BY <1>6 DEF NetInv, BooksNet, Realized
  <2> QED BY <1>6, <2>1, SameFile DEF NetInv
<1> QED BY <1>2, <1>3, <1>4, <1>5, <1>6, TrackerMoves

LEMMA NextBalance == TypeInv /\ BalanceInv /\ WholeAverages /\ [Next]_vars => BalanceInv'
<1> SUFFICES ASSUME TypeInv, BalanceInv, WholeAverages, [Next]_vars PROVE BalanceInv'
  OBVIOUS
<1>1. CASE UNCHANGED tracker /\ UNCHANGED saved
  BY <1>1 DEF tracker, saved, BalanceInv
<1>2. CASE /\ UNCHANGED tracker /\ savedSums' = sums
           /\ portfolio' = [positions |-> positions, daily |-> daily]
  <2>1. portfolio'.positions = positions
    BY <1>2
  <2> QED BY <1>2, <2>1 DEF tracker, BalanceInv
<1>3. ASSUME NEW t \in Symbol, NEW side \in Opening, NEW n \in Size, NEW price \in Price,
             NEW order \in Order, BookFill(t, side, n, price, order)
      PROVE  BalanceInv'
  <2>1. /\ positions \in [Symbol -> PositionType] /\ sums \in [Symbol -> SumsType]
        /\ positions'[t] = Filled(positions[t], side, n, price)
        /\ sums'[t] = Paid(sums[t], side, n, price)
        /\ \A s \in Symbol \ {t} : positions'[s] = positions[s] /\ sums'[s] = sums[s]
        /\ pc = "fills" /\ newest.fills < MaxFills /\ UNCHANGED saved
    BY <1>3, BookFillMoves
  <2>2. Balanced(positions'[t], sums'[t])
    <3>1. /\ Balanced(positions[t], sums[t]) /\ Whole(positions[t], side, n, price)
          /\ positions[t] \in PositionType /\ sums[t] \in SumsType
      BY <2>1 DEF BalanceInv, WholeAverages
    <3> QED BY <2>1, <3>1, FilledBalances
  <2>3. \A s \in Symbol \ {t} : Balanced(positions'[s], sums'[s])
    BY <2>1 DEF BalanceInv
  <2>4. \A s \in Symbol : portfolio' # NoFile => Balanced(portfolio'.positions[s], savedSums'[s])
    BY <2>1, SameFile
  <2> QED BY <2>2, <2>3, <2>4 DEF BalanceInv
<1>4. CASE ResetDay
  <2>1. ASSUME NEW s \in Symbol PROVE Balanced(positions'[s], sums'[s])
    <3>1. /\ positions[s] \in PositionType /\ sums[s] \in SumsType
          /\ positions'[s] = [positions[s] EXCEPT !.realized = 0]
          /\ sums'[s] = [sums[s] EXCEPT !.settled = @ + positions[s].realized]
      BY <1>4, ResetMoves
    <3>2. /\ positions'[s].side = positions[s].side /\ positions'[s].qty = positions[s].qty
          /\ positions'[s].avg = positions[s].avg /\ positions'[s].realized = 0
          /\ sums'[s].net = sums[s].net /\ sums'[s].cash = sums[s].cash
          /\ sums'[s].settled = sums[s].settled + positions[s].realized
          /\ sums[s].settled \in Int /\ positions[s].realized \in Int
      BY <3>1 DEF PositionType, SumsType
    <3>3. 0 + (sums[s].settled + positions[s].realized) = positions[s].realized + sums[s].settled
      BY <3>2
    <3> QED BY <3>2, <3>3 DEF BalanceInv, Balanced
  <2>2. UNCHANGED saved
    BY <1>4, ResetMoves
  <2> QED BY <2>1, <2>2, SameFile DEF BalanceInv
<1>5. CASE EmptyTracker /\ UNCHANGED saved
  <2>1. \A s \in Symbol : Balanced(positions'[s], sums'[s])
    BY <1>5, EmptyPosition DEF EmptyTracker
  <2> QED BY <1>5, <2>1, SameFile DEF BalanceInv
<1>6. CASE /\ portfolio # NoFile /\ UNCHANGED saved
           /\ positions' = portfolio.positions /\ daily' = portfolio.daily /\ sums' = savedSums
  BY <1>6 DEF saved, BalanceInv
<1> QED BY <1>1, <1>2, <1>3, <1>4, <1>5, <1>6, TrackerMoves

-----------------------------------------------------------------------------
(* The theorems *)

LEMMA InitBooks == Init => TypeInv /\ NetInv /\ BalanceInv
<1> SUFFICES ASSUME Init PROVE TypeInv /\ NetInv /\ BalanceInv
  OBVIOUS
<1>1. /\ positions = [s \in Symbol |-> NoPosition] /\ sums = [s \in Symbol |-> NoSums]
      /\ savedSums = [s \in Symbol |-> NoSums] /\ daily = 0 /\ portfolio = NoFile
  BY DEF Init
<1>2. newest \in [order : 0..MaxFills, fills : 0..MaxFills]
  BY BooksAssumption DEF Init
<1>3. TypeInv
  <2>1. /\ positions \in [Symbol -> PositionType] /\ sums \in [Symbol -> SumsType]
        /\ savedSums \in [Symbol -> SumsType] /\ daily \in Int
    BY <1>1, EmptyPosition
  <2>2. {registered, pending, harvested, recorded, discarded} \subseteq SUBSET Order
    BY DEF Init
  <2>3. pc \in {"idle", "fills", "persist", "save", "down"} /\ traded \in BOOLEAN
    BY DEF Init
  <2> QED BY <1>1, <1>2, <2>1, <2>2, <2>3 DEF TypeInv, BooksTypeOK, PositionType
<1>4. NetInv
  BY <1>1, EmptyBooks DEF NetInv
<1>5. BalanceInv
  BY <1>1, EmptyPosition DEF BalanceInv
<1> QED BY <1>3, <1>4, <1>5

LEMMA BooksHold == Spec => [](TypeInv /\ NetInv)
<1>1. TypeInv /\ NetInv /\ [Next]_vars => (TypeInv /\ NetInv)'
  BY NextBooksType, NextNet
<1> QED BY <1>1, InitBooks, PTL DEF Spec

\* Type correctness of the tracker, its saved copy and the TCA loop.
THEOREM BooksTypeCorrect == Spec => []BooksTypeOK
BY BooksHold, PTL DEF TypeInv

\* Whatever the averages are rounded to: a position is the net of the fills, flat when
\* that is nothing, and the day's profit is the sum over the positions, through flips,
\* resets and restarts.
THEOREM PositionsNetTheFills == Spec => []BooksNet(positions, daily, sums)
BY BooksHold, PTL DEF NetInv

\* Where averages are whole numbers, no fill makes or loses money in the books: realized
\* profit is what the fills paid plus the open position at its average.
THEOREM BooksAddUp == Spec /\ []WholeAverages => []BooksBalance
<1>1. NetInv /\ BalanceInv => BooksBalance
  BY DEF NetInv, BooksNet, BalanceInv, BooksBalance, Realized
<1>2. (TypeInv /\ NetInv /\ BalanceInv) /\ WholeAverages /\ [Next]_vars
        => (TypeInv /\ NetInv /\ BalanceInv)'
  BY NextBooksType, NextNet, NextBalance
<1> QED BY <1>1, <1>2, InitBooks, PTL DEF Spec

=============================================================================
