------------------------ MODULE OrderLifecycleProofs ------------------------
(***************************************************************************)
(* Proofs about OrderLifecycle that hold for every adapter, fault and      *)
(* clock skew: type correctness, and with it that the replay of the log is *)
(* defined, i.e. that every recorded order has a first and a last record   *)
(* in replay order.                                                        *)
(***************************************************************************)
EXTENDS OrderLifecycle, TLAPS, FiniteSetTheorems, SequenceTheorems

Busy == {"rejecting", "created", "validated", "applying", "cancelling"}

IsFirst(o, i) == \A j \in RecordsOf(o) \ {i} : Before(i, j)
IsLast(o, i) == \A j \in RecordsOf(o) \ {i} : Before(j, i)

\* Replay order has a first and a last record in every group.
LogHasEnds ==
  \A o \in Order :
    RecordsOf(o) # {} =>
      /\ \E i \in RecordsOf(o) : IsFirst(o, i)
      /\ \E i \in RecordsOf(o) : IsLast(o, i)

\* A call works on an order, a submission on one of positive size.
CallHasOrder ==
  /\ call.pc \in Busy => call.oid \in Order
  /\ call.pc = "reconciling" /\ call.todo # <<>> => call.oid \in Order
  /\ call.pc \in {"created", "validated"} => orders[call.oid].req > 0

TypeInv == TypeOK /\ LogHasEnds /\ CallHasOrder

-----------------------------------------------------------------------------
(* Sums of fills *)

\* A fill is as many units as its quantity.
LEMMA UnitsOfFill ==
  ASSUME NEW i, NEW q \in Nat
  PROVE  IsFiniteSet({i} \X (1..q)) /\ Cardinality({i} \X (1..q)) = q
<1>1. IsFiniteSet(1..q) /\ Cardinality(1..q) = q
  <2>1. 1 \in Int /\ q \in Int
    OBVIOUS
  <2>2. IsFiniteSet(1..q) /\ Cardinality(1..q) = IF 1 > q THEN 0 ELSE q - 1 + 1
    BY <2>1, FS_Interval
  <2> QED BY <2>2
<1>2. IsFiniteSet({i}) /\ Cardinality({i}) = 1
  BY FS_Singleton
<1>3. /\ IsFiniteSet({i} \X (1..q))
      /\ Cardinality({i} \X (1..q)) = Cardinality({i}) * Cardinality(1..q)
  BY <1>1, <1>2, FS_Product
<1> QED BY <1>1, <1>2, <1>3

\* The units of fills.
UnitsOf(fills) == UNION {{i} \X (1..fills[i]) : i \in DOMAIN fills}

LEMMA UnitsFinite ==
  ASSUME NEW fills \in Seq(Nat)
  PROVE  IsFiniteSet(UnitsOf(fills))
<1> DEFINE F == [i \in DOMAIN fills |-> {i} \X (1..fills[i])]
           Parts == {{i} \X (1..fills[i]) : i \in DOMAIN fills}
<1>1. /\ DOMAIN fills = 1..Len(fills) /\ Len(fills) \in Nat
      /\ \A i \in DOMAIN fills : fills[i] \in Nat
  BY LenProperties, ElementOfSeq
<1>2. IsFiniteSet(DOMAIN fills)
  BY <1>1, FS_Interval
<1>3. F \in Surjection(DOMAIN fills, Parts)
  BY DEF Surjection
<1>4. IsFiniteSet(Parts)
  BY <1>2, <1>3, FS_Surjection
<1>5. \A P \in Parts : IsFiniteSet(P)
  <2> SUFFICES ASSUME NEW i \in DOMAIN fills PROVE IsFiniteSet({i} \X (1..fills[i]))
    OBVIOUS
  <2>1. fills[i] \in Nat
    BY <1>1
  <2> QED BY <2>1, UnitsOfFill
<1>6. IsFiniteSet(UNION Parts)
  BY <1>4, <1>5, FS_UNION
<1> QED BY <1>6 DEF UnitsOf

LEMMA TotalType ==
  ASSUME NEW fills \in Seq(Nat)
  PROVE  Total(fills) \in Nat /\ Total(fills) = Cardinality(UnitsOf(fills))
BY UnitsFinite, FS_CardinalityType DEF Total, UnitsOf

LEMMA TotalOfNone == Total(<<>>) = 0
<1>1. UnitsOf(<<>>) = {}
  BY DEF UnitsOf
<1> QED BY <1>1, FS_EmptySet DEF Total, UnitsOf

\* One more fill adds its quantity.
LEMMA TotalOfAppend ==
  ASSUME NEW fills \in Seq(Nat), NEW q \in Nat
  PROVE  Total(Append(fills, q)) = Total(fills) + q
<1> DEFINE n == Len(fills) + 1
           new == Append(fills, q)
           Units == {n} \X (1..q)
<1>1. /\ new \in Seq(Nat) /\ new[n] = q /\ DOMAIN new = DOMAIN fills \cup {n}
      /\ \A i \in DOMAIN fills : new[i] = fills[i]
      /\ n \notin DOMAIN fills
  <2>1. /\ new \in Seq(Nat) /\ Len(new) = n /\ new[n] = q
        /\ \A i \in 1..Len(fills) : new[i] = fills[i]
    BY AppendProperties
  <2>2. DOMAIN new = 1..Len(new) /\ DOMAIN fills = 1..Len(fills) /\ Len(fills) \in Nat
    BY <2>1, LenProperties
  <2> QED BY <2>1, <2>2
<1> HIDE DEF n, new
<1>2. UnitsOf(new) = UnitsOf(fills) \cup Units
  <2>1. ASSUME NEW x \in UnitsOf(new) PROVE x \in UnitsOf(fills) \cup Units
    <3>1. PICK i \in DOMAIN new : x \in {i} \X (1..new[i])
      BY DEF UnitsOf
    <3> QED BY <1>1, <3>1 DEF UnitsOf
  <2>2. ASSUME NEW x \in UnitsOf(fills) PROVE x \in UnitsOf(new)
    <3>1. PICK i \in DOMAIN fills : x \in {i} \X (1..fills[i])
      BY DEF UnitsOf
    <3>2. i \in DOMAIN new /\ x \in {i} \X (1..new[i])
      BY <1>1, <3>1
    <3> QED BY <3>2 DEF UnitsOf
  <2>3. ASSUME NEW x \in Units PROVE x \in UnitsOf(new)
    <3>1. n \in DOMAIN new /\ x \in {n} \X (1..new[n])
      BY <1>1
    <3> QED BY <3>1 DEF UnitsOf
  <2> QED BY <2>1, <2>2, <2>3
<1>3. UnitsOf(fills) \cap Units = {}
  BY <1>1 DEF UnitsOf
<1>4. IsFiniteSet(Units) /\ Cardinality(Units) = q
  BY UnitsOfFill
<1>5. IsFiniteSet(UnitsOf(fills)) /\ Cardinality(UnitsOf(fills)) = Total(fills) /\ Total(fills) \in Nat
  BY UnitsFinite, TotalType
<1> HIDE DEF Units
<1>6. Cardinality(UnitsOf(new)) = Total(fills) + q - 0
  <2>1. Cardinality(UnitsOf(fills) \cup Units)
          = Cardinality(UnitsOf(fills)) + Cardinality(Units) - Cardinality(UnitsOf(fills) \cap Units)
    BY <1>4, <1>5, FS_Union
  <2> QED BY <1>2, <1>3, <1>4, <1>5, <2>1, FS_EmptySet
<1>7. Total(new) = Total(fills) + q
  BY <1>1, <1>5, <1>6, TotalType
<1> QED BY <1>7 DEF new

-----------------------------------------------------------------------------
(* Lemmas on the log and on the answers of an adapter *)

\* What the type of the log says of its records.
LEMMA RecordTypes ==
  ASSUME log \in Seq(Record)
  PROVE  /\ DOMAIN log = 1..Len(log) /\ Len(log) \in Nat
         /\ \A i \in DOMAIN log :
              /\ i \in Int /\ i < Len(log) + 1
              /\ log[i] \in Record
              /\ log[i].oid \in Order /\ log[i].to \in OrderState
              /\ log[i].qty \in Nat /\ log[i].req \in Int /\ log[i].ts \in Int
<1>1. DOMAIN log = 1..Len(log) /\ Len(log) \in Nat
  BY LenProperties
<1>2. \A i \in DOMAIN log : log[i] \in Record
  BY <1>1, ElementOfSeq
<1>3. \A r \in Record : /\ r.oid \in Order /\ r.to \in OrderState
                        /\ r.qty \in Nat /\ r.req \in Int /\ r.ts \in Int
  BY DEF Record
<1> QED BY <1>1, <1>2, <1>3

\* What an append does to the records of each order.
LEMMA AppendRecords ==
  ASSUME log \in Seq(Record), NEW r \in Record, log' = Append(log, r)
  PROVE  /\ log' \in Seq(Record) /\ Len(log') = Len(log) + 1
         /\ \A i \in DOMAIN log : i \in DOMAIN log' /\ log'[i] = log[i]
         /\ log'[Len(log) + 1] = r
         /\ \A o : RecordsOf(o)' = RecordsOf(o) \cup (IF o = r.oid THEN {Len(log) + 1} ELSE {})
<1>1. /\ log' \in Seq(Record) /\ Len(log') = Len(log) + 1
      /\ \A i \in DOMAIN log : i \in DOMAIN log' /\ log'[i] = log[i]
      /\ log'[Len(log) + 1] = r
  BY AppendProperties, LenProperties
<1>2. DOMAIN log = 1..Len(log) /\ DOMAIN log' = 1..(Len(log) + 1) /\ Len(log) \in Nat
  BY <1>1, LenProperties
<1>3. DOMAIN log' = DOMAIN log \cup {Len(log) + 1}
  BY <1>2
<1>4. ASSUME NEW o
      PROVE  RecordsOf(o)' = RecordsOf(o) \cup (IF o = r.oid THEN {Len(log) + 1} ELSE {})
  BY <1>1, <1>3 DEF RecordsOf
<1> QED BY <1>1, <1>4

\* A persisted record, well typed, leaves a well-typed log whose groups have ends.
LEMMA PersistKeepsEnds ==
  ASSUME log \in Seq(Record), LogHasEnds,
         NEW o \in Order, NEW to \in OrderState, NEW qty \in Nat, NEW req \in Int,
         NEW ts \in Int, Persist(o, to, qty, req, ts)
  PROVE  log' \in Seq(Record) /\ LogHasEnds'
<1> DEFINE r == [oid |-> o, to |-> to, qty |-> qty, req |-> req, ts |-> ts]
<1>1. CASE log' = log
  BY <1>1 DEF LogHasEnds, IsFirst, IsLast, RecordsOf, Before
<1>2. CASE log' = Append(log, r)
  <2>1. r \in Record /\ r.oid = o /\ r.ts = ts
    BY DEF Record
  <2> PICK n \in Nat : n = Len(log) + 1
    BY RecordTypes
  <2>2. /\ log' \in Seq(Record)
        /\ \A i \in DOMAIN log : i \in DOMAIN log' /\ log'[i] = log[i]
        /\ log'[n] = r
        /\ \A p : RecordsOf(p)' = RecordsOf(p) \cup (IF p = o THEN {n} ELSE {})
    BY <1>2, <2>1, AppendRecords
  <2>3. \A p : \A i \in RecordsOf(p) :
          log'[i] = log[i] /\ log[i].ts \in Int /\ i \in Int /\ i < n
    BY <2>2, RecordTypes DEF RecordsOf
  <2> SUFFICES ASSUME NEW p \in Order, RecordsOf(p)' # {}
               PROVE  /\ \E i \in RecordsOf(p)' : IsFirst(p, i)'
                      /\ \E i \in RecordsOf(p)' : IsLast(p, i)'
    BY <2>2 DEF LogHasEnds
  <2>4. CASE p # o
    <3>1. RecordsOf(p)' = RecordsOf(p)
      BY <2>2, <2>4
    <3>2. PICK i \in RecordsOf(p), k \in RecordsOf(p) : IsFirst(p, i) /\ IsLast(p, k)
      BY <3>1 DEF LogHasEnds
    <3>3. \A j \in RecordsOf(p) : log'[j] = log[j]
      BY <2>3
    <3>4. IsFirst(p, i)'
      BY <3>1, <3>2, <3>3 DEF IsFirst, Before
    <3>5. IsLast(p, k)'
      BY <3>1, <3>2, <3>3 DEF IsLast, Before
    <3> QED BY <3>1, <3>2, <3>4, <3>5
  <2>5. CASE p = o /\ RecordsOf(o) = {}
    BY <2>2, <2>5 DEF IsFirst, IsLast
  <2>6. CASE p = o /\ RecordsOf(o) # {}
    <3>1. RecordsOf(o)' = RecordsOf(o) \cup {n}
      BY <2>2
    <3>2. PICK i \in RecordsOf(o), k \in RecordsOf(o) : IsFirst(o, i) /\ IsLast(o, k)
      BY <2>6 DEF LogHasEnds
    <3>3. \A j \in RecordsOf(o) : /\ log'[j] = log[j] /\ log[j].ts \in Int
                                  /\ j \in Int /\ j < n
      BY <2>3
    <3>4. log'[n].ts = ts
      BY <2>1, <2>2
    <3>5. \A j \in RecordsOf(o) : /\ Before(i, j)' <=> Before(i, j)
                                  /\ Before(j, k)' <=> Before(j, k)
                                  /\ Before(j, n)' <=> log[j].ts <= ts
                                  /\ Before(n, j)' <=> ts < log[j].ts
      <4> SUFFICES ASSUME NEW j \in RecordsOf(o)
                   PROVE  /\ Before(i, j)' <=> Before(i, j)
                          /\ Before(j, k)' <=> Before(j, k)
                          /\ Before(j, n)' <=> log[j].ts <= ts
                          /\ Before(n, j)' <=> ts < log[j].ts
        OBVIOUS
      <4>1. log'[i] = log[i] /\ log'[j] = log[j] /\ log'[k] = log[k]
        BY <3>3
      <4>2. (Before(i, j)' <=> Before(i, j)) /\ (Before(j, k)' <=> Before(j, k))
        BY <4>1 DEF Before
      <4>3. log[j].ts \in Int /\ j \in Int /\ j < n
        BY <3>3
      <4>4. Before(j, n)' <=> log[j].ts <= ts
        BY <3>4, <4>1, <4>3 DEF Before
      <4>5. Before(n, j)' <=> ts < log[j].ts
        BY <3>4, <4>1, <4>3 DEF Before
      <4> QED BY <4>2, <4>4, <4>5
    <3>6. \A j \in RecordsOf(o) : log[i].ts <= log[j].ts /\ log[j].ts <= log[k].ts
      BY <3>2, <3>3 DEF IsFirst, IsLast, Before
    <3>7. IF log[i].ts <= ts THEN IsFirst(o, i)' ELSE IsFirst(o, n)'
      BY <3>1, <3>2, <3>3, <3>5, <3>6 DEF IsFirst
    <3>8. IF log[k].ts <= ts THEN IsLast(o, n)' ELSE IsLast(o, k)'
      BY <3>1, <3>2, <3>3, <3>5, <3>6 DEF IsLast
    <3> QED BY <2>6, <3>1, <3>2, <3>7, <3>8
  <2> QED BY <2>4, <2>5, <2>6
<1> QED BY <1>1, <1>2 DEF Persist

\* The fills the log holds for an order are finitely many.
LEMMA LoggedUnitsFinite ==
  ASSUME log \in Seq(Record), NEW o
  PROVE  IsFiniteSet(UNION {{i} \X (1..log[i].qty) : i \in RecordsOf(o)})
<1> DEFINE F == [i \in RecordsOf(o) |-> {i} \X (1..log[i].qty)]
           Parts == {{i} \X (1..log[i].qty) : i \in RecordsOf(o)}
<1>1. IsFiniteSet(RecordsOf(o))
  <2>1. RecordsOf(o) \in SUBSET (1..Len(log)) /\ Len(log) \in Nat
    BY LenProperties DEF RecordsOf
  <2>2. IsFiniteSet(1..Len(log))
    BY <2>1, FS_Interval
  <2> QED BY <2>1, <2>2, FS_Subset
<1>2. F \in Surjection(RecordsOf(o), Parts)
  BY DEF Surjection
<1>3. IsFiniteSet(Parts)
  BY <1>1, <1>2, FS_Surjection
<1>4. \A P \in Parts : IsFiniteSet(P)
  <2> SUFFICES ASSUME NEW i \in RecordsOf(o) PROVE IsFiniteSet({i} \X (1..log[i].qty))
    OBVIOUS
  <2>1. log[i].qty \in Nat
    BY RecordTypes DEF RecordsOf
  <2>2. IsFiniteSet({i})
    BY FS_Singleton
  <2>3. IsFiniteSet(1..log[i].qty)
    BY <2>1, FS_Interval
  <2> QED BY <2>2, <2>3, FS_Product
<1>5. IsFiniteSet(UNION Parts)
  BY <1>3, <1>4, FS_UNION
<1> QED BY <1>5

LEMMA LoggedFillType ==
  ASSUME log \in Seq(Record), NEW o
  PROVE  LoggedFill(o) \in Nat
BY LoggedUnitsFinite, FS_CardinalityType DEF LoggedFill

\* What replay restores of a recorded order is a well-typed order.
LEMMA RestoredType ==
  ASSUME log \in Seq(Record), LogHasEnds, NEW o \in Logged
  PROVE  Restored(o) \in OrderType
<1>1. FirstOf(o) \in RecordsOf(o) /\ LastOf(o) \in RecordsOf(o)
  BY DEF Logged, LogHasEnds, IsFirst, IsLast, FirstOf, LastOf
<1>2. log[FirstOf(o)].req \in Int /\ log[LastOf(o)].to \in OrderState
  BY <1>1, RecordTypes DEF RecordsOf
<1> QED BY <1>2, LoggedFillType DEF Restored, OrderType

\* The events an adapter may report.
LEMMA EventTypes ==
  ASSUME NEW to \in OrderState, NEW q \in Nat
  PROVE  Ev(to) \in Event /\ Fill(to, q) \in Event
BY DEF Ev, Fill, Event

LEMMA SameInterval ==
  ASSUME NEW m \in Nat, NEW n \in Nat, 1..m = 1..n
  PROVE  m = n
<1>1. \A k \in Nat \ {0} : k \in 1..m <=> k \in 1..n
  OBVIOUS
<1>2. CASE m < n
  <2>1. n \in Nat \ {0} /\ n \in 1..n /\ n \notin 1..m
    BY <1>2
  <2> QED BY <1>1, <2>1
<1>3. CASE n < m
  <2>1. m \in Nat \ {0} /\ m \in 1..m /\ m \notin 1..n
    BY <1>3
  <2> QED BY <1>1, <2>1
<1> QED BY <1>2, <1>3

\* A report of a contract keeper: partial fills, together less than the quantity, and
\* perhaps a last event that cancels the rest or fills it.
ReportOf(quantity, fills, report) ==
  /\ fills \in Seq(Nat) /\ Total(fills) < quantity
  /\ report \in Seq(Event) /\ Len(report) \in {Len(fills), Len(fills) + 1}
  /\ \A k \in 1..Len(fills) : report[k] = Fill("PARTIALLY_FILLED", fills[k])
  /\ Len(report) = Len(fills) + 1 =>
       \/ report[Len(report)] = Ev("CANCELLED")
       \/ report[Len(report)] = Fill("FILLED", quantity - Total(fills))

LEMMA ReportShape ==
  ASSUME NEW quantity \in Nat, NEW report \in FillReports(quantity, {<<>>, <<Ev("CANCELLED")>>})
  PROVE  \E fills \in Seq(Nat) : ReportOf(quantity, fills, report)
<1>0. PICK fills \in PartialFills(quantity) :
        \E end \in {<<Fill("FILLED", quantity - Total(fills))>>, <<>>, <<Ev("CANCELLED")>>} :
          report = PartialEvents(fills) \o end
  BY DEF FillReports
<1>1. PICK end \in {<<Fill("FILLED", quantity - Total(fills))>>, <<>>, <<Ev("CANCELLED")>>} :
        report = PartialEvents(fills) \o end
  BY <1>0
<1>2. fills \in Seq(Nat) /\ Total(fills) < quantity
  <2>1. PICK n \in 0..(quantity - 1) : fills \in [1..n -> 1..(quantity - 1)]
    BY DEF PartialFills
  <2>2. n \in Nat /\ fills \in [1..n -> Nat]
    BY <2>1
  <2> QED BY <2>2, SeqDef DEF PartialFills
<1>3. Len(fills) \in Nat /\ DOMAIN fills = 1..Len(fills) /\ \A k \in 1..Len(fills) : fills[k] \in Nat
  BY <1>2, LenProperties, ElementOfSeq
<1> DEFINE parts == PartialEvents(fills)
<1>4. parts \in Seq(Event) /\ Len(parts) = Len(fills)
      /\ \A k \in 1..Len(fills) : parts[k] = Fill("PARTIALLY_FILLED", fills[k])
  <2>1. parts = [i \in 1..Len(fills) |-> Fill("PARTIALLY_FILLED", fills[i])]
    BY <1>3 DEF PartialEvents
  <2>2. \A k \in 1..Len(fills) : Fill("PARTIALLY_FILLED", fills[k]) \in Event
    BY <1>3, EventTypes DEF OrderState
  <2>3. parts \in [1..Len(fills) -> Event]
    BY <2>1, <2>2
  <2>4. parts \in Seq(Event)
    BY <1>3, <2>3, SeqDef
  <2>5. Len(parts) \in Nat /\ DOMAIN parts = 1..Len(parts) /\ DOMAIN parts = 1..Len(fills)
    BY <2>3, <2>4, LenProperties
  <2>6. Len(parts) = Len(fills)
    BY <1>3, <2>5, SameInterval
  <2> QED BY <2>1, <2>4, <2>6
<1> HIDE DEF parts
<1>5. /\ Ev("CANCELLED") \in Event
      /\ Fill("FILLED", quantity - Total(fills)) \in Event
  <2>1. Total(fills) \in Nat /\ quantity - Total(fills) \in Nat
    BY <1>2, TotalType
  <2>2. "CANCELLED" \in OrderState /\ "FILLED" \in OrderState
    BY DEF OrderState
  <2> QED BY <2>1, <2>2, EventTypes
<1>6. /\ end \in Seq(Event)
      /\ \/ Len(end) = 0
         \/ /\ Len(end) = 1
            /\ end[1] = Ev("CANCELLED") \/ end[1] = Fill("FILLED", quantity - Total(fills))
  <2>1. \A e \in Event : <<e>> \in Seq(Event) /\ Len(<<e>>) = 1 /\ <<e>>[1] = e
    OBVIOUS
  <2>2. CASE end = <<>>
    BY <2>2
  <2>3. CASE end = <<Ev("CANCELLED")>>
    BY <1>5, <2>1, <2>3
  <2>4. CASE end = <<Fill("FILLED", quantity - Total(fills))>>
    BY <1>5, <2>1, <2>4
  <2> QED BY <1>1, <2>2, <2>3, <2>4
<1>7. report = parts \o end
  BY <1>1 DEF parts
<1>8. /\ report \in Seq(Event) /\ Len(report) = Len(fills) + Len(end)
      /\ \A k \in 1..(Len(fills) + Len(end)) :
           report[k] = IF k <= Len(fills) THEN parts[k] ELSE end[k - Len(fills)]
  <2>1. parts \in Seq(Event) /\ end \in Seq(Event) /\ Len(parts) = Len(fills)
    BY <1>4, <1>6
  <2>2. /\ parts \o end \in Seq(Event) /\ Len(parts \o end) = Len(parts) + Len(end)
        /\ \A k \in 1..(Len(parts) + Len(end)) :
             (parts \o end)[k] = IF k <= Len(parts) THEN parts[k] ELSE end[k - Len(parts)]
    BY <2>1, ConcatProperties
  <2> QED BY <1>7, <2>1, <2>2, Zenon
<1>9. \A k \in 1..Len(fills) : report[k] = Fill("PARTIALLY_FILLED", fills[k])
  BY <1>3, <1>4, <1>6, <1>8
<1>10. Len(report) = Len(fills) + 1 => report[Len(report)] = end[1]
  <2> SUFFICES ASSUME Len(report) = Len(fills) + 1 PROVE report[Len(report)] = end[1]
    OBVIOUS
  <2>1. Len(end) = 1
    BY <1>3, <1>6, <1>8
  <2>2. Len(fills) + 1 \in 1..(Len(fills) + Len(end)) /\ ~(Len(fills) + 1 <= Len(fills))
        /\ Len(fills) + 1 - Len(fills) = 1
    BY <1>3, <2>1
  <2> QED BY <1>8, <2>2
<1>11. Len(report) \in {Len(fills), Len(fills) + 1}
  <2>1. CASE Len(end) = 0
    BY <1>3, <1>8, <2>1
  <2>2. CASE Len(end) = 1
    BY <1>3, <1>8, <2>2
  <2> QED BY <1>6, <2>1, <2>2
<1>12. ReportOf(quantity, fills, report)
  BY <1>2, <1>6, <1>8, <1>9, <1>10, <1>11 DEF ReportOf
<1> QED BY <1>2, <1>12

\* What an adapter that keeps no order reports is still a sequence of events.
LEMMA DisorderlyType == DisorderlyAnswers \subseteq Seq(Event)
<1>1. Reported \subseteq Event
  <2>1. FillKinds \subseteq OrderState /\ ReportedQty \subseteq Nat
    BY VenueAssumption DEF FillKinds, OrderState
  <2> QED BY <2>1, EventTypes DEF Reported
<1> SUFFICES ASSUME NEW answer \in DisorderlyAnswers PROVE answer \in Seq(Event)
  OBVIOUS
<1>2. PICK n \in 0..MaxAnswer : answer \in [1..n -> Reported]
  BY DEF DisorderlyAnswers
<1>3. n \in Nat /\ answer \in [1..n -> Event]
  BY <1>1, <1>2, VenueAssumption
<1> QED BY <1>3, SeqDef

\* Whatever the adapter, its answer to a submission is a sequence of events.
LEMMA SubmitAnswersType ==
  ASSUME NEW req \in Nat, NEW answer \in SubmitAnswers(req)
  PROVE  answer \in Seq(Event)
<1>1. \A a, b, c \in Event :
        {<<>>, <<a>>, <<a, b>>, <<a, b, c>>} \subseteq Seq(Event)
  OBVIOUS
<1>2. /\ \A to \in {"SUBMITTED", "REJECTED", "CANCELLED"} : Ev(to) \in Event
      /\ \A to \in {"PARTIALLY_FILLED", "FILLED"}, q \in Nat : Fill(to, q) \in Event
  BY DEF Ev, Fill, Event, OrderState
<1>3. CASE Venue = "paper"
  <2>1. answer \in PaperSubmit(req) /\ Depth \subseteq Nat
    BY <1>3, QtyAssumption DEF SubmitAnswers
  <2>2. \/ answer = <<Ev("REJECTED")>>
        \/ answer = <<Ev("SUBMITTED"), Fill("FILLED", req)>>
        \/ \E d \in Depth :
             answer = <<Ev("SUBMITTED"), Fill("PARTIALLY_FILLED", d), Ev("CANCELLED")>>
    BY <2>1 DEF PaperSubmit
  <2> QED BY <1>1, <1>2, <2>1, <2>2
<1>4. CASE Venue = "contract"
  <2>1. \/ answer = <<Ev("REJECTED")>>
        \/ \E report \in FillReports(req, {<<>>, <<Ev("CANCELLED")>>}) :
             answer = <<Ev("SUBMITTED")>> \o report
    BY <1>4 DEF SubmitAnswers, ContractSubmit
  <2>2. ASSUME NEW report \in FillReports(req, {<<>>, <<Ev("CANCELLED")>>}),
               answer = <<Ev("SUBMITTED")>> \o report
        PROVE  answer \in Seq(Event)
    <3>1. report \in Seq(Event)
      BY ReportShape DEF ReportOf
    <3>2. <<Ev("SUBMITTED")>> \in Seq(Event)
      BY <1>1, <1>2
    <3> QED BY <2>2, <3>1, <3>2, ConcatProperties
  <2> QED BY <1>1, <1>2, <2>1, <2>2
<1>5. CASE Venue = "disorderly"
  BY <1>5, DisorderlyType DEF SubmitAnswers
<1> QED BY <1>3, <1>4, <1>5, VenueAssumption

\* Whatever the adapter, what it answers for an orphan is a sequence of events.
LEMMA ReconcileAnswersType ==
  ASSUME TypeOK, NEW o \in Order, NEW answer \in ReconcileAnswers(o)
  PROVE  answer \in Seq(Event)
<1>1. <<>> \in Seq(Event) /\ <<Ev("STALE")>> \in Seq(Event)
  <2>1. Ev("STALE") \in Event
    BY DEF Ev, Event, OrderState
  <2> QED BY <2>1
<1>2. CASE Venue = "paper"
  BY <1>1, <1>2 DEF ReconcileAnswers
<1>3. CASE Venue = "contract"
  <2>1. Remaining(o) \in Nat
    BY DEF TypeOK, OrderType, Remaining
  <2>2. \/ answer = <<>> \/ answer = <<Ev("STALE")>>
        \/ answer \in FillReports(Remaining(o), {<<>>, <<Ev("CANCELLED")>>})
    BY <1>3 DEF ReconcileAnswers, ContractReconcile
  <2> QED BY <1>1, <2>1, <2>2, ReportShape DEF ReportOf
<1>4. CASE Venue = "disorderly"
  <2>1. answer \in DisorderlyAnswers \/ answer = <<>>
    BY <1>4 DEF ReconcileAnswers
  <2> QED BY <1>1, <2>1, DisorderlyType
<1> QED BY <1>2, <1>3, <1>4, VenueAssumption

\* An order stays well typed when an event is applied to it.
LEMMA AppliedType ==
  ASSUME TypeOK, NEW o \in Order, NEW e \in Event
  PROVE  Applied(o, e) \in OrderType
<1>1. orders[o] \in OrderType
  BY DEF TypeOK
<1>2. e.to \in OrderState /\ e.qty \in Nat
  BY DEF Event
<1> DEFINE st == IF CanTransition(orders[o].st, e.to) THEN e.to ELSE orders[o].st
           fill == IF e.to \in FillKinds THEN orders[o].filled + e.qty ELSE orders[o].filled
<1>3. st \in OrderState \cup {"NONE"} /\ fill \in Nat
  BY <1>1, <1>2 DEF OrderType
<1>4. Applied(o, e) = [orders[o] EXCEPT !.st = st, !.filled = fill]
  BY DEF Applied
<1> HIDE DEF st, fill
<1> QED BY <1>1, <1>3, <1>4 DEF OrderType

\* An engine that processes nothing.
LEMMA CallAtType ==
  ASSUME NEW where \in PC, NEW o \in Order \cup {NoOrder}, NEW t \in Int
  PROVE  CallAt(where, o, t) \in CallType /\ CallAt(where, o, t).pc = where
         /\ CallAt(where, o, t).oid = o /\ CallAt(where, o, t).ts = t
         /\ CallAt(where, o, t).todo = <<>>
<1>1. <<>> \in Seq(Event) /\ <<>> \in Seq(Nat)
  OBVIOUS
<1> QED BY <1>1 DEF CallAt, CallType

LEMMA NoCallType ==
  ASSUME NEW where \in PC
  PROVE  NoCall(where) \in CallType /\ NoCall(where).pc = where /\ NoCall(where).ts = 0
BY CallAtType DEF NoCall

\* The ends of the log's groups depend on the log alone.
LEMMA SameLogKeepsEnds == LogHasEnds /\ log' = log => LogHasEnds'
BY DEF LogHasEnds, IsFirst, IsLast, RecordsOf, Before

\* An order whose state alone changes.
LEMMA SetStateType ==
  ASSUME TypeOK, NEW o \in Order, NEW to \in OrderState
  PROVE  [orders EXCEPT ![o].st = to] \in [Order -> OrderType]
<1>1. \A x \in OrderType : [x EXCEPT !.st = to] \in OrderType
  BY DEF OrderType
<1> QED BY <1>1 DEF TypeOK

LEMMA AbsentType == Absent \in OrderType
BY DEF Absent, OrderType

-----------------------------------------------------------------------------
(* Type correctness, one lemma per group of actions *)

LEMMA InitType == Init => TypeInv
<1> SUFFICES ASSUME Init PROVE TypeInv
  OBVIOUS
<1>1. RecordsOf(NoOrder) = {} /\ \A o \in Order : RecordsOf(o) = {}
  BY DEF Init, RecordsOf
<1>2. NoCall("idle") \in CallType /\ NoCall("idle").pc = "idle"
  BY NoCallType DEF PC
<1>3. orders \in [Order -> OrderType] /\ log \in Seq(Record)
  BY AbsentType DEF Init
<1>4. TypeOK
  BY <1>2, <1>3 DEF Init, TypeOK
<1> QED BY <1>1, <1>2, <1>4 DEF TypeInv, LogHasEnds, CallHasOrder, Busy, Init

\* Crash, clock and the restarts that write nothing.
LEMMA RestartType ==
  ASSUME TypeInv, Restart \/ Crash \/ CrashInAppend \/ Tick
  PROVE  TypeInv'
<1> USE DEF TypeInv
<1>1. \A where \in PC : NoCall(where) \in CallType /\ NoCall(where).pc = where
  BY NoCallType
<1>2. \A where \in {"idle", "down", "blocked", "reconciling"} :
        /\ NoCall(where) \in CallType /\ NoCall(where).pc = where /\ where \notin Busy
        /\ NoCall(where).todo = <<>>
  BY <1>1 DEF PC, Busy, NoCall, CallAt
<1>3. log' = log
  BY DEF Restart, ColdStart, LoadFails, LoadClean, LoadWithOrphans, RegisterRaises,
         RegisterRestored, Crash, CrashInAppend, LoseMemory, Tick
<1>4. LogHasEnds'
  BY <1>3, SameLogKeepsEnds
<1>5. CASE Tick
  BY <1>4, <1>5 DEF Tick, TypeOK, CallHasOrder
<1>6. CASE Crash \/ CrashInAppend
  <2>1. TypeOK'
    BY <1>2, <1>6, AbsentType DEF Crash, CrashInAppend, LoseMemory, TypeOK
  <2> QED BY <1>2, <1>4, <1>6, <2>1 DEF Crash, CrashInAppend, LoseMemory, CallHasOrder
<1>7. CASE ColdStart \/ LoadFails \/ LoadClean
  <2>1. mode' \in Modes
    BY <1>7 DEF ColdStart, LoadFails, LoadClean, MayLoad, TypeOK
  <2>2. TypeOK'
    BY <1>2, <1>7, <2>1 DEF ColdStart, LoadFails, LoadClean, TypeOK
  <2> QED BY <1>2, <1>4, <1>7, <2>2 DEF ColdStart, LoadFails, LoadClean, CallHasOrder
<1>8. CASE LoadWithOrphans \/ RegisterRaises
  <2>1. RegisterRestored
    BY <1>8 DEF LoadWithOrphans, RegisterRaises
  <2>2. mode' \in Modes
    BY <2>1 DEF RegisterRestored, MayLoad, TypeOK
  <2>3. \A o \in Logged : Restored(o) \in OrderType
    BY RestoredType DEF TypeOK
  <2>4. orders' \in [Order -> OrderType]
    BY <2>1, <2>3 DEF RegisterRestored, TypeOK
  <2>5. call' \in CallType /\ call'.pc \notin Busy /\ call'.todo = <<>>
    <3>1. "reconciling" \in PC /\ "reconciling" \notin Busy /\ clock \in Int
      BY DEF PC, Busy, TypeOK
    <3>2. call' = CallAt("reconciling", NoOrder, clock) \/ call' = NoCall("idle")
      BY <1>8 DEF LoadWithOrphans, RegisterRaises
    <3> QED BY <1>2, <3>1, <3>2, CallAtType
  <2>6. registered' \subseteq Order /\ orphans' \subseteq Order /\ unresolved' \subseteq Order
    BY <1>8, <2>1 DEF LoadWithOrphans, RegisterRaises, RegisterRestored, TypeOK, Logged, Orphans
  <2>7. TypeOK'
    BY <2>1, <2>2, <2>4, <2>5, <2>6 DEF RegisterRestored, TypeOK
  <2> QED BY <1>4, <2>5, <2>7 DEF CallHasOrder, Busy
<1> QED BY <1>5, <1>6, <1>7, <1>8 DEF Restart

\* The adapter is asked about an orphan, or recovery is over.
LEMMA AskVenueType ==
  ASSUME TypeInv, FinishReconcile \/ \E o \in Order : AskVenue(o) \/ AskRaises(o)
  PROVE  TypeInv'
<1> USE DEF TypeInv
<1>1. LogHasEnds'
  BY SameLogKeepsEnds DEF FinishReconcile, AskVenue, AskRaises
<1>2. call \in CallType /\ "reconciling" \notin Busy
  BY DEF TypeOK, Busy
<1>3. ASSUME NEW o \in Order, AskVenue(o) PROVE TypeInv'
  <2>1. PICK answer \in ReconcileAnswers(o) :
          /\ call' = [call EXCEPT !.oid = o, !.todo = answer]
          /\ unresolved' = IF Settles(answer) THEN unresolved ELSE unresolved \cup {o}
    BY <1>3 DEF AskVenue
  <2>2. answer \in Seq(Event)
    BY ReconcileAnswersType
  <2>3. call' \in CallType /\ call'.oid = o /\ call'.pc = "reconciling"
    BY <1>2, <1>3, <2>1, <2>2 DEF AskVenue, CallType
  <2>4. unresolved' \subseteq Order /\ orphans' \subseteq Order
    BY <1>3, <2>1 DEF AskVenue, TypeOK
  <2>5. TypeOK'
    BY <1>3, <2>3, <2>4 DEF AskVenue, TypeOK
  <2> QED BY <1>1, <1>2, <2>3, <2>5 DEF CallHasOrder
<1>4. ASSUME NEW o \in Order, AskRaises(o) PROVE TypeInv'
  <2>1. TypeOK'
    BY <1>4 DEF AskRaises, TypeOK
  <2> QED BY <1>1, <1>4, <2>1 DEF AskRaises, CallHasOrder
<1>5. CASE FinishReconcile
  <2>1. call' \in CallType /\ call'.pc \notin Busy /\ call'.todo = <<>>
    <3>1. StartOutcome(unresolved) \in {"idle", "blocked"}
      BY DEF StartOutcome
    <3>2. \A where \in {"idle", "blocked"} :
            /\ NoCall(where) \in CallType /\ NoCall(where).pc = where
            /\ NoCall(where).todo = <<>> /\ where \notin Busy
      BY NoCallType DEF PC, Busy, NoCall, CallAt
    <3> QED BY <1>5, <3>1, <3>2 DEF FinishReconcile
  <2>2. TypeOK'
    BY <1>5, <2>1 DEF FinishReconcile, TypeOK
  <2> QED BY <1>1, <2>1, <2>2 DEF CallHasOrder, Busy
<1> QED BY <1>3, <1>4, <1>5

\* The next event of an answer for an orphan, legal or not.
LEMMA ReconcileNextType ==
  ASSUME TypeInv, ReconcileNext
  PROVE  TypeInv'
<1> USE DEF TypeInv
<1> DEFINE e == Head(call.todo)
           x == Applied(call.oid, e)
<1>1. call.oid \in Order /\ call \in CallType /\ call.ts \in Int /\ call.todo \in Seq(Event)
      /\ call.pc = "reconciling"
  BY DEF ReconcileNext, CallHasOrder, TypeOK, CallType
<1>2. e \in Event /\ Tail(call.todo) \in Seq(Event) /\ <<>> \in Seq(Event)
  BY <1>1, HeadTailProperties DEF ReconcileNext
<1>3. e.to \in OrderState /\ e.qty \in Nat
  BY <1>2 DEF Event
<1>4. x \in OrderType
  BY <1>1, <1>2, AppliedType
<1>5. orders' = [orders EXCEPT ![call.oid] = x]
  BY DEF ReconcileNext
<1>6. log' = log \/ Persist(call.oid, e.to, e.qty, 0, call.ts)
  BY DEF ReconcileNext
<1>7. call' = [call EXCEPT !.todo = Tail(call.todo)] \/ call' = [call EXCEPT !.todo = <<>>]
  BY DEF ReconcileNext
<1> HIDE DEF x, e
<1>8. log' \in Seq(Record) /\ LogHasEnds'
  BY <1>1, <1>3, <1>6, PersistKeepsEnds, SameLogKeepsEnds DEF TypeOK
<1>9. orders' \in [Order -> OrderType]
  BY <1>4, <1>5 DEF TypeOK
<1>10. call' \in CallType /\ call'.oid \in Order /\ call'.pc = "reconciling"
  BY <1>1, <1>2, <1>7 DEF CallType
<1>11. TypeOK'
  BY <1>8, <1>9, <1>10 DEF ReconcileNext, TypeOK
<1> QED BY <1>8, <1>10, <1>11 DEF CallHasOrder

\* Every step of a reconciliation.
LEMMA ReconcileType ==
  ASSUME TypeInv, Reconcile
  PROVE  TypeInv'
BY AskVenueType, ReconcileNextType DEF Reconcile

\* A new order.
LEMMA CreateType ==
  ASSUME TypeInv, NEW o \in Order, NEW req \in Qty, NEW where \in {"rejecting", "created"},
         where = "created" => req > 0, Create(o, req, where)
  PROVE  TypeInv'
<1> USE DEF TypeInv
<1>1. PICK s \in Skew : /\ call' = CallAt(where, o, clock + s)
                       /\ Persist(o, "CREATED", 0, req, clock + s)
  BY DEF Create
<1>2. clock + s \in Int /\ req \in Int /\ "CREATED" \in OrderState
  BY ClockAssumption, QtyAssumption DEF TypeOK, OrderState
<1>3. log' \in Seq(Record) /\ LogHasEnds'
  BY <1>1, <1>2, PersistKeepsEnds DEF TypeOK
<1>4. call' \in CallType /\ call'.oid = o /\ call'.pc = where
  <2>1. where \in PC
    BY DEF PC
  <2> QED BY <1>1, <1>2, <2>1, CallAtType
<1>5. [st |-> "CREATED", req |-> req, filled |-> 0] \in OrderType
  BY <1>2 DEF OrderType
<1>6. TypeOK'
  BY <1>3, <1>4, <1>5 DEF Create, TypeOK
<1>7. orders'[o].req = req
  BY DEF Create, TypeOK
<1> QED BY <1>3, <1>4, <1>6, <1>7 DEF CallHasOrder

\* Requests of execution, and requests to cancel.
LEMMA RequestType ==
  ASSUME TypeInv, Request
  PROVE  TypeInv'
<1> USE DEF TypeInv
<1>1. PICK o \in Order :
        \/ \E req \in Qty : \/ RefuseAtGate(o, req) \/ RefuseAtPricing(o, req)
                            \/ DryRun(o, req) \/ Accept(o, req)
        \/ \E pending \in {"CANCEL_PENDING", "REPLACE_PENDING"} : RequestCancel(o, pending)
  BY DEF Request
<1>2. ASSUME NEW req \in Qty, RefuseAtGate(o, req) \/ Accept(o, req)
      PROVE  TypeInv'
  <2>1. CASE RefuseAtGate(o, req)
    BY <2>1, CreateType DEF RefuseAtGate
  <2>2. CASE Accept(o, req)
    BY <2>2, CreateType DEF Accept
  <2> QED BY <1>2, <2>1, <2>2
<1>3. ASSUME NEW req \in Qty, RefuseAtPricing(o, req) \/ DryRun(o, req)
      PROVE  TypeInv'
  <2>1. \A st \in {"REJECTED", "VALIDATED"} : [st |-> st, req |-> req, filled |-> 0] \in OrderType
    BY QtyAssumption DEF OrderType, OrderState
  <2>2. LogHasEnds'
    BY <1>3, SameLogKeepsEnds DEF RefuseAtPricing, DryRun
  <2>3. TypeOK'
    BY <1>3, <2>1 DEF RefuseAtPricing, DryRun, TypeOK
  <2>4. call' = call /\ call.pc = "idle"
    BY <1>3 DEF RefuseAtPricing, DryRun
  <2> QED BY <2>2, <2>3, <2>4 DEF CallHasOrder, Busy
<1>4. ASSUME NEW pending \in {"CANCEL_PENDING", "REPLACE_PENDING"}, RequestCancel(o, pending)
      PROVE  TypeInv'
  <2>1. pending \in OrderState /\ clock \in Int
    BY DEF OrderState, TypeOK
  <2>2. log' \in Seq(Record) /\ LogHasEnds'
    <3>1. Persist(o, pending, 0, 0, clock) \/ log' = log
      BY <1>4 DEF RequestCancel
    <3>2. 0 \in Nat /\ 0 \in Int /\ log \in Seq(Record)
      BY DEF TypeOK
    <3> QED BY <2>1, <3>1, <3>2, PersistKeepsEnds, SameLogKeepsEnds
  <2>3. orders' \in [Order -> OrderType]
    BY <1>4, <2>1, SetStateType DEF RequestCancel, TypeOK
  <2>4. call' \in CallType /\ call'.oid = o /\ call'.pc = "cancelling"
    <3>1. "cancelling" \in PC /\ call' = CallAt("cancelling", o, clock)
      BY <1>4 DEF RequestCancel, PC
    <3> QED BY <2>1, <3>1, CallAtType
  <2>5. TypeOK'
    BY <1>4, <2>2, <2>3, <2>4 DEF RequestCancel, TypeOK
  <2> QED BY <2>2, <2>4, <2>5 DEF CallHasOrder
<1> QED BY <1>1, <1>2, <1>3, <1>4

\* The steps of a call that record one move of its order.
LEMMA RecordStepType ==
  ASSUME TypeInv, PersistRefusal \/ Validate \/ CancelAnswered
  PROVE  TypeInv'
<1> USE DEF TypeInv
<1>1. call.oid \in Order /\ call.ts \in Int /\ call \in CallType
  BY DEF PersistRefusal, Validate, CancelAnswered, CallHasOrder, Busy, TypeOK, CallType
<1>2. \A to \in {"REJECTED", "VALIDATED", "CANCELLED"} :
        to \in OrderState /\ [orders EXCEPT ![call.oid].st = to] \in [Order -> OrderType]
  BY SetStateType, <1>1 DEF OrderState, TypeOK
<1>3. orders' \in [Order -> OrderType]
  BY <1>2 DEF PersistRefusal, Validate, CancelAnswered, TypeOK
<1>4. log' \in Seq(Record) /\ LogHasEnds'
  <2>1. log' = log \/ \E to \in {"REJECTED", "VALIDATED", "CANCELLED"} :
                        Persist(call.oid, to, 0, 0, call.ts)
    BY DEF PersistRefusal, Validate, CancelAnswered
  <2>2. 0 \in Nat /\ 0 \in Int /\ log \in Seq(Record)
    BY DEF TypeOK
  <2> QED BY <1>1, <1>2, <2>1, <2>2, PersistKeepsEnds, SameLogKeepsEnds
<1>5. /\ call' \in CallType /\ (call'.pc \in Busy => call'.oid \in Order)
      /\ call'.pc # "reconciling"
      /\ call'.pc \in {"created", "validated"} => Validate /\ call'.oid = call.oid
  <2>1. \/ call' = [call EXCEPT !.pc = "validated"] /\ Validate
        \/ call' = NoCall("idle")
    BY DEF PersistRefusal, Validate, CancelAnswered
  <2>2. {"validated", "idle"} \subseteq PC /\ "idle" \notin Busy
    BY DEF PC, Busy
  <2>3. [call EXCEPT !.pc = "validated"] \in CallType
        /\ [call EXCEPT !.pc = "validated"].oid = call.oid
        /\ [call EXCEPT !.pc = "validated"].pc = "validated"
    BY <1>1, <2>2 DEF CallType
  <2> QED BY <1>1, <2>1, <2>2, <2>3, NoCallType
<1>6. TypeOK'
  BY <1>3, <1>4, <1>5 DEF PersistRefusal, Validate, CancelAnswered, TypeOK
<1>7. Validate => orders'[call.oid].req > 0
  BY <1>1 DEF Validate, CallHasOrder, TypeOK, OrderType
<1> QED BY <1>4, <1>5, <1>6, <1>7 DEF CallHasOrder

\* The steps of a submission that touch neither the order nor the log, and its
\* failure, which forgets the order.
LEMMA SubmitType ==
  ASSUME TypeInv, Submit \/ SubmitRaises \/ Return
  PROVE  TypeInv'
<1> USE DEF TypeInv
<1>1. call.oid \in Order /\ call \in CallType /\ clock \in Int
  <2>1. call.pc \in Busy
    BY DEF Submit, SubmitRaises, Return, Busy
  <2> QED BY <2>1 DEF CallHasOrder, TypeOK
<1>2. LogHasEnds'
  BY SameLogKeepsEnds DEF Submit, SubmitRaises, Return
<1>3. CASE Submit
  <2>1. orders[call.oid].req \in Nat
    <3>1. orders[call.oid].req \in Int
      BY <1>1 DEF TypeOK, OrderType
    <3>2. orders[call.oid].req > 0
      BY <1>3 DEF Submit, CallHasOrder
    <3> QED BY <3>1, <3>2
  <2>2. PICK answer \in SubmitAnswers(orders[call.oid].req) :
          call' = [call EXCEPT !.pc = "applying", !.todo = answer, !.ts = clock]
    BY <1>3 DEF Submit
  <2>3. answer \in Seq(Event)
    BY <2>1, <2>2, SubmitAnswersType
  <2>4. call' \in CallType /\ call'.oid = call.oid /\ call'.pc = "applying"
    BY <1>1, <2>2, <2>3 DEF CallType, PC
  <2>5. TypeOK'
    BY <1>3, <2>4 DEF Submit, TypeOK
  <2> QED BY <1>1, <1>2, <2>4, <2>5 DEF CallHasOrder
<1>4. CASE SubmitRaises \/ Return
  <2>1. call' = NoCall("idle") /\ call' \in CallType /\ call'.pc = "idle"
    BY <1>4, NoCallType DEF SubmitRaises, Return, PC
  <2>2. orders' \in [Order -> OrderType] /\ registered' \subseteq Order
    BY <1>1, <1>4, AbsentType DEF SubmitRaises, Return, TypeOK
  <2>3. TypeOK'
    BY <1>4, <2>1, <2>2 DEF SubmitRaises, Return, TypeOK
  <2> QED BY <1>2, <2>1, <2>3 DEF CallHasOrder, Busy
<1> QED BY <1>3, <1>4

\* The next event of a submission, legal or not.
LEMMA ApplyNextType ==
  ASSUME TypeInv, ApplyNext
  PROVE  TypeInv'
<1> USE DEF TypeInv
<1> DEFINE e == Head(call.todo)
           next == [call EXCEPT !.todo = Tail(@),
                      !.fills = IF e.to \in FillKinds /\ e.fill THEN Append(@, e.qty) ELSE @]
           x == Applied(call.oid, e)
<1>1. call.oid \in Order /\ call \in CallType /\ call.ts \in Int /\ call.todo \in Seq(Event)
      /\ call.fills \in Seq(Nat) /\ call.pc = "applying"
  BY DEF ApplyNext, CallHasOrder, Busy, TypeOK, CallType
<1>2. e \in Event /\ Tail(call.todo) \in Seq(Event)
  BY <1>1, HeadTailProperties DEF ApplyNext
<1>3. e.to \in OrderState /\ e.qty \in Nat
  BY <1>2 DEF Event
<1>4. x \in OrderType /\ [x EXCEPT !.st = "REJECTED"] \in OrderType
  <2>1. x \in OrderType
    BY <1>1, <1>2, AppliedType
  <2> HIDE DEF x
  <2> QED BY <2>1 DEF OrderType, OrderState
<1>5. /\ next \in CallType /\ next.oid = call.oid /\ next.pc = "applying"
      /\ [next EXCEPT !.todo = <<>>] \in CallType /\ [next EXCEPT !.todo = <<>>].oid = call.oid
      /\ [next EXCEPT !.todo = <<>>].pc = "applying"
  <2>1. (IF e.to \in FillKinds /\ e.fill THEN Append(call.fills, e.qty) ELSE call.fills) \in Seq(Nat)
    BY <1>1, <1>3, AppendProperties
  <2>2. next \in CallType /\ next.oid = call.oid /\ next.pc = "applying"
    BY <1>1, <1>2, <2>1 DEF CallType
  <2>3. <<>> \in Seq(Event)
    OBVIOUS
  <2> HIDE DEF next, x, e
  <2> QED BY <2>2, <2>3 DEF CallType
<1>6. call' = next \/ call' = [next EXCEPT !.todo = <<>>]
  BY DEF ApplyNext
<1>7. orders' = [orders EXCEPT ![call.oid] = x]
      \/ orders' = [orders EXCEPT ![call.oid] = [x EXCEPT !.st = "REJECTED"]]
  BY DEF ApplyNext
<1>8. log' = log \/ Persist(call.oid, e.to, e.qty, 0, call.ts)
  BY DEF ApplyNext
<1> HIDE DEF next, x, e
<1>9. log' \in Seq(Record) /\ LogHasEnds'
  BY <1>1, <1>3, <1>8, PersistKeepsEnds, SameLogKeepsEnds DEF TypeOK
<1>10. orders' \in [Order -> OrderType]
  BY <1>4, <1>7 DEF TypeOK
<1>11. call' \in CallType /\ call'.oid \in Order /\ call'.pc = "applying"
  BY <1>1, <1>5, <1>6
<1>12. TypeOK'
  BY <1>9, <1>10, <1>11 DEF ApplyNext, TypeOK
<1> QED BY <1>9, <1>11, <1>12 DEF CallHasOrder

LEMMA NextType == TypeInv /\ [Next]_vars => TypeInv'
<1> SUFFICES ASSUME TypeInv, [Next]_vars PROVE TypeInv'
  OBVIOUS
<1>1. CASE Request
  BY <1>1, RequestType
<1>2. CASE EngineStep
  BY <1>2, RecordStepType, SubmitType, ApplyNextType, ReconcileType DEF EngineStep
<1>3. CASE Restart \/ Crash \/ CrashInAppend \/ Tick
  BY <1>3, RestartType
<1>4. CASE UNCHANGED vars
  BY <1>4, SameLogKeepsEnds DEF vars, TypeInv, TypeOK, CallHasOrder
<1> QED BY <1>1, <1>2, <1>3, <1>4 DEF Next

\* Type correctness of the engine, of the call in progress and of the log, for any
\* number of orders, any adapter and any faults.
THEOREM TypeCorrect == Spec => []TypeOK
<1>1. Spec => []TypeInv
  BY InitType, NextType, PTL DEF Spec
<1>2. TypeInv => TypeOK
  BY DEF TypeInv
<1> QED BY <1>1, <1>2, PTL

\* Replay is defined whatever was written: every order in the log has a first and a
\* last record in the order in which load() replays them.
THEOREM ReplayIsDefined == Spec => []LogHasEnds
<1>1. Spec => []TypeInv
  BY InitType, NextType, PTL DEF Spec
<1>2. TypeInv => LogHasEnds
  BY DEF TypeInv
<1> QED BY <1>1, <1>2, PTL

=============================================================================
