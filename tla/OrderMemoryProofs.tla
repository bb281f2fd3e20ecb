------------------------- MODULE OrderMemoryProofs -------------------------
(***************************************************************************)
(* Proofs about OrderLifecycle that relate what the process holds in       *)
(* memory to what its log says: quantities, tracked states and what rests  *)
(* at the venue.  Some hold whatever the adapter answers and even when     *)
(* appends fail, some need the paper venue, some all of Faithful.          *)
(***************************************************************************)
EXTENDS OrderLogProofs

-----------------------------------------------------------------------------
(* The log: the ends of a group, and the sum of its fills *)

\* A group has one first and one last record.
UniqueEnds ==
  \A o \in Order : \A i \in RecordsOf(o) :
    (IsFirst(o, i) => FirstOf(o) = i) /\ (IsLast(o, i) => LastOf(o) = i)

LEMMA EndsAreUnique == log \in Seq(Record) => UniqueEnds
<1> SUFFICES ASSUME log \in Seq(Record), NEW o \in Order, NEW i \in RecordsOf(o)
             PROVE  /\ IsFirst(o, i) => FirstOf(o) = i
                    /\ IsLast(o, i) => LastOf(o) = i
  BY DEF UniqueEnds
<1>1. \A j \in RecordsOf(o) : j \in Int /\ log[j].ts \in Int
  BY RecordTypes DEF RecordsOf
<1>2. \A j, k \in RecordsOf(o) : Before(j, k) => ~Before(k, j)
  BY <1>1 DEF Before
<1>3. ASSUME IsFirst(o, i) PROVE FirstOf(o) = i
  <2>1. FirstOf(o) \in RecordsOf(o) /\ IsFirst(o, FirstOf(o))
    BY <1>3 DEF FirstOf, IsFirst
  <2> QED BY <1>2, <1>3, <2>1 DEF IsFirst
<1>4. ASSUME IsLast(o, i) PROVE LastOf(o) = i
  <2>1. LastOf(o) \in RecordsOf(o) /\ IsLast(o, LastOf(o))
    BY <1>4 DEF LastOf, IsLast
  <2> QED BY <1>2, <1>4, <2>1 DEF IsLast
<1> QED BY <1>3, <1>4

\* The first and the last record are records, and are first and last.
EndsInGroup ==
  \A o \in Order : RecordsOf(o) # {} =>
    /\ FirstOf(o) \in RecordsOf(o) /\ IsFirst(o, FirstOf(o))
    /\ LastOf(o) \in RecordsOf(o) /\ IsLast(o, LastOf(o))

LEMMA EndsOfGroup == LogHasEnds => EndsInGroup
BY DEF EndsInGroup, LogHasEnds, FirstOf, LastOf, IsFirst, IsLast

\* An append adds the record's quantity to the fills of its order.
LEMMA AppendAddsFill ==
  ASSUME log \in Seq(Record), NEW r \in Record, log' = Append(log, r), NEW o
  PROVE  LoggedFill(o)' = LoggedFill(o) + (IF o = r.oid THEN r.qty ELSE 0)
<1> DEFINE n == Len(log) + 1
           Old == UNION {{i} \X (1..log[i].qty) : i \in RecordsOf(o)}
           New == UNION {{i} \X (1..log'[i].qty) : i \in RecordsOf(o)'}
           Units == {n} \X (1..r.qty)
<1>1. /\ \A i \in DOMAIN log : log'[i] = log[i]
      /\ log'[n] = r
      /\ RecordsOf(o)' = RecordsOf(o) \cup (IF o = r.oid THEN {n} ELSE {})
  BY AppendRecords
<1>2. RecordsOf(o) \subseteq DOMAIN log /\ n \notin DOMAIN log
  BY RecordTypes DEF RecordsOf
<1>3. LoggedFill(o) = Cardinality(Old) /\ IsFiniteSet(Old) /\ LoggedFill(o) \in Nat
  BY LoggedUnitsFinite, LoggedFillType DEF LoggedFill
<1>4. LoggedFill(o)' = Cardinality(New)
  BY DEF LoggedFill
<1>5. \A i \in RecordsOf(o) : log'[i] = log[i]
  BY <1>1, <1>2
<1> HIDE DEF n
<1>6. CASE o # r.oid
  <2>1. RecordsOf(o)' = RecordsOf(o)
    BY <1>1, <1>6
  <2>2. New = Old
    BY <1>5, <2>1, Zenon
  <2> HIDE DEF Old, New
  <2> QED BY <1>3, <1>4, <1>6, <2>2
<1>7. CASE o = r.oid
  <2>1. RecordsOf(o)' = RecordsOf(o) \cup {n}
    BY <1>1, <1>7
  <2>2. New = Old \cup Units
    <3>1. ASSUME NEW x \in New PROVE x \in Old \cup Units
      <4>1. PICK i \in RecordsOf(o)' : x \in {i} \X (1..log'[i].qty)
        OBVIOUS
      <4> QED BY <1>1, <1>5, <2>1, <4>1
    <3>2. ASSUME NEW x \in Old PROVE x \in New
      <4>1. PICK i \in RecordsOf(o) : x \in {i} \X (1..log[i].qty)
        OBVIOUS
      <4>2. i \in RecordsOf(o)' /\ x \in {i} \X (1..log'[i].qty)
        BY <1>5, <2>1, <4>1
      <4> QED BY <4>2
    <3>3. ASSUME NEW x \in Units PROVE x \in New
      <4>1. n \in RecordsOf(o)' /\ x \in {n} \X (1..log'[n].qty)
        BY <1>1, <2>1
      <4> QED BY <4>1
    <3> QED BY <3>1, <3>2, <3>3
  <2>3. Old \cap Units = {}
    BY <1>2
  <2>4. r.qty \in Nat
    BY DEF Record
  <2>5. IsFiniteSet(Units) /\ Cardinality(Units) = r.qty
    BY <2>4, UnitsOfFill
  <2> HIDE DEF Old, New, Units
  <2>6. Cardinality(New) = Cardinality(Old) + r.qty - 0
    BY <1>3, <2>2, <2>3, <2>5, FS_Union, FS_EmptySet
  <2> QED BY <1>3, <1>4, <1>7, <2>4, <2>6
<1> QED BY <1>6, <1>7

\* What replay makes of an order: its state and its size.
StateInLog(o) == log[LastOf(o)].to
SizeInLog(o) == log[FirstOf(o)].req

\* The step appends one record; nothing is said of where it belongs.
Appends(o, to, qty, req, ts) ==
  log' = Append(log, [oid |-> o, to |-> to, qty |-> qty, req |-> req, ts |-> ts])

\* An append adds its fill, changes what replay makes of its own order only, and that
\* to the state it reports, or, stamped too early to be the last in replay, not at all.
LEMMA AppendEffect ==
  ASSUME TypeInv, NEW o \in Order, NEW to \in OrderState, NEW qty \in Nat, NEW req \in Int,
         NEW ts \in Int, Appends(o, to, qty, req, ts)
  PROVE  /\ RecordsOf(o)' # {}
         /\ LoggedFill(o)' = LoggedFill(o) + qty
         /\ \/ StateInLog(o)' = to
            \/ RecordsOf(o) # {} /\ StateInLog(o)' = StateInLog(o)
         /\ RecordsOf(o) = {} => SizeInLog(o)' = req
         /\ \A p \in Order \ {o} :
              /\ RecordsOf(p)' = RecordsOf(p)
              /\ LoggedFill(p)' = LoggedFill(p)
              /\ RecordsOf(p) # {} => /\ StateInLog(p)' = StateInLog(p)
                                    /\ SizeInLog(p)' = SizeInLog(p)
<1> DEFINE r == [oid |-> o, to |-> to, qty |-> qty, req |-> req, ts |-> ts]
           n == Len(log) + 1
<1>1. log \in Seq(Record) /\ LogHasEnds /\ r \in Record /\ log' = Append(log, r)
  BY DEF TypeInv, TypeOK, Record, Appends
<1>2. log' \in Seq(Record) /\ LogHasEnds'
  <2>1. Persist(o, to, qty, req, ts)
    BY DEF Appends, Persist
  <2> QED BY <1>1, <2>1, PersistKeepsEnds
<1>3. /\ \A i \in DOMAIN log : log'[i] = log[i]
      /\ log'[n] = r
      /\ RecordsOf(o)' = RecordsOf(o) \cup {n}
      /\ \A p \in Order \ {o} : RecordsOf(p)' = RecordsOf(p)
  <2>1. /\ \A i \in DOMAIN log : log'[i] = log[i]
        /\ log'[n] = r
        /\ \A p : RecordsOf(p)' = RecordsOf(p) \cup (IF p = r.oid THEN {n} ELSE {})
    BY <1>1, AppendRecords
  <2>2. r.oid = o
    OBVIOUS
  <2> QED BY <2>1, <2>2
<1>4. \A p \in Order : \A i \in RecordsOf(p) : i \in DOMAIN log /\ log'[i] = log[i]
  BY <1>3 DEF RecordsOf
<1>5. \A p \in Order : \A i, j \in RecordsOf(p) : Before(i, j)' <=> Before(i, j)
  BY <1>4 DEF Before
<1>6. /\ r.qty = qty /\ r.to = to /\ r.req = req /\ r.oid = o
  OBVIOUS
<1> HIDE DEF r, n
<1>7. LoggedFill(o)' = LoggedFill(o) + qty /\ \A p \in Order \ {o} : LoggedFill(p)' = LoggedFill(p)
  <2>1. \A p : LoggedFill(p)' = LoggedFill(p) + (IF p = o THEN qty ELSE 0)
    BY <1>1, <1>6, AppendAddsFill
  <2>2. \A p : LoggedFill(p) \in Nat
    BY <1>1, LoggedFillType
  <2> QED BY <2>1, <2>2
<1>8. \A p \in Order : \A i \in RecordsOf(p)' :
        /\ IsFirst(p, i)' => FirstOf(p)' = i
        /\ IsLast(p, i)' => LastOf(p)' = i
  <2>1. (log \in Seq(Record) => UniqueEnds)'
    BY EndsAreUnique, PTL
  <2> QED BY <1>2, <2>1 DEF UniqueEnds
<1>9. \A p \in Order : RecordsOf(p) # {} =>
        /\ FirstOf(p) \in RecordsOf(p) /\ IsFirst(p, FirstOf(p))
        /\ LastOf(p) \in RecordsOf(p) /\ IsLast(p, LastOf(p))
  BY <1>1, EndsOfGroup DEF EndsInGroup
<1>10. \A p \in Order : RecordsOf(p)' # {} =>
         /\ FirstOf(p)' \in RecordsOf(p)' /\ IsFirst(p, FirstOf(p))'
         /\ LastOf(p)' \in RecordsOf(p)' /\ IsLast(p, LastOf(p))'
  <2>1. (LogHasEnds => EndsInGroup)'
    BY EndsOfGroup, PTL
  <2> QED BY <1>2, <2>1 DEF EndsInGroup
<1>11. ASSUME NEW p \in Order \ {o}, RecordsOf(p) # {}
       PROVE  StateInLog(p)' = StateInLog(p) /\ SizeInLog(p)' = SizeInLog(p)
  <2>1. RecordsOf(p)' = RecordsOf(p)
    BY <1>3
  <2>2. PICK i \in RecordsOf(p), j \in RecordsOf(p) : /\ i = FirstOf(p) /\ IsFirst(p, i)
                                                    /\ j = LastOf(p) /\ IsLast(p, j)
    BY <1>9, <1>11
  <2>3. IsFirst(p, i)' /\ IsLast(p, j)'
    BY <1>5, <2>1, <2>2 DEF IsFirst, IsLast
  <2>4. FirstOf(p)' = i /\ LastOf(p)' = j
    BY <1>8, <2>1, <2>3
  <2> QED BY <1>4, <2>2, <2>4 DEF StateInLog, SizeInLog
<1>12. \/ StateInLog(o)' = to
       \/ RecordsOf(o) # {} /\ StateInLog(o)' = StateInLog(o)
  <2>1. PICK j \in RecordsOf(o)' : j = LastOf(o)' /\ IsLast(o, j)'
    BY <1>3, <1>10
  <2>2. CASE j = n
    BY <1>3, <1>6, <2>1, <2>2 DEF StateInLog
  <2>3. CASE j \in RecordsOf(o)
    <3>1. IsLast(o, j)
      BY <1>3, <1>5, <2>1, <2>3 DEF IsLast
    <3>2. LastOf(o) = j
      BY <1>1, <2>3, <3>1, EndsAreUnique DEF UniqueEnds
    <3> QED BY <1>4, <2>1, <2>3, <3>2 DEF StateInLog
  <2> QED BY <1>3, <2>1, <2>2, <2>3
<1>13. RecordsOf(o) = {} => SizeInLog(o)' = req
  <2> SUFFICES ASSUME RecordsOf(o) = {} PROVE SizeInLog(o)' = req
    OBVIOUS
  <2>1. FirstOf(o)' = n
    BY <1>3, <1>10
  <2> QED BY <1>3, <1>6, <2>1 DEF SizeInLog
<1> QED BY <1>3, <1>7, <1>11, <1>12, <1>13

\* A step that leaves the log alone leaves all of this alone.
LEMMA SameLogEffect ==
  ASSUME log' = log, NEW o
  PROVE  /\ RecordsOf(o)' = RecordsOf(o) /\ LoggedFill(o)' = LoggedFill(o)
         /\ StateInLog(o)' = StateInLog(o) /\ SizeInLog(o)' = SizeInLog(o)
BY Zenon DEF RecordsOf, LoggedFill, StateInLog, SizeInLog, LastOf, FirstOf, Before

-----------------------------------------------------------------------------
(* The engine's registry and its call *)

NewOrderCall == {"rejecting", "created", "validated", "applying"}

\* An event that is no fill carries no quantity.
WellFormed(todo) == \A k \in 1..Len(todo) : todo[k].to \notin FillKinds => todo[k].qty = 0

\* A registered order is known; the order of a call that creates it is not registered
\* before the call returns, and is where the call says it is; orphans are registered,
\* and so is the one whose answer is being applied, which is an orphan no more.
Tracked ==
  /\ \A o \in registered : orders[o].st # "NONE"
  /\ orphans \subseteq registered
  /\ call.pc \in NewOrderCall => call.oid \notin registered /\ orders[call.oid].st # "NONE"
  /\ call.pc \in {"rejecting", "created"} => orders[call.oid].st = "CREATED"
  /\ call.pc = "validated" => orders[call.oid].st = "VALIDATED"
  /\ call.pc = "reconciling" /\ call.todo # <<>> => call.oid \in registered \ orphans
  /\ call.pc = "reconciling" /\ Venue = "paper" => call.todo \in {<<>>, <<Ev("STALE")>>}
  /\ WellFormed(call.todo)

\* What is known of the order o is not less than what the log says of it.
Covered(o) ==
  orders[o].st # "NONE" /\ RecordsOf(o) # {} =>
    /\ LoggedFill(o) <= orders[o].filled
    /\ StateInLog(o) \in TerminalStates \ {"REJECTED"} => orders[o].st \in TerminalStates

CoverInv == TypeInv /\ Tracked /\ \A o \in Order : Covered(o)

\* The states of the orders the engine tracks at a paper venue, between calls and in
\* them: none is at the venue but an orphan that is still to be reconciled, and a
\* submission leads off the venue.
OffVenue(st, todo) ==
  /\ IF todo = <<>> THEN st \notin AtVenue ELSE todo[Len(todo)].to \notin AtVenue
  /\ \A k \in 1..Len(todo) : todo[k].to = "REJECTED" => k = 1 /\ st = "VALIDATED"

RestInv ==
  /\ \A o \in registered :
       orders[o].st \in AtVenue =>
         /\ call.pc = "reconciling"
         /\ o \in orphans \/ (o = call.oid /\ call.todo # <<>>)
  /\ call.pc = "applying" => OffVenue(orders[call.oid].st, call.todo)

\* What the log may say of an order of some size: filled within its size, and in full
\* exactly when it is FILLED; never filled, if it was refused for its size.
FitsSize(size, fill, st) ==
  IF size > 0 THEN fill <= size /\ (st = "FILLED" <=> fill = size)
  ELSE fill = 0 /\ st # "FILLED"

Fits(o) == RecordsOf(o) # {} => FitsSize(SizeInLog(o), LoggedFill(o), StateInLog(o))

\* Memory and log agree on the quantities of o.
SameSize(o) == orders[o].req = SizeInLog(o) /\ orders[o].filled = LoggedFill(o)

\* The fills still to apply do not exceed what is left of the order: open is what each
\* event leaves of it, nothing if it is FILLED and something if it is PARTIALLY_FILLED.
WithinBy(open, left, todo) ==
  /\ open[0] = left
  /\ \A k \in 1..Len(todo) :
       /\ open[k] = open[k - 1] - todo[k].qty
       /\ todo[k].to = "FILLED" => open[k] = 0 /\ todo[k].qty > 0
       /\ todo[k].to = "PARTIALLY_FILLED" => open[k] > 0
       /\ todo[k].to \notin FillKinds => todo[k].qty = 0

Within(left, todo) == \E open \in [0..Len(todo) -> Nat] : WithinBy(open, left, todo)

\* What an answer still has to say of its order is within what is left of it, and the
\* log and memory agree on that.
AnswerFits ==
  /\ RecordsOf(call.oid) # {} /\ SameSize(call.oid)
  /\ Within(Remaining(call.oid), call.todo)

SizeInv ==
  /\ \A o \in Order : Fits(o)
  /\ call.pc \in NewOrderCall => SameSize(call.oid)
  /\ call.pc \in {"rejecting", "created", "validated"} => orders[call.oid].filled = 0
  /\ call.pc = "reconciling" => \A o \in orphans : RecordsOf(o) # {} /\ SameSize(o)
  /\ call.pc \in {"applying", "reconciling"} /\ call.todo # <<>> => AnswerFits
  /\ Venue = "paper" =>
       \A o \in Order : RecordsOf(o) # {} /\ orders[o].st # "NONE" => SameSize(o)

-----------------------------------------------------------------------------
(* What the steps do to the call *)

\* The places a call can be left at.
LEMMA CallMoves ==
  /\ \A where \in {"idle", "blocked", "down", "reconciling"} :
       /\ NoCall(where).pc = where /\ where \notin NewOrderCall
       /\ \A o, t : CallAt(where, o, t).pc = where
  /\ \A where \in {"rejecting", "created", "cancelling"} : \A o, t :
       CallAt(where, o, t).pc = where /\ CallAt(where, o, t).oid = o
  /\ \A where : NoCall(where).todo = <<>> /\ \A o, t : CallAt(where, o, t).todo = <<>>
  /\ WellFormed(<<>>)
<1>1. Len(<<>>) = 0
  OBVIOUS
<1> QED BY <1>1 DEF NoCall, CallAt, NewOrderCall, WellFormed

\* The head and the rest of what a call has still to apply.
LEMMA RestOfTodo ==
  ASSUME NEW todo \in Seq(Event), todo # <<>>
  PROVE  /\ Len(todo) \in Nat \ {0} /\ Head(todo) = todo[1] /\ Head(todo) \in Event
         /\ Tail(todo) \in Seq(Event) /\ Len(Tail(todo)) = Len(todo) - 1
         /\ \A k \in 1..Len(Tail(todo)) : Tail(todo)[k] = todo[k + 1] /\ k + 1 \in 1..Len(todo)
<1>1. /\ Head(todo) \in Event /\ Tail(todo) \in Seq(Event)
      /\ Len(Tail(todo)) = Len(todo) - 1
      /\ \A k \in 1..Len(Tail(todo)) : Tail(todo)[k] = todo[k + 1]
  BY HeadTailProperties
<1>2. Len(todo) \in Nat \ {0}
  BY EmptySeq, LenProperties
<1> QED BY <1>1, <1>2

\* The head and the rest of well formed events are.
LEMMA WellFormedRest ==
  ASSUME NEW todo \in Seq(Event), todo # <<>>, WellFormed(todo)
  PROVE  WellFormed(Tail(todo)) /\ (Head(todo).to \notin FillKinds => Head(todo).qty = 0)
<1>1. 1 \in 1..Len(todo)
  BY RestOfTodo
<1>2. \A k \in 1..Len(todo) : todo[k].to \notin FillKinds => todo[k].qty = 0
  BY DEF WellFormed
<1>3. Head(todo).to \notin FillKinds => Head(todo).qty = 0
  BY <1>1, <1>2, RestOfTodo
<1>4. ASSUME NEW k \in 1..Len(Tail(todo)), Tail(todo)[k].to \notin FillKinds
      PROVE  Tail(todo)[k].qty = 0
  <2>1. Tail(todo)[k] = todo[k + 1] /\ k + 1 \in 1..Len(todo)
    BY RestOfTodo
  <2> QED BY <1>2, <1>4, <2>1
<1> QED BY <1>3, <1>4 DEF WellFormed

\* An event that is applied leaves its order in a state it had, or in a state of the
\* FSM that it moved to, and adds its fill.
LEMMA AppliedMoves ==
  ASSUME TypeOK, NEW o \in Order, NEW e \in Event, e.to \notin FillKinds => e.qty = 0
  PROVE  /\ Applied(o, e).st = IF CanTransition(orders[o].st, e.to) THEN e.to ELSE orders[o].st
         /\ Applied(o, e).req = orders[o].req
         /\ Applied(o, e).filled = orders[o].filled + e.qty
<1>1. orders[o] \in OrderType /\ e.qty \in Nat
  BY DEF TypeOK, Event
<1> QED BY <1>1 DEF OrderType, Applied

\* The next event of an answer: its branch, and the call that is left.
LEMMA NextEventMoves ==
  ASSUME TypeInv, Tracked, ApplyNext \/ ReconcileNext
  PROVE  /\ call.pc \in {"applying", "reconciling"} /\ call'.pc = call.pc
         /\ ApplyNext => call.pc = "applying"
         /\ call.oid \in Order /\ call'.oid = call.oid
         /\ call.todo \in Seq(Event) /\ call.todo # <<>> /\ Head(call.todo) \in Event
         /\ Head(call.todo).to \notin FillKinds => Head(call.todo).qty = 0
         /\ registered' = registered /\ orphans' = orphans
         /\ \/ /\ Takes(call.oid, Head(call.todo))
               /\ orders' = [orders EXCEPT ![call.oid] = Applied(call.oid, Head(call.todo))]
               /\ Persist(call.oid, Head(call.todo).to, Head(call.todo).qty, 0, call.ts)
               /\ call'.todo = Tail(call.todo)
            \/ /\ ~Takes(call.oid, Head(call.todo))
               /\ orders' = [orders EXCEPT ![call.oid] =
                               IF call.pc = "applying"
                                 THEN [Applied(call.oid, Head(call.todo)) EXCEPT !.st = "REJECTED"]
                                 ELSE Applied(call.oid, Head(call.todo))]
               /\ log' = log
               /\ call'.todo = <<>>
<1> DEFINE e == Head(call.todo)
           todo == Tail(call.todo)
           fills == IF e.to \in FillKinds /\ e.fill THEN Append(call.fills, e.qty) ELSE call.fills
<1>1. /\ call.pc \in {"applying", "reconciling"} /\ call.todo # <<>>
      /\ ApplyNext => call.pc = "applying"
      /\ ReconcileNext => call.pc = "reconciling"
      /\ registered' = registered /\ orphans' = orphans
  BY DEF ApplyNext, ReconcileNext
<1>2. call \in CallType /\ call.oid \in Order /\ call.todo \in Seq(Event)
  BY <1>1 DEF TypeInv, TypeOK, CallHasOrder, CallType, Busy
<1>3. e \in Event /\ (e.to \notin FillKinds => e.qty = 0)
  BY <1>1, <1>2, RestOfTodo, WellFormedRest DEF Tracked
<1>4. \A done \in {todo, <<>>} :
        call' = [call EXCEPT !.todo = done, !.fills = fills]
          => call'.pc = call.pc /\ call'.oid = call.oid /\ call'.todo = done
  <2> HIDE DEF todo, fills
  <2> QED BY <1>2 DEF CallType
<1>5. CASE ApplyNext
  <2>1. CASE /\ Takes(call.oid, e)
             /\ orders' = [orders EXCEPT ![call.oid] = Applied(call.oid, e)]
             /\ Persist(call.oid, e.to, e.qty, 0, call.ts)
             /\ call' = [call EXCEPT !.todo = todo, !.fills = fills]
    BY <1>1, <1>2, <1>3, <1>4, <1>5, <2>1
  <2>2. CASE /\ ~Takes(call.oid, e)
             /\ orders' = [orders EXCEPT ![call.oid] =
                             [Applied(call.oid, e) EXCEPT !.st = "REJECTED"]]
             /\ log' = log
             /\ call' = [[call EXCEPT !.todo = todo, !.fills = fills] EXCEPT !.todo = <<>>]
    <3>1. call' = [call EXCEPT !.todo = <<>>, !.fills = fills]
      <4> HIDE DEF todo, fills
      <4> QED BY <1>2, <2>2 DEF CallType
    <3> QED BY <1>1, <1>2, <1>3, <1>4, <1>5, <2>2, <3>1
  <2> QED BY <1>5, <2>1, <2>2 DEF ApplyNext
<1>6. CASE ReconcileNext
  <2>1. \A done \in {todo, <<>>} :
          call' = [call EXCEPT !.todo = done]
            => call'.pc = call.pc /\ call'.oid = call.oid /\ call'.todo = done
    <3> HIDE DEF todo
    <3> QED BY <1>2 DEF CallType
  <2>2. /\ orders' = [orders EXCEPT ![call.oid] = Applied(call.oid, e)]
        /\ \/ /\ Takes(call.oid, e)
              /\ Persist(call.oid, e.to, e.qty, 0, call.ts)
              /\ call' = [call EXCEPT !.todo = todo]
           \/ /\ ~Takes(call.oid, e)
              /\ log' = log
              /\ call' = [call EXCEPT !.todo = <<>>]
    BY <1>6 DEF ReconcileNext
  <2>3. call.pc # "applying" /\ ~ApplyNext
    BY <1>1, <1>6
  <2> HIDE DEF todo, e
  <2>4. CASE /\ Takes(call.oid, e)
             /\ Persist(call.oid, e.to, e.qty, 0, call.ts)
             /\ call' = [call EXCEPT !.todo = todo]
    BY <1>1, <1>2, <1>3, <2>1, <2>2, <2>3, <2>4 DEF e, todo
  <2>5. CASE /\ ~Takes(call.oid, e)
             /\ log' = log
             /\ call' = [call EXCEPT !.todo = <<>>]
    BY <1>1, <1>2, <1>3, <2>1, <2>2, <2>3, <2>5 DEF e
  <2> QED BY <2>2, <2>4, <2>5
<1> QED BY <1>5, <1>6

\* The adapter is asked about an orphan: only the call changes.
LEMMA AskMoves ==
  ASSUME TypeInv, NEW o \in Order, AskVenue(o) \/ AskRaises(o)
  PROVE  /\ call.pc = "reconciling" /\ call'.pc = "reconciling" /\ call.todo = <<>>
         /\ o \in orphans /\ orphans' = orphans \ {o}
         /\ registered' = registered /\ orders' = orders /\ log' = log
         /\ \/ call'.todo = <<>> /\ "reconcile_error" \in Faults
            \/ call'.oid = o /\ call'.todo \in ReconcileAnswers(o)
<1>1. call \in CallType
  BY DEF TypeInv, TypeOK
<1>2. CASE AskVenue(o)
  <2>1. PICK answer \in ReconcileAnswers(o) : call' = [call EXCEPT !.oid = o, !.todo = answer]
    BY <1>2 DEF AskVenue
  <2>2. call'.pc = call.pc /\ call'.oid = o /\ call'.todo = answer
    BY <1>1, <2>1 DEF CallType
  <2> QED BY <1>2, <2>1, <2>2 DEF AskVenue
<1>3. CASE AskRaises(o)
  BY <1>3 DEF AskRaises
<1> QED BY <1>2, <1>3

\* What the adapter reports is well formed.
LEMMA AnswersWellFormed ==
  /\ \A req \in Nat : \A answer \in SubmitAnswers(req) : WellFormed(answer)
  /\ TypeOK => \A o \in Order : \A answer \in ReconcileAnswers(o) : WellFormed(answer)
<1>1. /\ \A to : Ev(to).qty = 0
      /\ \A to \in FillKinds : \A q : Fill(to, q).to \in FillKinds
      /\ "PARTIALLY_FILLED" \in FillKinds /\ "FILLED" \in FillKinds
  BY DEF Ev, Fill, FillKinds
<1>2. \A a, b, c :
        /\ Len(<<>>) = 0
        /\ Len(<<a>>) = 1 /\ <<a>>[1] = a
        /\ Len(<<a, b>>) = 2 /\ <<a, b>>[1] = a /\ <<a, b>>[2] = b
        /\ Len(<<a, b, c>>) = 3 /\ <<a, b, c>>[1] = a /\ <<a, b, c>>[2] = b /\ <<a, b, c>>[3] = c
  OBVIOUS
<1>3. ASSUME NEW quantity \in Nat,
             NEW report \in FillReports(quantity, {<<>>, <<Ev("CANCELLED")>>})
      PROVE  report \in Seq(Event) /\ WellFormed(report)
  <2>1. PICK fills \in Seq(Nat) : ReportOf(quantity, fills, report)
    BY ReportShape
  <2>2. /\ report \in Seq(Event) /\ Len(report) \in {Len(fills), Len(fills) + 1}
        /\ \A k \in 1..Len(fills) : report[k] = Fill("PARTIALLY_FILLED", fills[k])
        /\ Len(report) = Len(fills) + 1 =>
             \/ report[Len(report)] = Ev("CANCELLED")
             \/ report[Len(report)] = Fill("FILLED", quantity - Total(fills))
        /\ Len(fills) \in Nat
    BY <2>1, LenProperties DEF ReportOf
  <2>3. ASSUME NEW k \in 1..Len(report) PROVE report[k].to \in FillKinds \/ report[k].qty = 0
    <3>1. CASE k \in 1..Len(fills)
      BY <1>1, <2>2, <3>1
    <3>2. CASE k \notin 1..Len(fills)
      <4>1. k = Len(report) /\ Len(report) = Len(fills) + 1
        BY <2>2, <3>2
      <4> QED BY <1>1, <2>2, <4>1
    <3> QED BY <3>1, <3>2
  <2> QED BY <2>2, <2>3 DEF WellFormed
<1>4. ASSUME NEW answer \in DisorderlyAnswers PROVE WellFormed(answer)
  <2>1. PICK n \in 0..MaxAnswer : answer \in [1..n -> Reported]
    BY DEF DisorderlyAnswers
  <2>2. n \in Nat /\ answer \in Seq(Event)
    BY <2>1, VenueAssumption, DisorderlyType
  <2>3. Len(answer) \in Nat /\ DOMAIN answer = 1..Len(answer)
    BY <2>2, LenProperties
  <2>4. ASSUME NEW k \in 1..Len(answer) PROVE answer[k].to \in FillKinds \/ answer[k].qty = 0
    <3>1. answer[k] \in Reported
      BY <2>1, <2>3
    <3> QED BY <1>1, <3>1 DEF Reported
  <2> QED BY <2>4 DEF WellFormed
<1>5. ASSUME NEW req \in Nat, NEW answer \in SubmitAnswers(req) PROVE WellFormed(answer)
  <2>1. CASE Venue = "paper"
    <3>1. \/ answer = <<Ev("REJECTED")>>
          \/ answer = <<Ev("SUBMITTED"), Fill("FILLED", req)>>
          \/ \E d \in Depth :
               answer = <<Ev("SUBMITTED"), Fill("PARTIALLY_FILLED", d), Ev("CANCELLED")>>
      BY <2>1 DEF SubmitAnswers, PaperSubmit
    <3>2. CASE answer = <<Ev("REJECTED")>>
      BY <1>1, <1>2, <3>2 DEF WellFormed
    <3>3. CASE answer = <<Ev("SUBMITTED"), Fill("FILLED", req)>>
      <4>1. Len(answer) = 2 /\ answer[1].qty = 0 /\ answer[2].to \in FillKinds
        BY <1>1, <1>2, <3>3
      <4> QED BY <4>1 DEF WellFormed
    <3>4. ASSUME NEW d \in Depth,
                 answer = <<Ev("SUBMITTED"), Fill("PARTIALLY_FILLED", d), Ev("CANCELLED")>>
          PROVE  WellFormed(answer)
      <4>1. /\ Len(answer) = 3 /\ answer[1].qty = 0 /\ answer[2].to \in FillKinds
            /\ answer[3].qty = 0
        BY <1>1, <1>2, <3>4
      <4> QED BY <4>1 DEF WellFormed
    <3> QED BY <3>1, <3>2, <3>3, <3>4
  <2>2. CASE Venue = "contract"
    <3>1. \/ answer = <<Ev("REJECTED")>>
          \/ \E report \in FillReports(req, {<<>>, <<Ev("CANCELLED")>>}) :
               answer = <<Ev("SUBMITTED")>> \o report
      BY <2>2 DEF SubmitAnswers, ContractSubmit
    <3>2. CASE answer = <<Ev("REJECTED")>>
      BY <1>1, <1>2, <3>2 DEF WellFormed
    <3>3. ASSUME NEW report \in FillReports(req, {<<>>, <<Ev("CANCELLED")>>}),
                 answer = <<Ev("SUBMITTED")>> \o report
          PROVE  WellFormed(answer)
      <4>1. report \in Seq(Event) /\ WellFormed(report)
        BY <1>3
      <4>2. /\ Len(report) \in Nat /\ Len(answer) = Len(report) + 1
            /\ answer[1] = Ev("SUBMITTED")
            /\ \A k \in 1..Len(report) : answer[k + 1] = report[k]
        BY <3>3, <4>1, SubmittedThen
      <4> SUFFICES ASSUME NEW k \in 1..Len(answer), answer[k].to \notin FillKinds
                   PROVE  answer[k].qty = 0
        BY DEF WellFormed
      <4>3. CASE k = 1
        BY <1>1, <4>2, <4>3
      <4>4. CASE k # 1
        <5>1. k - 1 \in 1..Len(report) /\ (k - 1) + 1 = k
          BY <4>2, <4>4
        <5>2. answer[k] = report[k - 1]
          BY <4>2, <5>1
        <5> QED BY <4>1, <5>1, <5>2 DEF WellFormed
      <4> QED BY <4>3, <4>4
    <3> QED BY <3>1, <3>2, <3>3
  <2>3. CASE Venue = "disorderly"
    BY <1>4, <2>3 DEF SubmitAnswers
  <2> QED BY <2>1, <2>2, <2>3, VenueAssumption
<1>6. ASSUME TypeOK, NEW o \in Order, NEW answer \in ReconcileAnswers(o)
      PROVE  WellFormed(answer)
  <2>1. WellFormed(<<>>) /\ WellFormed(<<Ev("STALE")>>)
    BY <1>1, <1>2 DEF WellFormed
  <2>2. Remaining(o) \in Nat
    BY <1>6 DEF TypeOK, OrderType, Remaining
  <2>3. CASE Venue = "paper"
    BY <2>1, <2>3 DEF ReconcileAnswers
  <2>4. CASE Venue = "contract"
    BY <1>3, <2>1, <2>2, <2>4 DEF ReconcileAnswers, ContractReconcile
  <2>5. CASE Venue = "disorderly"
    BY <1>4, <2>1, <2>5 DEF ReconcileAnswers
  <2> QED BY <2>3, <2>4, <2>5, VenueAssumption
<1> QED BY <1>5, <1>6

-----------------------------------------------------------------------------
(* The registry *)

LEMMA InitTracked == Init => Tracked
BY CallMoves DEF Init, Tracked, NewOrderCall

\* What recovery registers it has restored from the log.
LEMMA RestoredIsKnown ==
  ASSUME TypeInv, Tracked, RegisterRestored
  PROVE  /\ \A o \in registered' : orders'[o].st # "NONE"
         /\ Logged \subseteq registered' /\ Orphans \subseteq Logged
         /\ call.pc \notin {"reconciling", "applying"} /\ log' = log
<1>0. orders \in [Order -> OrderType] /\ registered \subseteq Order /\ "NONE" \notin OrderState
  BY DEF TypeInv, TypeOK, OrderState
<1>1. /\ orders' = [o \in Order |-> IF o \in Logged THEN Restored(o) ELSE orders[o]]
      /\ registered' = registered \cup Logged /\ log' = log
      /\ call.pc \notin {"reconciling", "applying"}
  BY DEF RegisterRestored, MayLoad
<1>2. \A o \in Logged : o \in Order /\ Restored(o).st # "NONE"
  <2> SUFFICES ASSUME NEW o \in Logged PROVE o \in Order /\ Restored(o).st # "NONE"
    OBVIOUS
  <2>1. LastOf(o) \in RecordsOf(o) /\ o \in Order
    BY EndsOfGroup DEF TypeInv, EndsInGroup, Logged
  <2>2. log[LastOf(o)].to \in OrderState
    BY <2>1, RecordTypes DEF TypeInv, TypeOK, RecordsOf
  <2> QED BY <1>0, <2>1, <2>2 DEF Restored
<1>3. \A o \in registered' : orders'[o].st # "NONE"
  BY <1>0, <1>1, <1>2 DEF Tracked
<1> QED BY <1>1, <1>3 DEF Orphans

LEMMA NextTracked ==
  ASSUME TypeInv, Tracked, [Next]_vars
  PROVE  Tracked'
<1>0. /\ orders \in [Order -> OrderType] /\ registered \subseteq Order /\ "NONE" \notin OrderState
      /\ orphans \subseteq registered /\ TypeOK
  BY DEF TypeInv, TypeOK, OrderState, Tracked
<1> USE DEF NewOrderCall
<1>1. CASE Crash \/ CrashInAppend
  BY <1>1, CallMoves DEF Crash, CrashInAppend, LoseMemory, Tracked
<1>2. CASE Tick \/ UNCHANGED vars
  <2>1. /\ registered' = registered /\ orphans' = orphans /\ call' = call /\ orders' = orders
    BY <1>2 DEF Tick, vars
  <2> QED BY <2>1 DEF Tracked
<1>3. CASE ColdStart \/ LoadFails \/ LoadClean
  <2>1. /\ registered' = registered /\ orphans' = orphans /\ orders' = orders
        /\ \E where \in {"idle", "blocked"} : call' = NoCall(where)
    BY <1>3 DEF ColdStart, LoadFails, LoadClean
  <2>2. call'.pc \in {"idle", "blocked"} /\ call'.todo = <<>> /\ WellFormed(call'.todo)
    BY <2>1, CallMoves
  <2> QED BY <2>1, <2>2 DEF Tracked
<1>4. CASE LoadWithOrphans \/ RegisterRaises
  <2>1. RegisterRestored /\ orphans' \subseteq Orphans
    BY <1>4 DEF LoadWithOrphans, RegisterRaises
  <2>2. call'.pc \in {"reconciling", "idle"} /\ call'.todo = <<>> /\ WellFormed(call'.todo)
    <3>1. call' = CallAt("reconciling", NoOrder, clock) \/ call' = NoCall("idle")
      BY <1>4 DEF LoadWithOrphans, RegisterRaises
    <3> QED BY <3>1, CallMoves
  <2> QED BY <2>1, <2>2, RestoredIsKnown DEF Tracked
<1>5. ASSUME NEW o \in Order, AskVenue(o) \/ AskRaises(o) PROVE Tracked'
  <2>1. /\ call.pc = "reconciling" /\ call'.pc = "reconciling"
        /\ o \in orphans /\ orphans' = orphans \ {o}
        /\ registered' = registered /\ orders' = orders
        /\ \/ call'.todo = <<>>
           \/ call'.oid = o /\ call'.todo \in ReconcileAnswers(o)
    BY <1>5, AskMoves
  <2>2. WellFormed(call'.todo)
    BY <1>0, <2>1, CallMoves, AnswersWellFormed
  <2>3. Venue = "paper" => call'.todo \in {<<>>, <<Ev("STALE")>>}
    BY <2>1 DEF ReconcileAnswers
  <2> QED BY <1>0, <2>1, <2>2, <2>3 DEF Tracked
<1>6. ASSUME NEW o \in Order, NEW req \in Qty, NEW where \in {"rejecting", "created"},
             Create(o, req, where)
      PROVE  Tracked'
  <2>1. /\ orders[o].st = "NONE" /\ registered' = registered /\ orphans' = orphans
        /\ orders' = [orders EXCEPT ![o] = [st |-> "CREATED", req |-> req, filled |-> 0]]
        /\ call'.pc = where /\ call'.oid = o /\ call'.todo = <<>>
    BY <1>6, CallMoves DEF Create, Fresh
  <2>2. WellFormed(call'.todo)
    BY <2>1, CallMoves
  <2> QED BY <1>0, <2>1, <2>2 DEF Tracked
<1>7. ASSUME NEW o \in Order, NEW req \in Qty, RefuseAtPricing(o, req) \/ DryRun(o, req)
      PROVE  Tracked'
  <2>1. /\ call.pc = "idle" /\ call' = call /\ orphans' = orphans
        /\ registered' = registered \/ registered' = registered \cup {o}
        /\ orders[o].st = "NONE"
        /\ \E st \in {"VALIDATED", "REJECTED"} :
             orders' = [orders EXCEPT ![o] = [st |-> st, req |-> req, filled |-> 0]]
    BY <1>7 DEF RefuseAtPricing, DryRun, Fresh
  <2>2. \A p \in registered' : orders'[p].st # "NONE"
    BY <1>0, <2>1 DEF Tracked
  <2> QED BY <1>0, <2>1, <2>2 DEF Tracked
<1>8. ASSUME NEW o \in Order, NEW pending \in {"CANCEL_PENDING", "REPLACE_PENDING"},
             RequestCancel(o, pending)
      PROVE  Tracked'
  <2>1. /\ registered' = registered /\ orphans' = orphans
        /\ call'.pc = "cancelling" /\ call'.todo = <<>>
        /\ orders' = orders \/ orders' = [orders EXCEPT ![o].st = pending]
    BY <1>8, CallMoves DEF RequestCancel
  <2>2. WellFormed(call'.todo)
    BY <2>1, CallMoves
  <2> QED BY <1>0, <2>1, <2>2 DEF Tracked, OrderType
<1>9. CASE CancelAnswered \/ PersistRefusal \/ FinishReconcile
  <2>1. /\ registered' = registered /\ orphans' = orphans
        /\ \E where \in {"idle", "blocked"} : call' = NoCall(where)
        /\ \/ orders' = orders
           \/ \E to \in {"CANCELLED", "REJECTED"} : orders' = [orders EXCEPT ![call.oid].st = to]
    BY <1>9 DEF CancelAnswered, PersistRefusal, FinishReconcile, StartOutcome
  <2>2. call'.pc \in {"idle", "blocked"} /\ call'.todo = <<>> /\ WellFormed(call'.todo)
    BY <2>1, CallMoves
  <2>3. \A p \in registered' : orders'[p].st # "NONE"
    BY <1>0, <2>1 DEF Tracked, OrderType
  <2> QED BY <1>0, <2>1, <2>2, <2>3 DEF Tracked
<1>10. CASE Validate
  <2>1. /\ registered' = registered /\ orphans' = orphans /\ call.pc = "created"
        /\ call'.pc = "validated" /\ call'.oid = call.oid /\ call.oid \in Order
        /\ call'.todo = call.todo
        /\ orders' = [orders EXCEPT ![call.oid].st = "VALIDATED"]
    BY <1>10 DEF Validate, TypeInv, TypeOK, CallType, CallHasOrder, Busy
  <2>2. WellFormed(call'.todo)
    BY <2>1 DEF Tracked
  <2> QED BY <1>0, <2>1, <2>2 DEF Tracked, OrderType
<1>11. CASE Submit
  <2>1. /\ registered' = registered /\ orphans' = orphans
        /\ orders' = orders /\ call.pc = "validated"
        /\ call'.pc = "applying" /\ call'.oid = call.oid
        /\ call'.todo \in SubmitAnswers(orders[call.oid].req)
    BY <1>11 DEF Submit, TypeInv, TypeOK, CallType
  <2>2. orders[call.oid].req \in Nat
    <3>1. call.oid \in Order /\ orders[call.oid].req > 0
      BY <2>1 DEF TypeInv, CallHasOrder, Busy
    <3> QED BY <1>0, <3>1 DEF OrderType
  <2>3. WellFormed(call'.todo)
    BY <2>1, <2>2, AnswersWellFormed
  <2> QED BY <1>0, <2>1, <2>3 DEF Tracked
<1>12. CASE SubmitRaises
  <2>1. /\ registered' = registered /\ orphans' = orphans
        /\ call.pc = "validated" /\ call'.pc = "idle" /\ call'.todo = <<>>
        /\ orders' = [orders EXCEPT ![call.oid] = Absent]
    BY <1>12, CallMoves DEF SubmitRaises
  <2>2. WellFormed(call'.todo)
    BY <2>1, CallMoves
  <2> QED BY <1>0, <2>1, <2>2 DEF Tracked
<1>13. CASE Return
  <2>1. /\ registered' = registered \cup {call.oid} /\ orders' = orders /\ orphans' = orphans
        /\ call.pc = "applying" /\ call'.pc = "idle" /\ call'.todo = <<>>
    BY <1>13, CallMoves DEF Return
  <2>2. WellFormed(call'.todo)
    BY <2>1, CallMoves
  <2> QED BY <1>0, <2>1, <2>2 DEF Tracked
<1>14. CASE ApplyNext \/ ReconcileNext
  <2> PICK e : e = Head(call.todo)
    OBVIOUS
  <2> PICK o : o = call.oid
    OBVIOUS
  <2>1. /\ registered' = registered /\ orphans' = orphans
        /\ call.pc \in {"applying", "reconciling"} /\ o \in Order /\ e \in Event
        /\ call'.pc = call.pc /\ call'.oid = o /\ call.todo \in Seq(Event) /\ call.todo # <<>>
        /\ call'.todo = Tail(call.todo) \/ call'.todo = <<>>
        /\ \/ orders' = [orders EXCEPT ![o] = Applied(o, e)]
           \/ orders' = [orders EXCEPT ![o] = [Applied(o, e) EXCEPT !.st = "REJECTED"]]
    BY <1>14, NextEventMoves
  <2>2. Applied(o, e) \in OrderType /\ (orders[o].st # "NONE" => Applied(o, e).st # "NONE")
    BY <1>0, <2>1, AppliedState, AppliedType DEF Event
  <2>3. /\ orders[o].st # "NONE" => orders'[o].st # "NONE"
        /\ \A p \in Order \ {o} : orders'[p] = orders[p]
    BY <1>0, <2>1, <2>2 DEF OrderType
  <2>4. WellFormed(call'.todo)
    <3>1. WellFormed(Tail(call.todo))
      BY <2>1, WellFormedRest DEF Tracked
    <3> QED BY <2>1, <3>1, CallMoves
  <2>5. call.pc = "reconciling" /\ Venue = "paper" => call'.todo = <<>>
    <3>1. Tail(<<Ev("STALE")>>) = <<>>
      OBVIOUS
    <3> QED BY <2>1, <3>1 DEF Tracked
  <2>6. orders[o].st # "NONE"
    BY <2>1 DEF Tracked
  <2>7. \A p \in registered' : orders'[p].st # "NONE"
    BY <1>0, <2>1, <2>3, <2>6 DEF Tracked
  <2>8. call'.pc = "applying" => call'.oid \notin registered' /\ orders'[call'.oid].st # "NONE"
    BY <2>1, <2>3, <2>6 DEF Tracked
  <2>9. call'.pc = "reconciling" => call'.oid \in registered' \ orphans'
    BY <2>1 DEF Tracked
  <2> QED BY <1>0, <2>1, <2>4, <2>5, <2>7, <2>8, <2>9 DEF Tracked
<1>15. CASE Request
  BY <1>6, <1>7, <1>8, <1>15 DEF Request, RefuseAtGate, Accept
<1> QED BY <1>1, <1>2, <1>3, <1>4, <1>5, <1>9, <1>10, <1>11, <1>12, <1>13, <1>14, <1>15
        DEF Next, EngineStep, Restart, Reconcile

\* Between calls, and in them, the state of a tracked order is what a restart would
\* restore: not even an exchange that reports a fill the FSM refuses sets them apart.
THEOREM StateAgreesWithLog == ASSUME Faithful PROVE Spec => []StateIsWhatReplayGives
<1>1. Init => LogInv /\ Tracked
  BY InitLog, InitTracked
<1>2. LogInv /\ Tracked /\ [Next]_vars => (LogInv /\ Tracked)'
  BY NextKeeps, NextTracked DEF LogInv
<1>3. LogInv /\ Tracked => StateIsWhatReplayGives
  <2> SUFFICES ASSUME LogInv, Tracked, NEW o \in registered \cap Logged
               PROVE  orders[o].st = Restored(o).st
    BY DEF StateIsWhatReplayGives
  <2>1. o \in Order /\ RecordsOf(o) # {} /\ orders[o].st # "NONE"
    BY DEF Logged, Tracked
  <2>2. NewestIs(o, orders[o].st)
    BY <2>1 DEF LogInv, Agree, AgreeOn
  <2>3. orders[o].st = log[LastOf(o)].to
    <3> PICK st : st = orders[o].st
      OBVIOUS
    <3>1. NewestIs(o, st)
      BY <2>2
    <3> QED BY <2>1, <3>1, NewestIsLast DEF LogInv
  <2> QED BY <2>3 DEF Restored
<1> QED BY <1>1, <1>2, <1>3, PTL DEF Spec

-----------------------------------------------------------------------------
(* Whatever the adapter answers and whichever appends fail, the log is not ahead *)

\* An order of which nothing was recorded, and that memory knows no less of.
LEMMA CoveredKept ==
  ASSUME NEW o, Covered(o), log' = log,
         \/ orders'[o].st = "NONE"
         \/ /\ orders[o].st # "NONE" /\ orders'[o].filled >= orders[o].filled
            /\ orders[o].st \in TerminalStates => orders'[o].st \in TerminalStates,
         RecordsOf(o) # {} => /\ LoggedFill(o) \in Nat
                              /\ orders[o].filled \in Nat /\ orders'[o].filled \in Nat
  PROVE  Covered(o)'
<1>1. /\ RecordsOf(o)' = RecordsOf(o) /\ LoggedFill(o)' = LoggedFill(o)
      /\ StateInLog(o)' = StateInLog(o)
  BY SameLogEffect
<1> QED BY <1>1 DEF Covered

\* An order for which an event is persisted, or the append failed, after it was
\* applied: the move is the FSM's, or the event is a refusal, or does not close.
LEMMA CoveredAfterPersist ==
  ASSUME TypeInv, \A p \in Order : Covered(p),
         NEW o \in Order, NEW to \in OrderState, NEW qty \in Nat, NEW req \in Int,
         NEW ts \in Int, Persist(o, to, qty, req, ts),
         \A p \in Order \ {o} : orders'[p] = orders[p],
         orders'[o].filled = orders[o].filled + qty,
         RecordsOf(o) # {} => orders[o].st # "NONE",
         orders'[o].st \in TerminalStates \/ to \notin TerminalStates \ {"REJECTED"},
         orders[o].st \in TerminalStates => orders'[o].st \in TerminalStates
  PROVE  \A p \in Order : Covered(p)'
<1>1. \A p \in Order : LoggedFill(p) \in Nat /\ orders[p].filled \in Nat
  BY LoggedFillType DEF TypeInv, TypeOK, OrderType
<1>2. CASE log' = log
  <2>1. \A p \in Order : Covered(p) /\ orders'[p].filled \in Nat
    BY <1>1
  <2>2. ASSUME NEW p \in Order PROVE Covered(p)'
    <3>1. /\ RecordsOf(p)' = RecordsOf(p) /\ LoggedFill(p)' = LoggedFill(p)
          /\ StateInLog(p)' = StateInLog(p)
      BY <1>2, SameLogEffect
    <3> QED BY <1>1, <2>1, <3>1 DEF Covered
  <2> QED BY <2>2
<1>3. CASE Appends(o, to, qty, req, ts)
  <2>1. /\ LoggedFill(o)' = LoggedFill(o) + qty
        /\ \/ StateInLog(o)' = to
           \/ RecordsOf(o) # {} /\ StateInLog(o)' = StateInLog(o)
        /\ \A p \in Order \ {o} :
             /\ RecordsOf(p)' = RecordsOf(p)
             /\ LoggedFill(p)' = LoggedFill(p)
             /\ RecordsOf(p) # {} => StateInLog(p)' = StateInLog(p)
    BY <1>3, AppendEffect
  <2>2. LoggedFill(o)' <= orders'[o].filled
    <3>1. RecordsOf(o) # {} => LoggedFill(o) <= orders[o].filled
      BY DEF Covered
    <3>2. RecordsOf(o) = {} => LoggedFill(o) = 0
      <4> SUFFICES ASSUME RecordsOf(o) = {} PROVE LoggedFill(o) = 0
        OBVIOUS
      <4>1. UNION {{i} \X (1..log[i].qty) : i \in RecordsOf(o)} = {}
        OBVIOUS
      <4> QED BY <4>1, FS_EmptySet DEF LoggedFill
    <3> QED BY <1>1, <2>1, <3>1, <3>2
  <2>3. StateInLog(o)' \in TerminalStates \ {"REJECTED"} => orders'[o].st \in TerminalStates
    BY <2>1 DEF Covered
  <2>4. Covered(o)'
    BY <2>2, <2>3 DEF Covered
  <2>5. \A p \in Order \ {o} : Covered(p)'
    BY <2>1 DEF Covered
  <2> QED BY <2>4, <2>5
<1> QED BY <1>2, <1>3 DEF Persist, Appends

\* A step that records nothing, and forgets orders or leaves them as they are, but for
\* those the log does not know.
LEMMA CoveredUnlogged ==
  ASSUME TypeInv, \A p \in Order : Covered(p), log' = log,
         \A p \in Order : \/ orders'[p] = orders[p] \/ orders'[p].st = "NONE"
                          \/ RecordsOf(p) = {}
  PROVE  \A p \in Order : Covered(p)'
<1> SUFFICES ASSUME NEW p \in Order PROVE Covered(p)'
  OBVIOUS
<1>1. /\ RecordsOf(p)' = RecordsOf(p) /\ LoggedFill(p)' = LoggedFill(p)
      /\ StateInLog(p)' = StateInLog(p)
  BY SameLogEffect
<1> QED BY <1>1 DEF Covered

\* A move of the FSM that carries no fill.
LEMMA CoveredAfterMove ==
  ASSUME CoverInv, NEW o \in Order, NEW to \in OrderState, NEW ts \in Int,
         Persist(o, to, 0, 0, ts), orders' = [orders EXCEPT ![o].st = to],
         orders[o].st \notin TerminalStates \cup {"NONE"}
  PROVE  \A p \in Order : Covered(p)'
<1>1. orders \in [Order -> OrderType]
  BY DEF CoverInv, TypeInv, TypeOK
<1>2. /\ orders'[o].st = to /\ orders'[o].filled = orders[o].filled + 0
      /\ \A p \in Order \ {o} : orders'[p] = orders[p]
  BY <1>1 DEF OrderType
<1> QED BY <1>2, CoveredAfterPersist DEF CoverInv

LEMMA NextCovered ==
  ASSUME CoverInv, [Next]_vars
  PROVE  \A p \in Order : Covered(p)'
<1>0. /\ TypeInv /\ Tracked /\ \A p \in Order : Covered(p)
      /\ orders \in [Order -> OrderType] /\ call.ts \in Int /\ clock \in Int
  BY DEF CoverInv, TypeInv, TypeOK, CallType
<1> USE DEF CoverInv
<1>1. CASE Crash \/ CrashInAppend
  <2>1. log' = log /\ \A p \in Order : orders'[p].st = "NONE"
    BY <1>1 DEF Crash, CrashInAppend, LoseMemory, Absent
  <2> QED BY <2>1, CoveredUnlogged
<1>2. \/ Tick \/ UNCHANGED vars \/ ColdStart \/ LoadFails \/ LoadClean \/ FinishReconcile
      \/ \E o \in Order : AskVenue(o) \/ AskRaises(o)
      => \A p \in Order : Covered(p)'
  <2> SUFFICES ASSUME \/ Tick \/ UNCHANGED vars \/ ColdStart \/ LoadFails \/ LoadClean
                      \/ FinishReconcile \/ \E o \in Order : AskVenue(o) \/ AskRaises(o)
               PROVE  \A p \in Order : Covered(p)'
    OBVIOUS
  <2>1. log' = log /\ orders' = orders
    BY DEF Tick, vars, ColdStart, LoadFails, LoadClean, FinishReconcile, AskVenue, AskRaises
  <2> QED BY <1>0, <2>1, CoveredUnlogged
<1>3. CASE LoadWithOrphans \/ RegisterRaises
  <2> SUFFICES ASSUME NEW p \in Order PROVE Covered(p)'
    OBVIOUS
  <2>1. log' = log /\ (RecordsOf(p) # {} => orders'[p] = Restored(p))
    BY <1>3 DEF LoadWithOrphans, RegisterRaises, RegisterRestored, Logged
  <2>2. /\ RecordsOf(p)' = RecordsOf(p) /\ LoggedFill(p)' = LoggedFill(p)
        /\ StateInLog(p)' = StateInLog(p)
    BY <2>1, SameLogEffect
  <2>3. Restored(p).filled = LoggedFill(p) /\ Restored(p).st = StateInLog(p)
    BY DEF Restored, StateInLog
  <2>4. LoggedFill(p) \in Nat
    BY <1>0, LoggedFillType DEF TypeInv, TypeOK
  <2> QED BY <2>1, <2>2, <2>3, <2>4 DEF Covered
<1>5. ASSUME NEW o \in Order, NEW req \in Qty, NEW where \in {"rejecting", "created"},
             Create(o, req, where)
      PROVE  \A p \in Order : Covered(p)'
  <2>1. /\ RecordsOf(o) = {}
        /\ orders' = [orders EXCEPT ![o] = [st |-> "CREATED", req |-> req, filled |-> 0]]
        /\ \E s \in Skew : Persist(o, "CREATED", 0, req, clock + s)
    BY <1>5 DEF Create, Fresh
  <2> PICK s \in Skew : Persist(o, "CREATED", 0, req, clock + s)
    BY <2>1
  <2>2. /\ "CREATED" \in OrderState /\ "CREATED" \notin TerminalStates /\ 0 \in Nat
        /\ req \in Int /\ clock + s \in Int
    BY <1>0, ClockAssumption, QtyAssumption DEF OrderState, TerminalStates
  <2>3. /\ orders'[o].filled = 0 /\ orders'[o].st = "CREATED"
        /\ \A p \in Order \ {o} : orders'[p] = orders[p]
    BY <1>0, <2>1
  <2>4. CASE log' = log
    BY <1>0, <2>1, <2>3, <2>4, CoveredUnlogged
  <2>5. CASE Appends(o, "CREATED", 0, req, clock + s)
    <3>1. /\ LoggedFill(o)' = LoggedFill(o) + 0 /\ StateInLog(o)' = "CREATED"
          /\ \A p \in Order \ {o} :
               /\ RecordsOf(p)' = RecordsOf(p)
               /\ LoggedFill(p)' = LoggedFill(p)
               /\ RecordsOf(p) # {} => StateInLog(p)' = StateInLog(p)
      BY <1>0, <2>1, <2>2, <2>5, AppendEffect
    <3>2. LoggedFill(o) = 0
      <4>1. UNION {{i} \X (1..log[i].qty) : i \in RecordsOf(o)} = {}
        BY <2>1
      <4> QED BY <4>1, FS_EmptySet DEF LoggedFill
    <3>3. Covered(o)'
      BY <2>2, <2>3, <3>1, <3>2 DEF Covered
    <3>4. \A p \in Order \ {o} : Covered(p)'
      BY <1>0, <2>3, <3>1 DEF Covered
    <3> QED BY <3>3, <3>4
  <2> QED BY <2>4, <2>5 DEF Persist, Appends
<1>6. ASSUME NEW o \in Order, NEW req \in Qty, RefuseAtPricing(o, req) \/ DryRun(o, req)
      PROVE  \A p \in Order : Covered(p)'
  <2>1. log' = log /\ \A p \in Order : orders'[p] = orders[p] \/ RecordsOf(p) = {}
    BY <1>0, <1>6 DEF RefuseAtPricing, DryRun, Fresh
  <2> QED BY <1>0, <2>1, CoveredUnlogged
<1>7. ASSUME NEW o \in Order, NEW pending \in {"CANCEL_PENDING", "REPLACE_PENDING"},
             RequestCancel(o, pending)
      PROVE  \A p \in Order : Covered(p)'
  <2>1. CASE CanTransition(orders[o].st, pending)
    <3>1. orders[o].st \notin TerminalStates \cup {"NONE"}
      BY <2>1 DEF CanTransition, AllowedTransitions, TerminalStates, AtVenue
    <3>2. orders' = [orders EXCEPT ![o].st = pending] /\ Persist(o, pending, 0, 0, clock)
      BY <1>7, <2>1 DEF RequestCancel
    <3>3. pending \in OrderState
      BY DEF OrderState
    <3> QED BY <1>0, <3>1, <3>2, <3>3, CoveredAfterMove
  <2>2. CASE ~CanTransition(orders[o].st, pending)
    <3>1. orders' = orders /\ log' = log
      BY <1>7, <2>2 DEF RequestCancel
    <3> QED BY <1>0, <3>1, CoveredUnlogged
  <2> QED BY <2>1, <2>2
<1>8. CASE CancelAnswered
  <2>1. \/ orders' = orders /\ log' = log
        \/ /\ CanTransition(orders[call.oid].st, "CANCELLED")
           /\ orders' = [orders EXCEPT ![call.oid].st = "CANCELLED"]
           /\ Persist(call.oid, "CANCELLED", 0, 0, call.ts)
    BY <1>8 DEF CancelAnswered
  <2>2. CASE orders' = orders /\ log' = log
    BY <1>0, <2>2, CoveredUnlogged
  <2>3. CASE /\ CanTransition(orders[call.oid].st, "CANCELLED")
             /\ orders' = [orders EXCEPT ![call.oid].st = "CANCELLED"]
             /\ Persist(call.oid, "CANCELLED", 0, 0, call.ts)
    <3>1. orders[call.oid].st \notin TerminalStates \cup {"NONE"}
      BY <2>3 DEF CanTransition, AllowedTransitions, TerminalStates, AtVenue
    <3>2. call.oid \in Order /\ "CANCELLED" \in OrderState
      BY <1>0, <1>8 DEF CancelAnswered, TypeInv, CallHasOrder, Busy, OrderState
    <3> QED BY <1>0, <2>3, <3>1, <3>2, CoveredAfterMove
  <2> QED BY <2>1, <2>2, <2>3
<1>9. CASE PersistRefusal \/ Validate
  <2>1. PICK to \in {"REJECTED", "VALIDATED"} :
          /\ orders' = [orders EXCEPT ![call.oid].st = to]
          /\ Persist(call.oid, to, 0, 0, call.ts)
    BY <1>9 DEF PersistRefusal, Validate
  <2>2. /\ call.oid \in Order /\ orders[call.oid].st = "CREATED" /\ to \in OrderState
        /\ "CREATED" \notin TerminalStates \cup {"NONE"}
    BY <1>0, <1>9 DEF PersistRefusal, Validate, TypeInv, CallHasOrder, Busy, OrderState,
       Tracked, TerminalStates
  <2> QED BY <1>0, <2>1, <2>2, CoveredAfterMove
<1>10. CASE Submit \/ Return
  BY <1>0, <1>10, CoveredUnlogged DEF Submit, Return
<1>11. CASE SubmitRaises
  <2>1. log' = log /\ \A p \in Order : orders'[p] = orders[p] \/ orders'[p].st = "NONE"
    BY <1>0, <1>11 DEF SubmitRaises, Absent
  <2> QED BY <1>0, <2>1, CoveredUnlogged
<1>12. CASE ApplyNext \/ ReconcileNext
  <2> PICK o : o = call.oid
    OBVIOUS
  <2> PICK e : e = Head(call.todo)
    OBVIOUS
  <2>1. /\ o \in Order /\ e \in Event /\ (e.to \notin FillKinds => e.qty = 0)
        /\ \/ /\ Takes(o, e)
              /\ orders' = [orders EXCEPT ![o] = Applied(o, e)]
              /\ Persist(o, e.to, e.qty, 0, call.ts)
           \/ /\ \/ orders' = [orders EXCEPT ![o] = Applied(o, e)]
                 \/ orders' = [orders EXCEPT ![o] = [Applied(o, e) EXCEPT !.st = "REJECTED"]]
              /\ ~Takes(o, e) /\ log' = log
    BY <1>0, <1>12, NextEventMoves
  <2> PICK to \in OrderState, qty \in Nat : to = e.to /\ qty = e.qty
    BY <2>1 DEF Event
  <2>2. /\ Applied(o, e) \in OrderType /\ Applied(o, e).filled = orders[o].filled + qty
        /\ Applied(o, e).st = IF CanTransition(orders[o].st, to) THEN to ELSE orders[o].st
    BY <1>0, <2>1, AppliedMoves, AppliedType DEF TypeInv
  <2>3. \A p \in Order \ {o} : orders'[p] = orders[p]
    BY <1>0, <2>1
  <2>4. orders[o].st # "NONE"
    <3>1. call.pc \in {"applying", "reconciling"} /\ call.todo # <<>>
      BY <1>0, <1>12, NextEventMoves
    <3> QED BY <1>0, <3>1 DEF Tracked, NewOrderCall
  <2>5. CASE /\ Takes(o, e)
             /\ orders' = [orders EXCEPT ![o] = Applied(o, e)]
             /\ Persist(o, e.to, e.qty, 0, call.ts)
    <3>1. orders'[o].st = Applied(o, e).st /\ orders'[o].filled = orders[o].filled + qty
      BY <1>0, <2>1, <2>2, <2>5
    <3>2. Persist(o, to, qty, 0, call.ts) /\ 0 \in Int
      BY <2>5
    <3>3. CASE CanTransition(orders[o].st, to)
      <4>1. orders[o].st \notin TerminalStates
        BY <3>3 DEF CanTransition, AllowedTransitions, TerminalStates, AtVenue
      <4> QED BY <1>0, <2>1, <2>2, <2>3, <2>4, <3>1, <3>2, <3>3, <4>1, CoveredAfterPersist
    <3>4. CASE ~CanTransition(orders[o].st, to)
      <4>1. to = "REJECTED"
        BY <2>5, <3>4 DEF Takes, TooLate
      <4> QED BY <1>0, <2>1, <2>2, <2>3, <2>4, <3>1, <3>2, <3>4, <4>1, CoveredAfterPersist
    <3> QED BY <3>3, <3>4
  <2>6. CASE /\ \/ orders' = [orders EXCEPT ![o] = Applied(o, e)]
                \/ orders' = [orders EXCEPT ![o] = [Applied(o, e) EXCEPT !.st = "REJECTED"]]
             /\ ~Takes(o, e) /\ log' = log
    <3>1. /\ orders'[o].filled = orders[o].filled + qty
          /\ orders'[o].st = orders[o].st \/ orders'[o].st = "REJECTED"
      <4>1. Applied(o, e).st = orders[o].st
        BY <2>2, <2>6 DEF Takes
      <4> QED BY <1>0, <2>1, <2>2, <2>6, <4>1 DEF OrderType
    <3>2. LoggedFill(o) \in Nat /\ orders[o].filled \in Nat /\ "REJECTED" \in TerminalStates
      BY <1>0, <2>1, LoggedFillType DEF TypeInv, TypeOK, OrderType, TerminalStates
    <3>3. Covered(o)'
      BY <1>0, <2>1, <2>4, <2>6, <3>1, <3>2, CoveredKept
    <3>4. ASSUME NEW p \in Order \ {o} PROVE Covered(p)'
      <4>1. /\ RecordsOf(p)' = RecordsOf(p) /\ LoggedFill(p)' = LoggedFill(p)
            /\ StateInLog(p)' = StateInLog(p)
        BY <2>6, SameLogEffect
      <4> QED BY <1>0, <2>3, <4>1 DEF Covered
    <3> QED BY <3>3, <3>4
  <2> QED BY <2>1, <2>5, <2>6
<1>13. CASE Request
  BY <1>5, <1>6, <1>7, <1>13 DEF Request, RefuseAtGate, Accept
<1> QED BY <1>1, <1>2, <1>3, <1>8, <1>9, <1>10, <1>11, <1>12, <1>13
        DEF Next, EngineStep, Restart, Reconcile

\* The log is never ahead of the process: what it holds of an order was applied to it,
\* and an order it closes, other than by a refusal, is closed in memory.  For any
\* faults and any clocks, and whatever events an adapter reports in whatever order and
\* number, as long as it reports fills on the fill kinds only.
THEOREM LogNeverAhead == Spec => []LogNotAheadOfMemory
<1>1. Init => CoverInv
  <2>1. Init => \A o \in Order : Covered(o)
    BY DEF Init, Absent, Covered
  <2> QED BY <2>1, InitType, InitTracked DEF CoverInv
<1>2. CoverInv /\ [Next]_vars => CoverInv'
  BY NextType, NextTracked, NextCovered DEF CoverInv
<1>3. CoverInv => LogNotAheadOfMemory
  BY DEF CoverInv, Covered, LogNotAheadOfMemory, Logged, Restored, StateInLog
<1> QED BY <1>1, <1>2, <1>3, PTL DEF Spec

-----------------------------------------------------------------------------
(* At a paper venue nothing rests *)

\* Each answer of the paper venue leads off the venue, and refuses at once if at all.
LEMMA PaperLeadsOff ==
  ASSUME Venue = "paper", NEW req, NEW answer \in SubmitAnswers(req)
  PROVE  OffVenue("VALIDATED", answer)
<1>1. \/ answer = <<Ev("REJECTED")>>
      \/ answer = <<Ev("SUBMITTED"), Fill("FILLED", req)>>
      \/ \E d \in Depth :
           answer = <<Ev("SUBMITTED"), Fill("PARTIALLY_FILLED", d), Ev("CANCELLED")>>
  BY DEF SubmitAnswers, PaperSubmit
<1>2. (\A to : Ev(to).to = to) /\ \A to, q : Fill(to, q).to = to
  BY DEF Ev, Fill
<1>3. \A to \in {"REJECTED", "FILLED", "CANCELLED"} : to \notin AtVenue
  BY DEF AtVenue
<1>4. CASE answer = <<Ev("REJECTED")>>
  BY <1>2, <1>3, <1>4 DEF OffVenue
<1>5. CASE answer = <<Ev("SUBMITTED"), Fill("FILLED", req)>>
  <2>1. /\ answer # <<>> /\ Len(answer) = 2
        /\ answer[1].to = "SUBMITTED" /\ answer[2].to = "FILLED"
    BY <1>2, <1>5
  <2> QED BY <1>3, <2>1 DEF OffVenue
<1>6. ASSUME NEW d \in Depth,
             answer = <<Ev("SUBMITTED"), Fill("PARTIALLY_FILLED", d), Ev("CANCELLED")>>
      PROVE  OffVenue("VALIDATED", answer)
  <2>1. /\ answer # <<>> /\ Len(answer) = 3
        /\ answer[1].to = "SUBMITTED" /\ answer[2].to = "PARTIALLY_FILLED"
        /\ answer[3].to = "CANCELLED"
    BY <1>2, <1>6
  <2> QED BY <1>3, <2>1 DEF OffVenue
<1> QED BY <1>1, <1>4, <1>5, <1>6

\* The order stays on its way off the venue.
LEMMA OffVenueKept ==
  ASSUME TypeInv, Tracked, ApplyNext, OffVenue(orders[call.oid].st, call.todo)
  PROVE  OffVenue(orders'[call.oid].st, call'.todo)
<1> DEFINE o == call.oid
           e == Head(call.todo)
           todo == Tail(call.todo)
<1>1. /\ o \in Order /\ call.todo \in Seq(Event) /\ call.todo # <<>> /\ e \in Event
      /\ \/ /\ CanTransition(orders[o].st, e.to) \/ TooLate(o, e)
            /\ orders' = [orders EXCEPT ![o] = Applied(o, e)]
            /\ call'.todo = todo
         \/ /\ orders' = [orders EXCEPT ![o] = [Applied(o, e) EXCEPT !.st = "REJECTED"]]
            /\ call'.todo = <<>>
  <2>1. call.pc = "applying"
    BY NextEventMoves
  <2> QED BY <2>1, NextEventMoves DEF Takes
<1>2. orders \in [Order -> OrderType] /\ Applied(o, e) \in OrderType
  BY <1>1, AppliedType DEF TypeInv, TypeOK
<1>3. Applied(o, e).st = IF CanTransition(orders[o].st, e.to) THEN e.to ELSE orders[o].st
  BY <1>1, AppliedState DEF TypeInv
<1>4. /\ Len(call.todo) \in Nat \ {0} /\ e = call.todo[1]
      /\ todo \in Seq(Event) /\ Len(todo) = Len(call.todo) - 1
      /\ \A k \in 1..Len(todo) : todo[k] = call.todo[k + 1] /\ k + 1 \in 1..Len(call.todo)
  BY <1>1, RestOfTodo
<1>5. CASE /\ CanTransition(orders[o].st, e.to) \/ TooLate(o, e)
           /\ orders' = [orders EXCEPT ![o] = Applied(o, e)]
           /\ call'.todo = todo
  <2>1. CanTransition(orders[o].st, e.to)
    <3> SUFFICES ASSUME ~CanTransition(orders[o].st, e.to) PROVE FALSE
      OBVIOUS
    <3>1. e.to = "REJECTED" /\ orders[o].st # "VALIDATED"
      BY <1>5 DEF TooLate
    <3> QED BY <1>4, <3>1 DEF OffVenue
  <2>2. orders'[o].st = e.to
    BY <1>1, <1>2, <1>3, <1>5, <2>1
  <2>3. call.todo[Len(call.todo)].to \notin AtVenue
    BY <1>1 DEF OffVenue
  <2>4. IF todo = <<>> THEN e.to \notin AtVenue ELSE todo[Len(todo)].to \notin AtVenue
    <3>1. CASE todo = <<>>
      <4>1. Len(call.todo) = 1
        <5> HIDE DEF todo
        <5>1. Len(todo) = 0
          BY <3>1
        <5> QED BY <1>4, <5>1
      <4> QED BY <1>4, <2>3, <3>1, <4>1
    <3>2. CASE todo # <<>>
      <4>1. Len(todo) \in 1..Len(todo) /\ Len(todo) + 1 = Len(call.todo)
        BY <1>4, <3>2, EmptySeq, LenProperties
      <4> QED BY <1>4, <2>3, <3>2, <4>1
    <3> QED BY <3>1, <3>2
  <2>5. \A k \in 1..Len(todo) : todo[k].to # "REJECTED"
    <3> SUFFICES ASSUME NEW k \in 1..Len(todo), todo[k].to = "REJECTED" PROVE FALSE
      OBVIOUS
    <3>1. k + 1 = 1
      BY <1>4 DEF OffVenue
    <3> QED BY <3>1
  <2> HIDE DEF todo, e
  <2> QED BY <1>5, <2>2, <2>4, <2>5 DEF OffVenue
<1>6. CASE /\ orders' = [orders EXCEPT ![o] = [Applied(o, e) EXCEPT !.st = "REJECTED"]]
           /\ call'.todo = <<>>
  <2>1. orders'[o].st = "REJECTED" /\ "REJECTED" \notin AtVenue
    BY <1>1, <1>2, <1>6 DEF OrderType, AtVenue
  <2> QED BY <1>6, <2>1 DEF OffVenue
<1> QED BY <1>1, <1>5, <1>6

LEMMA InitRests == Init => RestInv
BY CallMoves DEF Init, RestInv, NoCall, CallAt

LEMMA NextRests ==
  ASSUME Venue = "paper", TypeInv, Tracked, RestInv, [Next]_vars
  PROVE  RestInv'
<1>0. /\ orders \in [Order -> OrderType] /\ registered \subseteq Order /\ TypeOK
      /\ call.pc # "reconciling" => \A p \in registered : orders[p].st \notin AtVenue
      /\ \A st \in {"NONE", "CREATED", "VALIDATED"} \cup TerminalStates : st \notin AtVenue
  BY DEF TypeInv, TypeOK, RestInv, AtVenue, TerminalStates
\* A step after which no tracked order is at the venue, and no submission is applied.
<1>1. ASSUME call'.pc # "applying", \A p \in registered' : orders'[p].st \notin AtVenue
      PROVE  RestInv'
  BY <1>1 DEF RestInv
<1>2. CASE Crash \/ CrashInAppend
  BY <1>1, <1>2, CallMoves DEF Crash, CrashInAppend, LoseMemory
<1>3. CASE Tick \/ UNCHANGED vars
  BY <1>3 DEF Tick, vars, RestInv
<1>4. CASE ColdStart \/ LoadFails \/ LoadClean
  <2>1. /\ call.pc # "reconciling" /\ call'.pc # "applying"
        /\ registered' = registered /\ orders' = orders
    BY <1>4, CallMoves DEF ColdStart, LoadFails, LoadClean, MayLoad
  <2> QED BY <1>0, <1>1, <2>1
\* A paper adapter raises neither when told of orders nor when asked about one.
<1>16. ~RegisterRaises /\ "reconcile_error" \notin Faults
  BY FaultsAssumption DEF RegisterRaises
<1>5. CASE LoadWithOrphans
  <2>1. /\ call.pc # "reconciling" /\ call'.pc = "reconciling"
        /\ orders' = [o \in Order |-> IF o \in Logged THEN Restored(o) ELSE orders[o]]
        /\ registered' = registered \cup Logged /\ orphans' = Orphans
    BY <1>5, CallMoves DEF LoadWithOrphans, RegisterRestored, MayLoad
  <2>2. ASSUME NEW p \in registered', orders'[p].st \in AtVenue PROVE p \in orphans'
    <3>1. CASE p \in Logged
      <4>1. p \in Order /\ orders'[p] = Restored(p)
        BY <2>1, <3>1 DEF Logged
      <4> QED BY <1>0, <2>1, <2>2, <3>1, <4>1 DEF Orphans
    <3>2. CASE p \notin Logged
      <4>1. p \in registered /\ orders'[p] = orders[p]
        BY <1>0, <2>1, <3>2
      <4> QED BY <1>0, <2>1, <2>2, <4>1
    <3> QED BY <3>1, <3>2
  <2> QED BY <2>1, <2>2 DEF RestInv
<1>6. CASE Reconcile
  <2>1. ASSUME NEW o \in Order, AskVenue(o) \/ AskRaises(o) PROVE RestInv'
    <3>1. /\ call.pc = "reconciling" /\ call'.pc = "reconciling" /\ call.todo = <<>>
          /\ orphans' = orphans \ {o} /\ registered' = registered /\ orders' = orders
          /\ call'.oid = o /\ call'.todo \in ReconcileAnswers(o)
      BY <1>16, <2>1, AskMoves
    <3>2. call'.todo # <<>>
      BY <3>1 DEF ReconcileAnswers
    <3>3. \A p \in registered : orders[p].st \in AtVenue => p \in orphans
      BY <3>1 DEF RestInv
    <3> QED BY <3>1, <3>2, <3>3 DEF RestInv
  <2>2. CASE ReconcileNext
    <3> PICK e : e = Ev("STALE")
      OBVIOUS
    <3>1. call.pc = "reconciling" /\ call.todo = <<e>>
      BY <2>2 DEF ReconcileNext, Tracked
    <3>2. /\ Head(call.todo) = e /\ e \in Event /\ e.to = "STALE"
      BY <3>1 DEF Ev, Event, OrderState
    <3>3. /\ registered' = registered /\ orphans' = orphans /\ call'.oid = call.oid
          /\ call.oid \in Order /\ call'.pc = "reconciling"
          /\ orders' = [orders EXCEPT ![call.oid] = Applied(call.oid, e)]
      BY <2>2, <3>1, <3>2, NextEventMoves
    <3>4. Applied(call.oid, e).st \notin AtVenue
      <4>1. Applied(call.oid, e).st
              = IF CanTransition(orders[call.oid].st, "STALE") THEN "STALE" ELSE orders[call.oid].st
        BY <1>0, <3>2, <3>3, AppliedState
      <4>2. orders[call.oid].st \in AtVenue => CanTransition(orders[call.oid].st, "STALE")
        BY DEF CanTransition, AllowedTransitions
      <4>3. "STALE" \notin AtVenue
        BY DEF AtVenue
      <4> QED BY <4>1, <4>2, <4>3
    <3>5. ASSUME NEW p \in registered', orders'[p].st \in AtVenue PROVE p \in orphans'
      <4>1. p # call.oid
        BY <1>0, <3>3, <3>4, <3>5
      <4>2. p \in registered /\ orders[p].st \in AtVenue
        BY <1>0, <3>3, <3>5, <4>1
      <4> QED BY <3>3, <4>1, <4>2 DEF RestInv
    <3> QED BY <3>3, <3>5 DEF RestInv
  <2>3. CASE FinishReconcile
    <3>1. /\ call.todo = <<>> /\ orphans = {} /\ registered' = registered /\ orders' = orders
          /\ call'.pc # "applying"
      BY <2>3, CallMoves DEF FinishReconcile, StartOutcome
    <3> QED BY <1>1, <3>1 DEF RestInv
  <2> QED BY <1>6, <2>1, <2>2, <2>3 DEF Reconcile
<1>7. ASSUME NEW o \in Order, NEW req \in Qty, NEW where \in {"rejecting", "created"},
             Create(o, req, where)
      PROVE  RestInv'
  <2>1. /\ call.pc = "idle" /\ registered' = registered /\ call'.pc = where
        /\ orders' = [orders EXCEPT ![o] = [st |-> "CREATED", req |-> req, filled |-> 0]]
    BY <1>7, CallMoves DEF Create
  <2> QED BY <1>0, <1>1, <2>1
<1>8. ASSUME NEW o \in Order, NEW req \in Qty, RefuseAtPricing(o, req) \/ DryRun(o, req)
      PROVE  RestInv'
  <2>1. /\ call.pc = "idle" /\ registered' \subseteq registered \cup {o} /\ call' = call
        /\ \E st \in {"VALIDATED", "REJECTED"} :
             orders' = [orders EXCEPT ![o] = [st |-> st, req |-> req, filled |-> 0]]
    BY <1>8 DEF RefuseAtPricing, DryRun
  <2>2. \A st \in {"VALIDATED", "REJECTED"} : st \notin AtVenue
    BY DEF AtVenue
  <2>3. \A p \in registered' : orders'[p].st \notin AtVenue
    BY <1>0, <2>1, <2>2
  <2> QED BY <1>1, <2>1, <2>3
<1>9. ASSUME NEW o \in Order, NEW pending \in {"CANCEL_PENDING", "REPLACE_PENDING"},
             RequestCancel(o, pending)
      PROVE  RestInv'
  <2>1. /\ call.pc = "idle" /\ o \in registered /\ registered' = registered
        /\ call'.pc = "cancelling"
        /\ orders' = orders \/ CanTransition(orders[o].st, pending)
    BY <1>9, CallMoves DEF RequestCancel
  <2>2. ~CanTransition(orders[o].st, pending)
    <3>1. orders[o].st \notin AtVenue
      BY <1>0, <2>1
    <3> QED BY <3>1 DEF CanTransition, AllowedTransitions, AtVenue
  <2> QED BY <1>0, <1>1, <2>1, <2>2
<1>10. CASE CancelAnswered \/ PersistRefusal \/ Validate
  <2>1. /\ call.pc # "reconciling" /\ call'.pc # "applying" /\ registered' = registered
        /\ \/ orders' = orders
           \/ \E to \in {"CANCELLED", "REJECTED", "VALIDATED"} :
                orders' = [orders EXCEPT ![call.oid].st = to]
    <3>1. CASE CancelAnswered
      BY <3>1, CallMoves DEF CancelAnswered
    <3>2. CASE PersistRefusal
      BY <3>2, CallMoves DEF PersistRefusal
    <3>3. CASE Validate
      BY <3>3 DEF Validate, TypeInv, TypeOK, CallType
    <3> QED BY <1>10, <3>1, <3>2, <3>3
  <2>2. \A to \in {"CANCELLED", "REJECTED", "VALIDATED"} : to \notin AtVenue
    BY DEF AtVenue
  <2>3. \A p \in registered' : orders'[p].st \notin AtVenue
    BY <1>0, <2>1, <2>2 DEF OrderType
  <2> QED BY <1>1, <2>1, <2>3
<1>11. CASE Submit
  <2>1. /\ registered' = registered /\ orders' = orders /\ call.pc = "validated"
        /\ call'.pc = "applying" /\ call'.oid = call.oid
        /\ call'.todo \in SubmitAnswers(orders[call.oid].req)
    BY <1>11 DEF Submit, TypeInv, TypeOK, CallType
  <2>2. OffVenue(orders'[call'.oid].st, call'.todo)
    BY <2>1, PaperLeadsOff DEF Tracked
  <2> QED BY <1>0, <2>1, <2>2 DEF RestInv
<1>12. CASE SubmitRaises
  <2>1. /\ registered' = registered /\ call.pc = "validated" /\ call'.pc = "idle"
        /\ orders' = [orders EXCEPT ![call.oid] = Absent]
    BY <1>12, CallMoves DEF SubmitRaises
  <2>2. \A p \in registered' : orders'[p].st \notin AtVenue
    BY <1>0, <2>1 DEF Absent
  <2> QED BY <1>1, <2>1, <2>2
<1>13. CASE Return
  <2>1. /\ registered' = registered \cup {call.oid} /\ orders' = orders
        /\ call.pc = "applying" /\ call'.pc = "idle" /\ call.todo = <<>>
    BY <1>13, CallMoves DEF Return
  <2>2. orders[call.oid].st \notin AtVenue
    BY <2>1 DEF RestInv, OffVenue
  <2> QED BY <1>0, <1>1, <2>1, <2>2
<1>14. CASE ApplyNext
  <2>1. /\ registered' = registered /\ call.pc = "applying" /\ call.oid \in Order
        /\ call'.pc = "applying" /\ call'.oid = call.oid
        /\ \A p \in Order \ {call.oid} : orders'[p] = orders[p]
    <3>1. call.pc = "applying"
      BY <1>14, NextEventMoves
    <3> QED BY <1>0, <1>14, <3>1, NextEventMoves
  <2>2. OffVenue(orders'[call'.oid].st, call'.todo)
    BY <1>14, <2>1, OffVenueKept DEF RestInv
  <2>3. \A p \in registered' : orders'[p].st \notin AtVenue
    BY <1>0, <2>1 DEF Tracked, NewOrderCall
  <2> QED BY <2>1, <2>2, <2>3 DEF RestInv
<1>15. CASE Request
  BY <1>7, <1>8, <1>9, <1>15 DEF Request, RefuseAtGate, Accept
<1> QED BY <1>2, <1>3, <1>4, <1>5, <1>6, <1>10, <1>11, <1>12, <1>13, <1>14, <1>15, <1>16
        DEF Next, EngineStep, Restart

\* Paper orders rest nowhere: whatever fails and whenever the process dies, between
\* calls no order it tracks is at the venue.
THEOREM PaperOrdersRestNowhere ==
  ASSUME Venue = "paper" PROVE Spec => []NothingRestsAtPaperVenue
<1>1. Init => TypeInv /\ Tracked /\ RestInv
  BY InitType, InitTracked, InitRests
<1>2. TypeInv /\ Tracked /\ RestInv /\ [Next]_vars => (TypeInv /\ Tracked /\ RestInv)'
  BY NextType, NextTracked, NextRests
<1>3. RestInv => NothingRestsAtPaperVenue
  BY DEF RestInv, NothingRestsAtPaperVenue
<1> QED BY <1>1, <1>2, <1>3, PTL DEF Spec

-----------------------------------------------------------------------------
(* Quantities: under a faithful adapter the log and memory agree on them *)

\* The log shows an order in the state memory has it in.
Shown ==
  \A o \in Order : RecordsOf(o) # {} /\ orders[o].st # "NONE" => StateInLog(o) = orders[o].st

\* The first record of an order in replay is its first in the file.
OldestFirst ==
  \A o \in Order : RecordsOf(o) # {} =>
    FirstOf(o) \in RecordsOf(o) /\ \A j \in RecordsOf(o) : FirstOf(o) <= j

LEMMA LogShows == LogInv => Shown /\ OldestFirst
<1> SUFFICES ASSUME LogInv PROVE Shown /\ OldestFirst
  OBVIOUS
<1>1. Shown
  <2> SUFFICES ASSUME NEW o \in Order, RecordsOf(o) # {}, orders[o].st # "NONE"
               PROVE  orders[o].st = StateInLog(o)
    BY DEF Shown
  <2> PICK st : st = orders[o].st
    OBVIOUS
  <2>1. NewestIs(o, st)
    BY DEF LogInv, Agree, AgreeOn
  <2> QED BY <2>1, NewestIsLast DEF LogInv, StateInLog
<1>2. OldestFirst
  BY EndsInFileOrder DEF LogInv, OldestFirst
<1> QED BY <1>1, <1>2

\* What an append does to the log of its order and of the others.
LEMMA AppendInLog ==
  ASSUME LogInv, LogInv', NEW o \in Order, NEW to \in OrderState, NEW qty \in Nat,
         NEW req \in Int, NEW ts \in Int, Appends(o, to, qty, req, ts), orders'[o].st = to
  PROVE  /\ RecordsOf(o)' # {}
         /\ LoggedFill(o)' = LoggedFill(o) + qty
         /\ StateInLog(o)' = to
         /\ SizeInLog(o)' = IF RecordsOf(o) = {} THEN req ELSE SizeInLog(o)
         /\ \A p \in Order \ {o} :
              /\ RecordsOf(p)' = RecordsOf(p)
              /\ LoggedFill(p)' = LoggedFill(p)
              /\ RecordsOf(p) # {} => /\ StateInLog(p)' = StateInLog(p)
                                    /\ SizeInLog(p)' = SizeInLog(p)
<1>1. /\ RecordsOf(o)' # {}
      /\ LoggedFill(o)' = LoggedFill(o) + qty
      /\ RecordsOf(o) = {} => SizeInLog(o)' = req
      /\ \A p \in Order \ {o} :
           /\ RecordsOf(p)' = RecordsOf(p)
           /\ LoggedFill(p)' = LoggedFill(p)
           /\ RecordsOf(p) # {} => /\ StateInLog(p)' = StateInLog(p)
                                 /\ SizeInLog(p)' = SizeInLog(p)
  BY AppendEffect DEF LogInv
<1>2. Shown' /\ OldestFirst'
  <2>1. (LogInv => Shown /\ OldestFirst)'
    BY LogShows, PTL
  <2> QED BY <2>1
<1>3. StateInLog(o)' = to
  <2>1. to # "NONE"
    BY DEF OrderState
  <2> QED BY <1>1, <1>2, <2>1 DEF Shown
<1>4. ASSUME RecordsOf(o) # {} PROVE SizeInLog(o)' = SizeInLog(o)
  <2> DEFINE r == [oid |-> o, to |-> to, qty |-> qty, req |-> req, ts |-> ts]
             n == Len(log) + 1
  <2>1. log \in Seq(Record) /\ r \in Record /\ r.oid = o /\ log' = Append(log, r)
    BY DEF LogInv, TypeInv, TypeOK, Record, Appends
  <2>2. /\ RecordsOf(o)' = RecordsOf(o) \cup {n}
        /\ \A i \in DOMAIN log : log'[i] = log[i]
    BY <2>1, AppendRecords
  <2>3. \A i \in RecordsOf(o) : i \in DOMAIN log /\ i \in Int /\ i < n
    BY <2>1, RecordTypes DEF RecordsOf
  <2>4. FirstOf(o) \in RecordsOf(o) /\ \A j \in RecordsOf(o) : FirstOf(o) <= j
    BY <1>4, LogShows DEF OldestFirst
  <2>5. FirstOf(o)' \in RecordsOf(o)' /\ \A j \in RecordsOf(o)' : FirstOf(o)' <= j
    BY <1>1, <1>2 DEF OldestFirst
  <2> PICK i, j : i = FirstOf(o) /\ j = FirstOf(o)'
    OBVIOUS
  <2>6. n \in Int
    BY <2>1, RecordTypes
  <2> HIDE DEF n, r
  <2>7. i = j
    BY <2>2, <2>3, <2>4, <2>5, <2>6
  <2> QED BY <2>2, <2>3, <2>4, <2>7 DEF SizeInLog
<1> QED BY <1>1, <1>3, <1>4

\* A step that records nothing keeps what the log says of sizes, and an order of which
\* memory keeps the quantities.
LEMMA SizesUnlogged ==
  ASSUME log' = log, \A p \in Order : Fits(p)
  PROVE  /\ \A p \in Order : Fits(p)' /\ RecordsOf(p)' = RecordsOf(p)
         /\ \A p \in Order :
              /\ SameSize(p) /\ orders'[p].req = orders[p].req
              /\ orders'[p].filled = orders[p].filled
              => SameSize(p)'
<1>1. \A p \in Order :
        /\ RecordsOf(p)' = RecordsOf(p) /\ LoggedFill(p)' = LoggedFill(p)
        /\ StateInLog(p)' = StateInLog(p) /\ SizeInLog(p)' = SizeInLog(p)
  BY SameLogEffect
<1> QED BY <1>1 DEF Fits, SameSize

\* A move of the FSM is recorded with its fill, which fits the order.
LEMMA SizesAfterMove ==
  ASSUME Faithful, LogInv, LogInv', \A p \in Order : Fits(p),
         NEW o \in Order, NEW to \in OrderState, NEW qty \in Nat, NEW ts \in Int,
         Persist(o, to, qty, 0, ts), RecordsOf(o) # {},
         orders'[o].st = to, orders'[o].req = orders[o].req,
         orders'[o].filled = orders[o].filled + qty,
         \A p \in Order \ {o} : orders'[p] = orders[p],
         FitsSize(SizeInLog(o), LoggedFill(o) + qty, to)
  PROVE  /\ \A p \in Order : Fits(p)' /\ (RecordsOf(p)' = {} <=> RecordsOf(p) = {})
         /\ \A p \in Order : RecordsOf(p) # {} /\ SameSize(p) => SameSize(p)'
<1>1. Appends(o, to, qty, 0, ts)
  BY DEF Faithful, Persist, Appends
<1>2. /\ RecordsOf(o)' # {}
      /\ LoggedFill(o)' = LoggedFill(o) + qty
      /\ StateInLog(o)' = to
      /\ SizeInLog(o)' = SizeInLog(o)
      /\ \A p \in Order \ {o} :
           /\ RecordsOf(p)' = RecordsOf(p)
           /\ LoggedFill(p)' = LoggedFill(p)
           /\ RecordsOf(p) # {} => /\ StateInLog(p)' = StateInLog(p)
                                 /\ SizeInLog(p)' = SizeInLog(p)
  <2>1. 0 \in Int
    OBVIOUS
  <2> QED BY <1>1, <2>1, AppendInLog
<1>3. Fits(o)' /\ (RecordsOf(o)' = {} <=> RecordsOf(o) = {}) /\ (SameSize(o) => SameSize(o)')
  BY <1>2 DEF Fits, SameSize
<1>4. ASSUME NEW p \in Order \ {o}
      PROVE  /\ Fits(p)' /\ (RecordsOf(p)' = {} <=> RecordsOf(p) = {})
             /\ RecordsOf(p) # {} /\ SameSize(p) => SameSize(p)'
  BY <1>2 DEF Fits, SameSize
<1> QED BY <1>3, <1>4

\* An order that is open in memory is not filled in full in the log.
LEMMA OpenIsUnfilled ==
  ASSUME LogInv, NEW o \in Order, Fits(o), RecordsOf(o) # {},
         orders[o].st \notin TerminalStates \cup {"NONE"}
  PROVE  /\ LoggedFill(o) \in Nat /\ SizeInLog(o) \in Int
         /\ IF SizeInLog(o) > 0 THEN LoggedFill(o) < SizeInLog(o) ELSE LoggedFill(o) = 0
<1>1. StateInLog(o) = orders[o].st /\ StateInLog(o) # "FILLED"
  BY LogShows DEF Shown, TerminalStates
<1>2. LoggedFill(o) \in Nat
  BY LoggedFillType DEF LogInv, TypeInv, TypeOK
<1>3. SizeInLog(o) \in Int
  <2>1. FirstOf(o) \in RecordsOf(o)
    BY LogShows DEF OldestFirst
  <2> QED BY <2>1, RecordTypes DEF SizeInLog, RecordsOf, LogInv, TypeInv, TypeOK
<1> QED BY <1>1, <1>2, <1>3 DEF Fits, FitsSize

\* A move that carries no fill and is not FILLED.
LEMMA SizesAfterStateMove ==
  ASSUME Faithful, LogInv, LogInv', \A p \in Order : Fits(p),
         NEW o \in Order, NEW to \in OrderState \ {"FILLED"}, NEW ts \in Int,
         Persist(o, to, 0, 0, ts), RecordsOf(o) # {}, CanTransition(orders[o].st, to),
         orders' = [orders EXCEPT ![o].st = to]
  PROVE  /\ \A p \in Order : Fits(p)' /\ (RecordsOf(p)' = {} <=> RecordsOf(p) = {})
         /\ \A p \in Order : RecordsOf(p) # {} /\ SameSize(p) => SameSize(p)'
         /\ \A p \in Order : orders[p].st = "NONE" => orders'[p].st = "NONE"
<1>1. /\ orders'[o].st = to /\ orders'[o].req = orders[o].req
      /\ orders'[o].filled = orders[o].filled + 0
      /\ \A p \in Order \ {o} : orders'[p] = orders[p]
      /\ to # "NONE"
  BY DEF LogInv, TypeInv, TypeOK, OrderType, OrderState
<1>2. orders[o].st \notin TerminalStates \cup {"NONE"}
  BY DEF CanTransition, AllowedTransitions, TerminalStates, AtVenue
<1>3. /\ LoggedFill(o) \in Nat /\ SizeInLog(o) \in Int
      /\ IF SizeInLog(o) > 0 THEN LoggedFill(o) < SizeInLog(o) ELSE LoggedFill(o) = 0
  BY <1>2, OpenIsUnfilled
<1>4. FitsSize(SizeInLog(o), LoggedFill(o) + 0, to)
  BY <1>3 DEF FitsSize
<1>5. /\ \A p \in Order : Fits(p)' /\ (RecordsOf(p)' = {} <=> RecordsOf(p) = {})
      /\ \A p \in Order : RecordsOf(p) # {} /\ SameSize(p) => SameSize(p)'
  BY <1>1, <1>4, SizesAfterMove
<1> QED BY <1>1, <1>2, <1>5

\* The fills of a prefix are no more than all the fills.
LEMMA PrefixTotal ==
  ASSUME NEW fills \in Seq(Nat), NEW k \in 1..Len(fills)
  PROVE  /\ SubSeq(fills, 1, k) \in Seq(Nat) /\ SubSeq(fills, 1, k - 1) \in Seq(Nat)
         /\ fills[k] \in Nat
         /\ Total(SubSeq(fills, 1, k)) = Total(SubSeq(fills, 1, k - 1)) + fills[k]
         /\ Total(SubSeq(fills, 1, k)) <= Total(fills)
<1>1. Len(fills) \in Nat /\ DOMAIN fills = 1..Len(fills) /\ \A i \in 1..Len(fills) : fills[i] \in Nat
  BY LenProperties, ElementOfSeq
<1>2. ASSUME NEW m \in 0..Len(fills)
      PROVE  /\ SubSeq(fills, 1, m) \in Seq(Nat)
             /\ Len(SubSeq(fills, 1, m)) = m
             /\ \A i \in 1..m : SubSeq(fills, 1, m)[i] = fills[i]
  <2>1. 1 \in 1..(Len(fills) + 1) /\ m \in (1 - 1)..Len(fills)
    BY <1>1
  <2>2. /\ SubSeq(fills, 1, m) \in Seq(Nat)
        /\ Len(SubSeq(fills, 1, m)) = m - 1 + 1
        /\ \A i \in 1..(m - 1 + 1) : SubSeq(fills, 1, m)[i] = fills[1 + i - 1]
    BY <1>1, <2>1, SubSeqProperties
  <2>3. m - 1 + 1 = m /\ \A i \in 1..m : 1 + i - 1 = i
    BY <1>1
  <2> QED BY <2>2, <2>3
<1>3. k \in 0..Len(fills) /\ k - 1 \in 0..Len(fills)
  BY <1>1
<1>4. fills[k] \in Nat
  BY <1>1
<1>5. Total(SubSeq(fills, 1, k)) = Total(SubSeq(fills, 1, k - 1)) + fills[k]
  <2>1. SubSeq(fills, 1, k) = Append(SubSeq(fills, 1, k - 1), fills[k])
    BY <1>1, SubSeqRecursiveSecond
  <2> QED BY <1>2, <1>3, <1>4, <2>1, TotalOfAppend
<1>6. Total(SubSeq(fills, 1, k)) <= Total(fills)
  <2> DEFINE some == SubSeq(fills, 1, k)
  <2>1. some \in Seq(Nat) /\ Len(some) = k /\ \A i \in 1..k : some[i] = fills[i]
    BY <1>2, <1>3
  <2> HIDE DEF some
  <2>2. DOMAIN some = 1..k
    BY <2>1, LenProperties
  <2>3. UnitsOf(some) \subseteq UnitsOf(fills)
    <3> SUFFICES ASSUME NEW x \in UnitsOf(some) PROVE x \in UnitsOf(fills)
      OBVIOUS
    <3>1. PICK i \in 1..k : x \in {i} \X (1..some[i])
      BY <2>2 DEF UnitsOf
    <3>2. i \in DOMAIN fills /\ x \in {i} \X (1..fills[i])
      BY <1>1, <2>1, <3>1
    <3> QED BY <3>2 DEF UnitsOf
  <2>4. /\ Total(some) = Cardinality(UnitsOf(some))
        /\ Total(fills) = Cardinality(UnitsOf(fills)) /\ IsFiniteSet(UnitsOf(fills))
    BY <2>1, TotalType, UnitsFinite
  <2>5. Total(some) <= Total(fills)
    BY <2>3, <2>4, FS_Subset
  <2> QED BY <2>5 DEF some
<1> QED BY <1>2, <1>3, <1>4, <1>5, <1>6

\* What there is to report of a quantity keeps within it.
LEMMA ReportWithin ==
  ASSUME NEW quantity \in Nat,
         NEW report \in FillReports(quantity, {<<>>, <<Ev("CANCELLED")>>})
  PROVE  Within(quantity, report)
<1>1. PICK fills \in Seq(Nat) : ReportOf(quantity, fills, report)
  BY ReportShape
<1>2. /\ Total(fills) \in Nat /\ Total(fills) < quantity
      /\ Len(fills) \in Nat /\ Len(report) \in {Len(fills), Len(fills) + 1}
      /\ \A k \in 1..Len(fills) : report[k] = Fill("PARTIALLY_FILLED", fills[k])
      /\ Len(report) = Len(fills) + 1 =>
           \/ report[Len(report)] = Ev("CANCELLED")
           \/ report[Len(report)] = Fill("FILLED", quantity - Total(fills))
  BY <1>1, TotalType, LenProperties DEF ReportOf
<1>3. /\ \A to : Ev(to).to = to /\ Ev(to).qty = 0
      /\ \A to, q : Fill(to, q).to = to /\ Fill(to, q).qty = q
      /\ "PARTIALLY_FILLED" \in FillKinds /\ "FILLED" \in FillKinds
  BY DEF Ev, Fill, FillKinds
<1> DEFINE n == Len(fills)
           sum(k) == Total(SubSeq(fills, 1, k))
           rest == quantity - Total(fills)
           after == IF Len(report) = n + 1 /\ report[n + 1].to = "FILLED" THEN 0 ELSE rest
           open == [k \in 0..Len(report) |-> IF k <= n THEN quantity - sum(k) ELSE after]
<1>4. sum(0) = 0 /\ sum(n) = Total(fills)
  <2>1. SubSeq(fills, 1, 0) = <<>>
    BY SubSeqEmpty
  <2>2. SubSeq(fills, 1, n) = fills
    BY SubSeqFull
  <2> QED BY <2>1, <2>2, TotalOfNone
<1>5. \A k \in 1..n : /\ sum(k) \in Nat /\ sum(k - 1) \in Nat /\ fills[k] \in Nat
                      /\ sum(k) = sum(k - 1) + fills[k] /\ sum(k) <= Total(fills)
  BY PrefixTotal, TotalType
<1> HIDE DEF sum
<1>6. rest \in Nat /\ rest > 0 /\ after \in Nat
  BY <1>2
<1>7. \A k \in 0..n : quantity - sum(k) \in Nat /\ quantity - sum(k) > 0
  <2> SUFFICES ASSUME NEW k \in 0..n PROVE quantity - sum(k) \in Nat /\ quantity - sum(k) > 0
    OBVIOUS
  <2>1. CASE k = 0
    BY <1>2, <1>4, <2>1
  <2>2. CASE k \in 1..n
    <3>1. sum(k) \in Nat /\ sum(k) <= Total(fills)
      BY <1>5, <2>2
    <3> QED BY <1>2, <3>1
  <2> QED BY <1>2, <2>1, <2>2
<1> HIDE DEF after
<1>8. open \in [0..Len(report) -> Nat] /\ open[0] = quantity
  <2>1. \A k \in 0..Len(report) : open[k] \in Nat
    BY <1>2, <1>6, <1>7
  <2>2. open[0] = quantity
    BY <1>2, <1>4
  <2> QED BY <2>1, <2>2
<1>9. ASSUME NEW k \in 1..Len(report)
      PROVE  /\ open[k] = open[k - 1] - report[k].qty
             /\ report[k].to = "FILLED" => open[k] = 0 /\ report[k].qty > 0
             /\ report[k].to = "PARTIALLY_FILLED" => open[k] > 0
             /\ report[k].to \notin FillKinds => report[k].qty = 0
  <2>1. CASE k \in 1..n
    <3>1. open[k] = quantity - sum(k) /\ open[k - 1] = quantity - sum(k - 1)
      BY <1>2, <2>1
    <3>2. report[k].to = "PARTIALLY_FILLED" /\ report[k].qty = fills[k]
      BY <1>2, <1>3, <2>1
    <3> HIDE DEF open
    <3>3. open[k] = open[k - 1] - report[k].qty /\ open[k] > 0
      <4> PICK a \in Nat, b \in Nat, c \in Nat : a = sum(k) /\ b = sum(k - 1) /\ c = fills[k]
        BY <1>5, <2>1
      <4>1. a = b + c
        BY <1>5, <2>1
      <4>2. open[k] > 0
        <5>1. k \in 0..n
          BY <1>2, <2>1
        <5> QED BY <1>7, <3>1, <5>1
      <4> QED BY <3>1, <3>2, <4>1, <4>2
    <3> QED BY <1>3, <3>2, <3>3
  <2>2. CASE k \notin 1..n
    <3>1. k = n + 1 /\ Len(report) = n + 1
      BY <1>2, <2>2
    <3>2. open[k] = after /\ open[k - 1] = rest
      BY <1>2, <1>4, <3>1
    <3> HIDE DEF open
    <3>3. CASE report[k] = Ev("CANCELLED")
      <4>1. after = rest /\ report[k].to = "CANCELLED" /\ report[k].qty = 0
        BY <1>3, <3>1, <3>3 DEF after
      <4> HIDE DEF rest
      <4> QED BY <1>6, <3>2, <4>1
    <3>4. CASE report[k] = Fill("FILLED", rest)
      <4>1. report[k].to = "FILLED" /\ report[k].qty = rest
        BY <1>3, <3>4
      <4>2. after = 0
        BY <3>1, <4>1 DEF after
      <4> HIDE DEF rest
      <4> QED BY <1>3, <1>6, <3>2, <4>1, <4>2
    <3> QED BY <1>2, <3>1, <3>3, <3>4
  <2> QED BY <2>1, <2>2
<1> HIDE DEF open
<1>10. WithinBy(open, quantity, report)
  BY <1>8, <1>9 DEF WithinBy
<1> QED BY <1>8, <1>10 DEF Within

\* A STALE keeps within any order, and so does nothing at all.
LEMMA StaleWithin ==
  ASSUME NEW left \in Nat
  PROVE  Within(left, <<Ev("STALE")>>) /\ Within(left, <<>>)
<1> DEFINE open == [k \in 0..1 |-> left]
           open0 == [k \in 0..0 |-> left]
<1>1. /\ Len(<<Ev("STALE")>>) = 1 /\ Len(<<>>) = 0
      /\ <<Ev("STALE")>>[1].to = "STALE" /\ <<Ev("STALE")>>[1].qty = 0
  BY DEF Ev
<1>2. /\ open \in [0..1 -> Nat] /\ open[0] = left /\ open[1] = left
      /\ open0 \in [0..0 -> Nat] /\ open0[0] = left /\ left - 0 = left
  OBVIOUS
<1> HIDE DEF open, open0
<1>3. WithinBy(open, left, <<Ev("STALE")>>) /\ WithinBy(open0, left, <<>>)
  BY <1>1, <1>2 DEF WithinBy
<1> QED BY <1>1, <1>2, <1>3 DEF Within

\* What an adapter that keeps its contract, or the paper venue, answers for an order of
\* size req stays within that size.
LEMMA SubmitAnswersWithin ==
  ASSUME Faithful, NEW req \in Nat \ {0}, NEW answer \in SubmitAnswers(req)
  PROVE  Within(req, answer)
<1>1. /\ \A to : Ev(to).to = to /\ Ev(to).qty = 0
      /\ \A to, q : Fill(to, q).to = to /\ Fill(to, q).qty = q
      /\ FillKinds = {"PARTIALLY_FILLED", "FILLED"}
  BY DEF Ev, Fill, FillKinds
<1>2. CASE answer = <<Ev("REJECTED")>>
  <2> DEFINE open == [k \in 0..1 |-> req]
  <2>1. Len(answer) = 1 /\ answer[1].to = "REJECTED" /\ answer[1].qty = 0
    BY <1>1, <1>2
  <2>2. open \in [0..1 -> Nat] /\ open[0] = req /\ open[1] = req - 0
    OBVIOUS
  <2> HIDE DEF open
  <2>3. WithinBy(open, req, answer)
    BY <2>1, <2>2 DEF WithinBy
  <2> QED BY <2>1, <2>2, <2>3 DEF Within
<1>3. CASE answer = <<Ev("SUBMITTED"), Fill("FILLED", req)>>
  <2> DEFINE open == [k \in 0..2 |-> IF k = 2 THEN 0 ELSE req]
  <2>1. /\ Len(answer) = 2 /\ answer[1].to = "SUBMITTED" /\ answer[1].qty = 0
        /\ answer[2].to = "FILLED" /\ answer[2].qty = req
    BY <1>1, <1>3
  <2>2. open \in [0..2 -> Nat] /\ open[0] = req /\ open[1] = req - 0 /\ open[2] = 0 /\ open[1] = req
    OBVIOUS
  <2> HIDE DEF open
  <2>3. WithinBy(open, req, answer)
    BY <1>1, <2>1, <2>2 DEF WithinBy
  <2> QED BY <2>1, <2>2, <2>3 DEF Within
<1>4. ASSUME NEW d \in Nat, d < req,
             answer = <<Ev("SUBMITTED"), Fill("PARTIALLY_FILLED", d), Ev("CANCELLED")>>
      PROVE  Within(req, answer)
  <2> DEFINE open == [k \in 0..3 |-> IF k < 2 THEN req ELSE req - d]
  <2>1. /\ Len(answer) = 3 /\ answer[1].to = "SUBMITTED" /\ answer[1].qty = 0
        /\ answer[2].to = "PARTIALLY_FILLED" /\ answer[2].qty = d
        /\ answer[3].to = "CANCELLED" /\ answer[3].qty = 0
    BY <1>1, <1>4
  <2>2. /\ open \in [0..3 -> Nat] /\ open[0] = req /\ open[1] = req
        /\ open[2] = req - d /\ open[3] = req - d /\ req - d > 0
    BY <1>4
  <2> HIDE DEF open
  <2>3. WithinBy(open, req, answer)
    BY <1>1, <2>1, <2>2 DEF WithinBy
  <2> QED BY <2>1, <2>2, <2>3 DEF Within
<1>5. ASSUME NEW report \in FillReports(req, {<<>>, <<Ev("CANCELLED")>>}),
             answer = <<Ev("SUBMITTED")>> \o report
      PROVE  Within(req, answer)
  <2>1. Within(req, report) /\ report \in Seq(Event)
    BY ReportWithin, ReportShape DEF ReportOf
  <2>2. /\ Len(report) \in Nat /\ Len(answer) = Len(report) + 1
        /\ answer[1] = Ev("SUBMITTED")
        /\ \A k \in 1..Len(report) : answer[k + 1] = report[k]
    BY <1>5, <2>1, SubmittedThen
  <2> PICK n \in Nat : n = Len(report)
    BY <2>2
  <2>3. PICK open \in [0..n -> Nat] : WithinBy(open, req, report)
    BY <2>1 DEF Within
  <2> DEFINE shifted == [k \in 0..(n + 1) |-> IF k = 0 THEN req ELSE open[k - 1]]
  <2>4. /\ shifted \in [0..(n + 1) -> Nat] /\ shifted[0] = req /\ shifted[1] = open[0]
        /\ \A k \in 1..(n + 1) : shifted[k] = open[k - 1]
    <3>1. \A k \in 1..(n + 1) : k - 1 \in 0..n
      OBVIOUS
    <3> QED BY <3>1
  <2> HIDE DEF shifted
  <2>5. open[0] = req
    BY <2>3 DEF WithinBy
  <2>6. ASSUME NEW k \in 1..(n + 1)
        PROVE  /\ shifted[k] = shifted[k - 1] - answer[k].qty
               /\ answer[k].to = "FILLED" => shifted[k] = 0 /\ answer[k].qty > 0
               /\ answer[k].to = "PARTIALLY_FILLED" => shifted[k] > 0
               /\ answer[k].to \notin FillKinds => answer[k].qty = 0
    <3>1. CASE k = 1
      <4>1. answer[1].to = "SUBMITTED" /\ answer[1].qty = 0
        BY <1>1, <2>2
      <4> QED BY <2>4, <2>5, <3>1, <4>1
    <3>2. CASE k # 1
      <4>1. k - 1 \in 1..n /\ (k - 1) + 1 = k /\ k - 1 \in 1..(n + 1)
        BY <3>2
      <4>2. /\ answer[k] = report[k - 1]
            /\ shifted[k] = open[k - 1] /\ shifted[k - 1] = open[(k - 1) - 1]
        BY <2>2, <2>4, <4>1
      <4> QED BY <2>3, <4>1, <4>2 DEF WithinBy
    <3> QED BY <3>1, <3>2
  <2>7. WithinBy(shifted, req, answer)
    BY <2>2, <2>4, <2>6 DEF WithinBy
  <2> QED BY <2>2, <2>4, <2>7 DEF Within
<1>6. CASE Venue = "paper"
  <2>1. \/ answer = <<Ev("REJECTED")>>
        \/ answer = <<Ev("SUBMITTED"), Fill("FILLED", req)>>
        \/ \E d \in Depth :
             /\ d < req
             /\ answer = <<Ev("SUBMITTED"), Fill("PARTIALLY_FILLED", d), Ev("CANCELLED")>>
    BY <1>6 DEF SubmitAnswers, PaperSubmit
  <2> QED BY <1>2, <1>3, <1>4, <2>1, QtyAssumption
<1>7. CASE Venue = "contract"
  <2>1. \/ answer = <<Ev("REJECTED")>>
        \/ \E report \in FillReports(req, {<<>>, <<Ev("CANCELLED")>>}) :
             answer = <<Ev("SUBMITTED")>> \o report
    BY <1>7 DEF SubmitAnswers, ContractSubmit
  <2> QED BY <1>2, <1>5, <2>1
<1> QED BY <1>6, <1>7 DEF Faithful

\* So does what either answers for an orphan, of what is left of it.
LEMMA ReconcileAnswersWithin ==
  ASSUME Faithful, TypeOK, NEW o \in Order, NEW answer \in ReconcileAnswers(o)
  PROVE  Within(Remaining(o), answer)
<1>1. Remaining(o) \in Nat
  BY DEF TypeOK, OrderType, Remaining
<1>2. CASE Venue = "paper"
  BY <1>1, <1>2, StaleWithin DEF ReconcileAnswers
<1>3. CASE Venue = "contract"
  <2>1. \/ answer = <<>> \/ answer = <<Ev("STALE")>>
        \/ answer \in FillReports(Remaining(o), {<<>>, <<Ev("CANCELLED")>>})
    BY <1>3 DEF ReconcileAnswers, ContractReconcile
  <2> QED BY <1>1, <2>1, StaleWithin, ReportWithin
<1> QED BY <1>2, <1>3 DEF Faithful

\* The head of what is within the order can be applied, and the rest is within what
\* that leaves.
LEMMA WithinRest ==
  ASSUME NEW todo \in Seq(Event), todo # <<>>, NEW left \in Nat, Within(left, todo)
  PROVE  /\ Head(todo).qty <= left
         /\ left > 0 => (Head(todo).to = "FILLED" <=> Head(todo).qty = left)
         /\ left = 0 => Head(todo).to # "FILLED"
         /\ left - Head(todo).qty \in Nat
         /\ Within(left - Head(todo).qty, Tail(todo))
<1> DEFINE e == Head(todo)
           rest == Tail(todo)
<1>1. /\ Len(todo) \in Nat \ {0} /\ e = todo[1] /\ e \in Event /\ e.qty \in Nat
      /\ rest \in Seq(Event) /\ Len(rest) = Len(todo) - 1
      /\ \A k \in 1..Len(rest) : rest[k] = todo[k + 1] /\ k + 1 \in 1..Len(todo)
  BY RestOfTodo DEF Event
<1> HIDE DEF e, rest
<1> PICK n \in Nat : n = Len(rest)
  BY <1>1
<1>2. PICK open \in [0..(n + 1) -> Nat] : WithinBy(open, left, todo)
  <2>1. n + 1 = Len(todo)
    BY <1>1
  <2> QED BY <2>1 DEF Within
<1>3. /\ open[0] = left /\ open[1] = left - e.qty /\ open[1] \in Nat
      /\ e.to = "FILLED" => open[1] = 0 /\ e.qty > 0
      /\ e.to = "PARTIALLY_FILLED" => open[1] > 0
      /\ e.to \notin FillKinds => e.qty = 0
  <2>1. 1 \in 1..Len(todo) /\ 1 - 1 = 0 /\ 1 \in 0..(n + 1)
    BY <1>1
  <2> QED BY <1>1, <1>2, <2>1 DEF WithinBy
<1>4. /\ e.qty <= left /\ left - e.qty \in Nat
      /\ left > 0 => (e.to = "FILLED" <=> e.qty = left)
      /\ left = 0 => e.to # "FILLED"
  BY <1>1, <1>3 DEF FillKinds
<1> DEFINE shifted == [k \in 0..n |-> open[k + 1]]
<1>5. /\ shifted \in [0..n -> Nat] /\ shifted[0] = left - e.qty
      /\ \A k \in 0..n : shifted[k] = open[k + 1]
  <2>1. \A k \in 0..n : k + 1 \in 0..(n + 1)
    OBVIOUS
  <2> QED BY <1>3, <2>1
<1> HIDE DEF shifted
<1>6. ASSUME NEW k \in 1..n
      PROVE  /\ shifted[k] = shifted[k - 1] - rest[k].qty
             /\ rest[k].to = "FILLED" => shifted[k] = 0 /\ rest[k].qty > 0
             /\ rest[k].to = "PARTIALLY_FILLED" => shifted[k] > 0
             /\ rest[k].to \notin FillKinds => rest[k].qty = 0
  <2>1. k \in 0..n /\ k - 1 \in 0..n /\ (k - 1) + 1 = k /\ (k + 1) - 1 = k
    OBVIOUS
  <2>2. /\ k + 1 \in 1..Len(todo) /\ rest[k] = todo[k + 1]
        /\ shifted[k] = open[k + 1] /\ shifted[k - 1] = open[k]
    BY <1>1, <1>5, <2>1
  <2> QED BY <1>2, <2>1, <2>2 DEF WithinBy
<1>7. WithinBy(shifted, left - e.qty, rest)
  BY <1>5, <1>6 DEF WithinBy
<1> QED BY <1>4, <1>5, <1>7 DEF e, rest, Within

\* A step that records nothing and forgets orders, or leaves their quantities alone,
\* but for those the log does not know, and leaves no call open that is not open before.
LEMMA SizesQuiet ==
  ASSUME SizeInv, log' = log,
         \A p \in Order : \/ orders'[p].st = "NONE"
                          \/ RecordsOf(p) = {}
                          \/ /\ orders'[p].req = orders[p].req
                             /\ orders'[p].filled = orders[p].filled
                             /\ orders[p].st # "NONE",
         call'.pc \notin NewOrderCall \cup {"reconciling"}
  PROVE  SizeInv'
<1>1. /\ \A p \in Order : Fits(p)' /\ RecordsOf(p)' = RecordsOf(p)
      /\ \A p \in Order :
           /\ SameSize(p) /\ orders'[p].req = orders[p].req
           /\ orders'[p].filled = orders[p].filled
           => SameSize(p)'
  BY SizesUnlogged DEF SizeInv
<1>2. /\ call'.pc \notin {"rejecting", "created", "validated"}
      /\ call'.pc \notin {"applying", "reconciling"} /\ call'.pc \notin NewOrderCall
  BY DEF NewOrderCall
<1>3. ASSUME Venue = "paper", NEW p \in Order, RecordsOf(p)' # {}, orders'[p].st # "NONE"
      PROVE  SameSize(p)'
  <2>1. SameSize(p)
    BY <1>1, <1>3 DEF SizeInv
  <2> QED BY <1>1, <1>3, <2>1
<1> QED BY <1>1, <1>2, <1>3 DEF SizeInv

\* An order is recorded as created, with its size and no fill.
LEMMA SizesAfterCreate ==
  ASSUME Faithful, LogInv, LogInv', SizeInv, NEW o \in Order, NEW req \in Qty,
         NEW where \in {"rejecting", "created"}, Create(o, req, where)
  PROVE  SizeInv'
<1>1. /\ RecordsOf(o) = {} /\ call'.pc = where /\ call'.oid = o
      /\ orders' = [orders EXCEPT ![o] = [st |-> "CREATED", req |-> req, filled |-> 0]]
      /\ \E s \in Skew : Persist(o, "CREATED", 0, req, clock + s)
  BY CallMoves DEF Create, Fresh
<1> PICK s \in Skew : Persist(o, "CREATED", 0, req, clock + s)
  BY <1>1
<1>2. /\ "CREATED" \in OrderState /\ req \in Int /\ 0 \in Nat /\ clock + s \in Int
  BY ClockAssumption, QtyAssumption DEF OrderState, LogInv, TypeInv, TypeOK
<1>3. /\ orders'[o] = [st |-> "CREATED", req |-> req, filled |-> 0]
      /\ \A p \in Order \ {o} : orders'[p] = orders[p]
  BY <1>1 DEF LogInv, TypeInv, TypeOK
<1>4. Appends(o, "CREATED", 0, req, clock + s)
  BY DEF Faithful, Persist, Appends
<1>5. /\ RecordsOf(o)' # {}
      /\ LoggedFill(o)' = LoggedFill(o) + 0
      /\ StateInLog(o)' = "CREATED"
      /\ SizeInLog(o)' = req
      /\ \A p \in Order \ {o} :
           /\ RecordsOf(p)' = RecordsOf(p)
           /\ LoggedFill(p)' = LoggedFill(p)
           /\ RecordsOf(p) # {} => /\ StateInLog(p)' = StateInLog(p)
                                 /\ SizeInLog(p)' = SizeInLog(p)
  <2>1. orders'[o].st = "CREATED"
    BY <1>3
  <2> QED BY <1>1, <1>2, <1>4, <2>1, AppendInLog
<1>6. LoggedFill(o)' = 0
  <2>1. UNION {{i} \X (1..log[i].qty) : i \in RecordsOf(o)} = {}
    BY <1>1
  <2>2. LoggedFill(o) = 0
    BY <2>1, FS_EmptySet DEF LoggedFill
  <2> QED BY <1>5, <2>2
<1>7. Fits(o)' /\ SameSize(o)' /\ orders'[o].filled = 0
  <2>1. FitsSize(req, 0, "CREATED")
    BY <1>2 DEF FitsSize
  <2> QED BY <1>2, <1>3, <1>5, <1>6, <2>1 DEF Fits, SameSize
<1>8. \A p \in Order \ {o} : Fits(p)' /\ (RecordsOf(p) # {} /\ SameSize(p) => SameSize(p)')
  BY <1>3, <1>5 DEF Fits, SameSize, SizeInv
<1>9. ASSUME Venue = "paper", NEW p \in Order, RecordsOf(p)' # {}, orders'[p].st # "NONE"
      PROVE  SameSize(p)'
  <2>1. CASE p = o
    BY <1>7, <2>1
  <2>2. CASE p # o
    <3>1. SameSize(p) /\ RecordsOf(p) # {}
      BY <1>3, <1>5, <1>9, <2>2 DEF SizeInv
    <3> QED BY <1>8, <2>2, <3>1
  <2> QED BY <2>1, <2>2
<1>10. SameSize(call.oid)' /\ orders'[call'.oid].filled = 0
  BY <1>1, <1>7 DEF SameSize, SizeInLog, LoggedFill, FirstOf, RecordsOf, Before
<1>11. call'.pc \notin {"applying", "reconciling"}
  BY <1>1
<1> QED BY <1>1, <1>7, <1>8, <1>9, <1>10, <1>11 DEF SizeInv

\* A recorded move without a fill, at the end of which no order is being created or
\* reconciled.
LEMMA SizesAfterLastMove ==
  ASSUME Faithful, LogInv, LogInv', SizeInv, NEW o \in Order,
         NEW to \in OrderState \ {"FILLED"}, NEW ts \in Int,
         Persist(o, to, 0, 0, ts), RecordsOf(o) # {}, CanTransition(orders[o].st, to),
         orders' = [orders EXCEPT ![o].st = to],
         call'.pc \notin NewOrderCall \cup {"reconciling"}
  PROVE  SizeInv'
<1>1. /\ \A p \in Order : Fits(p)' /\ (RecordsOf(p)' = {} <=> RecordsOf(p) = {})
      /\ \A p \in Order : RecordsOf(p) # {} /\ SameSize(p) => SameSize(p)'
      /\ \A p \in Order : orders[p].st = "NONE" => orders'[p].st = "NONE"
  BY SizesAfterStateMove DEF SizeInv
<1>2. /\ call'.pc \notin {"rejecting", "created", "validated"}
      /\ call'.pc \notin {"applying", "reconciling"} /\ call'.pc \notin NewOrderCall
  BY DEF NewOrderCall
<1>3. ASSUME Venue = "paper", NEW p \in Order, RecordsOf(p)' # {}, orders'[p].st # "NONE"
      PROVE  SameSize(p)'
  <2>1. SameSize(p) /\ RecordsOf(p) # {}
    BY <1>1, <1>3 DEF SizeInv
  <2> QED BY <1>1, <2>1
<1> QED BY <1>1, <1>2, <1>3 DEF SizeInv

\* The order of a call moves on to its refusal or its validation.
LEMMA SizesAfterRecord ==
  ASSUME Faithful, LogInv, LogInv', SizeInv, PersistRefusal \/ Validate
  PROVE  SizeInv'
<1>1. /\ call.oid \in Order /\ orders[call.oid].st = "CREATED" /\ RecordsOf(call.oid) # {}
      /\ call.ts \in Int /\ call \in CallType /\ orders \in [Order -> OrderType]
      /\ call.pc \in {"rejecting", "created"}
  BY DEF PersistRefusal, Validate, LogInv, TypeInv, TypeOK, CallHasOrder, Busy, InCall, CallType
<1>2. \A to \in {"REJECTED", "VALIDATED"} :
        to \in OrderState \ {"FILLED"} /\ CanTransition(orders[call.oid].st, to)
  BY <1>1 DEF OrderState, CanTransition, AllowedTransitions
<1>3. CASE PersistRefusal
  <2>1. /\ orders' = [orders EXCEPT ![call.oid].st = "REJECTED"]
        /\ Persist(call.oid, "REJECTED", 0, 0, call.ts)
        /\ call'.pc \notin NewOrderCall \cup {"reconciling"}
    BY <1>3, CallMoves DEF PersistRefusal
  <2> QED BY <1>1, <1>2, <2>1, SizesAfterLastMove
<1>4. CASE Validate
  <2> PICK o \in Order : o = call.oid
    BY <1>1
  <2>1. /\ orders' = [orders EXCEPT ![o].st = "VALIDATED"]
        /\ Persist(o, "VALIDATED", 0, 0, call.ts)
        /\ call'.pc = "validated" /\ call'.oid = o
    BY <1>1, <1>4 DEF Validate, CallType
  <2>2. /\ \A p \in Order : Fits(p)' /\ (RecordsOf(p)' = {} <=> RecordsOf(p) = {})
        /\ \A p \in Order : RecordsOf(p) # {} /\ SameSize(p) => SameSize(p)'
        /\ \A p \in Order : orders[p].st = "NONE" => orders'[p].st = "NONE"
    BY <1>1, <1>2, <2>1, SizesAfterStateMove DEF SizeInv
  <2>3. SameSize(o)' /\ orders'[o].filled = 0
    <3>1. SameSize(o) /\ orders[o].filled = 0 /\ orders'[o].filled = orders[o].filled
      BY <1>1, <2>1 DEF SizeInv, NewOrderCall, OrderType
    <3> QED BY <1>1, <2>2, <3>1
  <2>4. SameSize(call.oid)' /\ orders'[call'.oid].filled = 0
    BY <2>1, <2>3 DEF SameSize, SizeInLog, LoggedFill, FirstOf, RecordsOf, Before
  <2>5. ASSUME Venue = "paper", NEW p \in Order, RecordsOf(p)' # {}, orders'[p].st # "NONE"
        PROVE  SameSize(p)'
    <3>1. SameSize(p) /\ RecordsOf(p) # {}
      BY <2>2, <2>5 DEF SizeInv
    <3> QED BY <2>2, <3>1
  <2> QED BY <2>1, <2>2, <2>4, <2>5 DEF SizeInv
<1> QED BY <1>3, <1>4

\* AnswerFits of the next state, said of the order the call is left with.
LEMMA AnswerFitsNext ==
  ASSUME NEW o, call'.oid = o, RecordsOf(o)' # {}, SameSize(o)', Within(Remaining(o)', call'.todo)
  PROVE  AnswerFits'
BY DEF AnswerFits, SameSize, Remaining, SizeInLog, LoggedFill, FirstOf, RecordsOf, Before

\* The venue answers within what the order is for.
LEMMA SizesAfterSubmit ==
  ASSUME Faithful, LogInv, SizeInv, Submit
  PROVE  SizeInv'
<1>1. /\ call.oid \in Order /\ RecordsOf(call.oid) # {} /\ orders[call.oid].req > 0
      /\ orders \in [Order -> OrderType] /\ call.pc = "validated" /\ call \in CallType
      /\ SameSize(call.oid) /\ orders[call.oid].filled = 0
  BY DEF Submit, LogInv, TypeInv, TypeOK, CallHasOrder, Busy, InCall, SizeInv, NewOrderCall
<1>2. /\ orders' = orders /\ log' = log /\ call'.pc = "applying" /\ call'.oid = call.oid
      /\ call'.todo \in SubmitAnswers(orders[call.oid].req)
  BY <1>1 DEF Submit, CallType
<1> PICK o \in Order : o = call.oid
  BY <1>1
<1>3. /\ orders[o].req \in Nat \ {0} /\ Remaining(o)' = orders[o].req
  BY <1>1, <1>2 DEF OrderType, Remaining
<1>4. Within(Remaining(o)', call'.todo)
  BY <1>2, <1>3, SubmitAnswersWithin
<1>5. /\ \A p \in Order : Fits(p)' /\ RecordsOf(p)' = RecordsOf(p)
      /\ \A p \in Order : SameSize(p) => SameSize(p)'
  BY <1>2, SizesUnlogged DEF SizeInv
<1>6. AnswerFits'
  <2>1. SameSize(o)' /\ RecordsOf(o)' # {}
    BY <1>1, <1>5
  <2> QED BY <1>2, <1>4, <2>1, AnswerFitsNext
<1>7. Venue = "paper" =>
        \A p \in Order : RecordsOf(p)' # {} /\ orders'[p].st # "NONE" => SameSize(p)'
  BY <1>2, <1>5 DEF SizeInv
<1>8. SameSize(call.oid)'
  BY <1>6 DEF AnswerFits
<1> QED BY <1>2, <1>5, <1>6, <1>7, <1>8 DEF SizeInv

\* An event the order takes fits it, and the rest fits what is left.
LEMMA EventFits ==
  ASSUME LogInv, NEW o \in Order, Fits(o), RecordsOf(o) # {}, SameSize(o),
         call.todo \in Seq(Event), call.todo # <<>>, Within(Remaining(o), call.todo),
         NEW to \in OrderState, NEW qty \in Nat,
         to = Head(call.todo).to, qty = Head(call.todo).qty, CanTransition(orders[o].st, to),
         orders'[o].req = orders[o].req, orders'[o].filled = orders[o].filled + qty
  PROVE  /\ FitsSize(SizeInLog(o), LoggedFill(o) + qty, to)
         /\ Within(Remaining(o)', Tail(call.todo))
<1>1. /\ LoggedFill(o) \in Nat /\ SizeInLog(o) \in Int
      /\ IF SizeInLog(o) > 0 THEN LoggedFill(o) < SizeInLog(o) ELSE LoggedFill(o) = 0
  <2>1. orders[o].st \notin TerminalStates \cup {"NONE"}
    BY DEF CanTransition, AllowedTransitions, TerminalStates, AtVenue
  <2> QED BY <2>1, OpenIsUnfilled
<1> PICK left \in Nat : left = Remaining(o)
  BY DEF LogInv, TypeInv, TypeOK, OrderType, Remaining
<1>2. /\ qty <= left /\ (left > 0 => (to = "FILLED" <=> qty = left))
      /\ left = 0 => to # "FILLED"
      /\ Within(left - qty, Tail(call.todo))
  <2>1. Within(left, call.todo)
    OBVIOUS
  <2> QED BY <2>1, WithinRest
<1> PICK fill \in Nat, size \in Int : fill = LoggedFill(o) /\ size = SizeInLog(o)
  BY <1>1
<1>3. orders[o].req = size /\ orders[o].filled = fill
  BY DEF SameSize
<1>4. left = IF size > 0 THEN size - fill ELSE 0
  BY <1>1, <1>3 DEF Remaining
<1>5. FitsSize(size, fill + qty, to)
  BY <1>1, <1>2, <1>4 DEF FitsSize
<1>6. Remaining(o)' = left - qty
  <2>1. Remaining(o)' = IF fill + qty < size THEN size - (fill + qty) ELSE 0
    BY <1>3 DEF Remaining
  <2> QED BY <1>1, <1>2, <1>4, <2>1
<1> QED BY <1>2, <1>5, <1>6

\* Each event of an answer is recorded with its fill, or refused and not recorded.
LEMMA SizesAfterEvent ==
  ASSUME Faithful, LogInv, LogInv', Tracked, SizeInv, ApplyNext \/ ReconcileNext
  PROVE  SizeInv'
<1> DEFINE e == Head(call.todo)
<1>1. /\ call.pc \in {"applying", "reconciling"} /\ call'.pc = call.pc
      /\ call.oid \in Order /\ call'.oid = call.oid
      /\ call.todo \in Seq(Event) /\ call.todo # <<>> /\ e \in Event
      /\ orphans' = orphans
      /\ \/ /\ Takes(call.oid, e)
            /\ orders' = [orders EXCEPT ![call.oid] = Applied(call.oid, e)]
            /\ Persist(call.oid, e.to, e.qty, 0, call.ts)
            /\ call'.todo = Tail(call.todo)
         \/ /\ ~Takes(call.oid, e)
            /\ orders' = [orders EXCEPT ![call.oid] =
                            IF call.pc = "applying"
                              THEN [Applied(call.oid, e) EXCEPT !.st = "REJECTED"]
                              ELSE Applied(call.oid, e)]
            /\ log' = log
            /\ call'.todo = <<>>
      /\ e.to \notin FillKinds => e.qty = 0
  BY NextEventMoves DEF LogInv
<1> PICK o \in Order, to \in OrderState, qty \in Nat : o = call.oid /\ to = e.to /\ qty = e.qty
  BY <1>1 DEF Event
<1>2. /\ call.ts \in Int /\ orders \in [Order -> OrderType] /\ TypeOK /\ orphans \subseteq Order
      /\ RecordsOf(o) # {} /\ SameSize(o) /\ Fits(o) /\ Within(Remaining(o), call.todo)
  BY <1>1 DEF LogInv, TypeInv, TypeOK, CallType, SizeInv, AnswerFits
<1>3. Takes(o, e) => CanTransition(orders[o].st, to)
  <2>1. 1 \in 1..Len(call.todo) /\ e = call.todo[1]
    BY <1>1, RestOfTodo
  <2>2. CASE call.pc = "applying"
    BY <2>1, <2>2 DEF LogInv, InCall, Legal
  <2>3. CASE call.pc = "reconciling"
    <3>1. to # "REJECTED"
      BY <2>1, <2>3 DEF LogInv, InCall, ReconcileKinds
    <3> QED BY <3>1 DEF Takes, TooLate
  <2> QED BY <1>1, <2>2, <2>3
<1>4. call.pc = "applying" => Takes(o, e)
  <2>1. 1 \in 1..Len(call.todo) /\ e = call.todo[1]
    BY <1>1, RestOfTodo
  <2> QED BY <2>1 DEF LogInv, InCall, Legal, Takes
<1>5. o \notin orphans \/ call.pc # "reconciling"
  BY <1>1 DEF Tracked
<1>6. CASE Takes(o, e)
  <2>1. CanTransition(orders[o].st, to)
    BY <1>3, <1>6
  <2>2. /\ orders' = [orders EXCEPT ![o] = Applied(o, e)]
        /\ Persist(o, to, qty, 0, call.ts)
        /\ call'.todo = Tail(call.todo)
    BY <1>1, <1>6
  <2>3. /\ orders'[o].st = to /\ orders'[o].req = orders[o].req
        /\ orders'[o].filled = orders[o].filled + qty
        /\ \A p \in Order \ {o} : orders'[p] = orders[p]
    BY <1>1, <1>2, <2>1, <2>2, AppliedMoves
  <2>4. /\ FitsSize(SizeInLog(o), LoggedFill(o) + qty, to)
        /\ Within(Remaining(o)', Tail(call.todo))
    <3> HIDE DEF e
    <3> QED BY <1>1, <1>2, <2>1, <2>3, EventFits DEF e
  <2>5. /\ \A p \in Order : Fits(p)' /\ (RecordsOf(p)' = {} <=> RecordsOf(p) = {})
        /\ \A p \in Order : RecordsOf(p) # {} /\ SameSize(p) => SameSize(p)'
    BY <1>2, <2>2, <2>3, <2>4, SizesAfterMove DEF SizeInv
  <2>6. AnswerFits'
    <3>1. RecordsOf(o)' # {} /\ SameSize(o)' /\ Within(Remaining(o)', call'.todo) /\ call'.oid = o
      BY <1>1, <1>2, <2>2, <2>4, <2>5
    <3> QED BY <3>1, AnswerFitsNext
  <2>7. ASSUME Venue = "paper", NEW p \in Order, RecordsOf(p)' # {}, orders'[p].st # "NONE"
        PROVE  SameSize(p)'
    <3>1. SameSize(p) /\ RecordsOf(p) # {}
      BY <1>2, <2>3, <2>5, <2>7 DEF SizeInv
    <3> QED BY <2>5, <3>1
  <2>8. call'.pc = "reconciling" => \A p \in orphans' : RecordsOf(p)' # {} /\ SameSize(p)'
    <3>1. call.pc = "reconciling" => \A p \in orphans : RecordsOf(p) # {} /\ SameSize(p)
      BY DEF SizeInv
    <3> QED BY <1>1, <1>2, <2>5, <3>1
  <2>9. SameSize(call.oid)' /\ call'.pc \notin {"rejecting", "created", "validated"}
    BY <1>1, <2>6 DEF AnswerFits
  <2> QED BY <2>5, <2>6, <2>7, <2>8, <2>9 DEF SizeInv
<1>7. CASE ~Takes(o, e)
  <2>1. /\ call.pc = "reconciling" /\ call'.pc = "reconciling" /\ call'.todo = <<>>
        /\ log' = log /\ orders' = [orders EXCEPT ![o] = Applied(o, e)]
    BY <1>1, <1>4, <1>7
  <2>2. /\ orders'[o].req = orders[o].req
        /\ orders'[o].filled = orders[o].filled + qty
        /\ \A p \in Order \ {o} : orders'[p] = orders[p]
    BY <1>1, <1>2, <2>1, AppliedMoves
  <2>3. /\ \A p \in Order : Fits(p)' /\ RecordsOf(p)' = RecordsOf(p)
        /\ \A p \in Order : /\ SameSize(p) /\ orders'[p].req = orders[p].req
                            /\ orders'[p].filled = orders[p].filled
                            => SameSize(p)'
    BY <2>1, SizesUnlogged DEF SizeInv
  <2>4. \A p \in orphans' : RecordsOf(p)' # {} /\ SameSize(p)'
    <3>1. \A p \in orphans : p \in Order \ {o} /\ RecordsOf(p) # {} /\ SameSize(p)
      BY <1>2, <1>5, <2>1 DEF SizeInv
    <3> QED BY <1>1, <2>2, <2>3, <3>1
  <2>5. ASSUME Venue = "paper" PROVE SameSize(o)'
    <3>1. call.todo = <<Ev("STALE")>>
      BY <1>1, <2>1, <2>5 DEF Tracked
    <3>2. e = Ev("STALE")
      BY <3>1
    <3>3. qty = 0 /\ orders[o].filled \in Nat
      BY <1>2, <3>2 DEF Ev, OrderType
    <3> QED BY <1>2, <2>2, <2>3, <3>3
  <2>6. ASSUME Venue = "paper", NEW p \in Order, RecordsOf(p)' # {}, orders'[p].st # "NONE"
        PROVE  SameSize(p)'
    <3>1. CASE p = o
      BY <2>5, <2>6, <3>1
    <3>2. CASE p # o
      <4>1. SameSize(p)
        BY <2>2, <2>3, <2>6, <3>2 DEF SizeInv
      <4> QED BY <2>2, <2>3, <3>2, <4>1
    <3> QED BY <3>1, <3>2
  <2>7. call'.pc \notin NewOrderCall /\ call'.pc \notin {"rejecting", "created", "validated"}
    BY <2>1 DEF NewOrderCall
  <2> QED BY <2>1, <2>3, <2>4, <2>6, <2>7 DEF SizeInv
<1> QED BY <1>6, <1>7

\* The adapter answers of an orphan within what is left of it.
LEMMA SizesAfterAsk ==
  ASSUME Faithful, LogInv, SizeInv, NEW o \in Order, AskVenue(o) \/ AskRaises(o)
  PROVE  SizeInv'
<1>1. /\ call.pc = "reconciling" /\ call'.pc = "reconciling"
      /\ o \in orphans /\ orphans' = orphans \ {o} /\ orders' = orders /\ log' = log
      /\ \/ call'.todo = <<>>
         \/ call'.oid = o /\ call'.todo \in ReconcileAnswers(o)
      /\ orphans \subseteq Order /\ TypeOK
  BY AskMoves DEF LogInv, TypeInv, TypeOK
<1>2. /\ \A p \in Order : Fits(p)' /\ RecordsOf(p)' = RecordsOf(p)
      /\ \A p \in Order : SameSize(p) => SameSize(p)'
  BY <1>1, SizesUnlogged DEF SizeInv
<1>3. \A p \in orphans : RecordsOf(p)' # {} /\ SameSize(p)'
  BY <1>1, <1>2 DEF SizeInv
<1>4. ASSUME call'.todo # <<>> PROVE AnswerFits'
  <2>1. call'.oid = o /\ Within(Remaining(o), call'.todo)
    BY <1>1, <1>4, ReconcileAnswersWithin
  <2>2. Remaining(o)' = Remaining(o)
    BY <1>1 DEF Remaining
  <2> QED BY <1>1, <1>3, <2>1, <2>2, AnswerFitsNext
<1>5. Venue = "paper" =>
        \A p \in Order : RecordsOf(p)' # {} /\ orders'[p].st # "NONE" => SameSize(p)'
  BY <1>1, <1>2 DEF SizeInv
<1>6. call'.pc \notin NewOrderCall /\ call'.pc \notin {"rejecting", "created", "validated"}
  BY <1>1 DEF NewOrderCall
<1> QED BY <1>1, <1>2, <1>3, <1>4, <1>5, <1>6 DEF SizeInv

\* A cancellation and what the venue says of it.
LEMMA SizesAfterCancel ==
  ASSUME Faithful, LogInv, LogInv', Tracked, SizeInv,
         \/ CancelAnswered
         \/ \E o \in Order, pending \in {"CANCEL_PENDING", "REPLACE_PENDING"} :
              RequestCancel(o, pending)
  PROVE  SizeInv'
<1>1. /\ call'.pc \notin NewOrderCall \cup {"reconciling"}
      /\ \/ UNCHANGED <<orders, log>>
         \/ \E o \in Order, to \in {"CANCEL_PENDING", "REPLACE_PENDING", "CANCELLED"},
               ts \in Int :
              /\ CanTransition(orders[o].st, to)
              /\ orders' = [orders EXCEPT ![o].st = to]
              /\ Persist(o, to, 0, 0, ts)
  <2>1. call.ts \in Int /\ clock \in Int /\ (call.pc = "cancelling" => call.oid \in Order)
    BY DEF LogInv, TypeInv, TypeOK, CallType, CallHasOrder, Busy
  <2>2. CASE CancelAnswered
    BY <2>1, <2>2, CallMoves DEF CancelAnswered
  <2>3. ASSUME NEW o \in Order, NEW pending \in {"CANCEL_PENDING", "REPLACE_PENDING"},
               RequestCancel(o, pending)
        PROVE  <1>1!1 /\ <1>1!2
    <3>1. call'.pc \notin NewOrderCall \cup {"reconciling"}
      BY <2>3, CallMoves DEF RequestCancel, NewOrderCall
    <3> QED BY <2>1, <2>3, <3>1 DEF RequestCancel
  <2> QED BY <2>2, <2>3
<1>2. CASE UNCHANGED <<orders, log>>
  <2>1. \A p \in Order : orders'[p].st = "NONE" \/ orders[p].st # "NONE"
    BY <1>2
  <2> QED BY <1>1, <1>2, <2>1, SizesQuiet
<1>3. ASSUME NEW o \in Order, NEW to \in {"CANCEL_PENDING", "REPLACE_PENDING", "CANCELLED"},
             NEW ts \in Int, CanTransition(orders[o].st, to),
             orders' = [orders EXCEPT ![o].st = to], Persist(o, to, 0, 0, ts)
      PROVE  SizeInv'
  <2>1. RecordsOf(o) # {}
    BY <1>3, MovesOfUnlogged DEF LogInv, Agree, AgreeOn
  <2>2. to \in OrderState \ {"FILLED"}
    BY DEF OrderState
  <2> QED BY <1>1, <1>3, <2>1, <2>2, SizesAfterLastMove
<1> QED BY <1>1, <1>2, <1>3

\* Recovery takes from the log what it restores.
LEMMA SizesAfterLoad ==
  ASSUME LogInv, SizeInv, LoadWithOrphans \/ RegisterRaises
  PROVE  SizeInv'
<1>1. /\ log' = log /\ orphans' \subseteq Orphans
      /\ call'.pc \in {"reconciling", "idle"} /\ call'.todo = <<>>
      /\ orders' = [o \in Order |-> IF o \in Logged THEN Restored(o) ELSE orders[o]]
  <2>1. call' = CallAt("reconciling", NoOrder, clock) \/ call' = NoCall("idle")
    BY DEF LoadWithOrphans, RegisterRaises
  <2> QED BY <2>1, CallMoves DEF LoadWithOrphans, RegisterRaises, RegisterRestored
<1>2. \A p \in Order :
        /\ RecordsOf(p)' = RecordsOf(p) /\ LoggedFill(p)' = LoggedFill(p)
        /\ SizeInLog(p)' = SizeInLog(p)
  BY <1>1, SameLogEffect
<1>3. \A p \in Order : Fits(p)'
  BY <1>1, SizesUnlogged DEF SizeInv
<1>4. ASSUME NEW p \in Order, RecordsOf(p) # {} PROVE SameSize(p)'
  <2>1. orders'[p] = Restored(p)
    BY <1>1, <1>4 DEF Logged
  <2>2. orders'[p].req = SizeInLog(p) /\ orders'[p].filled = LoggedFill(p)
    BY <2>1 DEF Restored, SizeInLog
  <2> QED BY <1>2, <2>2 DEF SameSize
<1>5. \A p \in orphans' : p \in Order /\ RecordsOf(p) # {}
  BY <1>1 DEF Orphans, Logged
<1> QED BY <1>1, <1>2, <1>3, <1>4, <1>5 DEF SizeInv, NewOrderCall

LEMMA InitSizes == Init => SizeInv
<1> SUFFICES ASSUME Init PROVE SizeInv
  OBVIOUS
<1>1. \A o \in Order : RecordsOf(o) = {}
  BY DEF Init, RecordsOf
<1>2. call.pc \notin NewOrderCall \cup {"reconciling"}
  BY CallMoves DEF Init
<1> QED BY <1>1, <1>2 DEF SizeInv, Fits, NewOrderCall

LEMMA NextSizes ==
  ASSUME Faithful, LogInv, Tracked, SizeInv, [Next]_vars
  PROVE  SizeInv'
<1>0. LogInv' /\ orders \in [Order -> OrderType]
  BY NextKeeps DEF LogInv, TypeInv, TypeOK
\* A step that leaves the orders as they are, or forgets some.
<1>1. ASSUME log' = log, call'.pc \in {"idle", "blocked", "down"},
             \A p \in Order : orders'[p] = orders[p] \/ orders'[p].st = "NONE"
      PROVE  SizeInv'
  <2>1. call'.pc \notin NewOrderCall \cup {"reconciling"}
    BY <1>1 DEF NewOrderCall
  <2>2. \A p \in Order : \/ orders'[p].st = "NONE"
                         \/ orders'[p] = orders[p] /\ orders[p].st # "NONE"
    BY <1>1
  <2> QED BY <1>1, <2>1, <2>2, SizesQuiet
<1>2. CASE Crash \/ CrashInAppend
  <2>1. log' = log /\ call'.pc = "down" /\ \A p \in Order : orders'[p].st = "NONE"
    BY <1>2, CallMoves DEF Crash, CrashInAppend, LoseMemory, Absent
  <2> QED BY <1>1, <2>1
<1>3. CASE Tick \/ UNCHANGED vars
  <2>1. log' = log /\ orders' = orders /\ call' = call /\ orphans' = orphans
    BY <1>3 DEF Tick, vars
  <2>2. \A p : SameSize(p) => SameSize(p)'
    BY <2>1, SameLogEffect DEF SameSize
  <2>3. \A p \in Order : Fits(p)' /\ RecordsOf(p)' = RecordsOf(p)
    BY <2>1, SizesUnlogged DEF SizeInv
  <2>4. call'.pc \in NewOrderCall => SameSize(call.oid)'
    <3>1. call.pc \in NewOrderCall => SameSize(call.oid)
      BY DEF SizeInv
    <3> PICK o : o = call.oid
      OBVIOUS
    <3>2. call.pc \in NewOrderCall => SameSize(o)'
      BY <2>2, <3>1
    <3> QED BY <2>1, <3>2 DEF SameSize, SizeInLog, LoggedFill, FirstOf, RecordsOf, Before
  <2>5. orphans \subseteq Order
    BY DEF LogInv, TypeInv, TypeOK
  <2>6. AnswerFits => AnswerFits'
    <3> PICK o : o = call.oid
      OBVIOUS
    <3> SUFFICES ASSUME AnswerFits PROVE AnswerFits'
      OBVIOUS
    <3>1. RecordsOf(o)' = RecordsOf(o) /\ Remaining(o)' = Remaining(o) /\ call'.oid = o
      BY <2>1, SameLogEffect DEF Remaining
    <3> QED BY <2>1, <2>2, <3>1, AnswerFitsNext DEF AnswerFits
  <2> QED BY <2>1, <2>2, <2>3, <2>4, <2>5, <2>6 DEF SizeInv
<1>4. CASE ColdStart \/ LoadFails \/ LoadClean
  <2>1. log' = log /\ orders' = orders /\ call'.pc \in {"idle", "blocked"}
    BY <1>4, CallMoves DEF ColdStart, LoadFails, LoadClean
  <2> QED BY <1>1, <2>1
<1>5. CASE LoadWithOrphans \/ RegisterRaises
  BY <1>5, SizesAfterLoad
<1>6. ASSUME NEW o \in Order, NEW req \in Qty,
             RefuseAtGate(o, req) \/ Accept(o, req)
      PROVE  SizeInv'
  BY <1>0, <1>6, SizesAfterCreate DEF RefuseAtGate, Accept
<1>7. ASSUME NEW o \in Order, NEW req \in Qty, RefuseAtPricing(o, req) \/ DryRun(o, req)
      PROVE  SizeInv'
  <2>1. /\ log' = log /\ call' = call /\ call.pc = "idle" /\ RecordsOf(o) = {}
        /\ \A p \in Order \ {o} : orders'[p] = orders[p]
    BY <1>0, <1>7 DEF RefuseAtPricing, DryRun, Fresh
  <2>2. call'.pc \notin NewOrderCall \cup {"reconciling"}
    BY <2>1 DEF NewOrderCall
  <2>3. \A p \in Order : \/ orders'[p].st = "NONE" \/ RecordsOf(p) = {}
                         \/ orders'[p] = orders[p] /\ orders[p].st # "NONE"
    BY <2>1
  <2> QED BY <2>1, <2>2, <2>3, SizesQuiet
<1>8. ASSUME NEW o \in Order, NEW pending \in {"CANCEL_PENDING", "REPLACE_PENDING"},
             RequestCancel(o, pending)
      PROVE  SizeInv'
  BY <1>0, <1>8, SizesAfterCancel
<1>9. CASE CancelAnswered
  BY <1>0, <1>9, SizesAfterCancel
<1>10. CASE PersistRefusal \/ Validate
  BY <1>0, <1>10, SizesAfterRecord
<1>11. CASE Submit
  BY <1>11, SizesAfterSubmit
<1>12. CASE SubmitRaises
  <2>1. /\ log' = log /\ call'.pc = "idle"
        /\ \A p \in Order : orders'[p] = orders[p] \/ orders'[p].st = "NONE"
    BY <1>0, <1>12, CallMoves DEF SubmitRaises, Absent
  <2> QED BY <1>1, <2>1
<1>13. CASE Return
  <2>1. log' = log /\ orders' = orders /\ call'.pc = "idle"
    BY <1>13, CallMoves DEF Return
  <2> QED BY <1>1, <2>1
<1>14. CASE ApplyNext \/ ReconcileNext
  BY <1>0, <1>14, SizesAfterEvent
<1>15. ASSUME NEW o \in Order, AskVenue(o) \/ AskRaises(o) PROVE SizeInv'
  BY <1>15, SizesAfterAsk
<1>16. CASE Request
  BY <1>6, <1>7, <1>8, <1>16 DEF Request
<1>17. CASE FinishReconcile
  <2>1. log' = log /\ orders' = orders /\ call'.pc \in {"idle", "blocked"}
    BY <1>17, CallMoves DEF FinishReconcile, StartOutcome
  <2> QED BY <1>1, <2>1
<1> QED BY <1>2, <1>3, <1>4, <1>5, <1>9, <1>10, <1>11, <1>12, <1>13, <1>14, <1>15, <1>16, <1>17
        DEF Next, EngineStep, Restart, Reconcile

\* What the log says of a faithful adapter's orders keeps to their sizes.
LEMMA SizesHold == ASSUME Faithful PROVE Spec => [](LogInv /\ Tracked /\ SizeInv)
<1>1. Init => LogInv /\ Tracked /\ SizeInv
  BY InitLog, InitTracked, InitSizes
<1>2. LogInv /\ Tracked /\ SizeInv /\ [Next]_vars => (LogInv /\ Tracked /\ SizeInv)'
  <2>1. LogInv => TypeInv
    BY DEF LogInv
  <2> QED BY <2>1, NextKeeps, NextTracked, NextSizes
<1> QED BY <1>1, <1>2, PTL DEF Spec

\* No order is filled beyond its size, and FILLED is recorded exactly for those filled
\* in full: over any number of partial fills, cancellations, deaths and what an exchange
\* reports afterwards, for an adapter that keeps its contract and appends that do not
\* fail.  An order refused for a size of zero or less has no fill and is not FILLED.
THEOREM FillsKeepToSize == ASSUME Faithful PROVE Spec => []FilledWithinSize
<1>1. SizeInv => FilledWithinSize
  BY DEF SizeInv, Fits, FitsSize, FilledWithinSize, Logged, Restored, StateInLog, SizeInLog
<1> QED BY <1>1, SizesHold, PTL

\* At a paper venue a restart would rebuild each tracked order exactly as it is: state,
\* size and filled quantity.
THEOREM ReplayRebuildsMemory ==
  ASSUME Faithful, Venue = "paper" PROVE Spec => []MemoryIsWhatReplayGives
<1>1. LogInv /\ Tracked /\ SizeInv => MemoryIsWhatReplayGives
  <2> SUFFICES ASSUME LogInv, Tracked, SizeInv, NEW o \in registered \cap Logged
               PROVE  orders[o] = Restored(o)
    BY DEF MemoryIsWhatReplayGives
  <2>1. o \in Order /\ RecordsOf(o) # {} /\ orders[o].st # "NONE" /\ orders[o] \in OrderType
    BY DEF Logged, Tracked, LogInv, TypeInv, TypeOK
  <2>2. orders[o].st = StateInLog(o)
    BY <2>1, LogShows DEF Shown
  <2>3. SameSize(o)
    BY <2>1 DEF SizeInv
  <2>4. orders[o] = [st |-> orders[o].st, req |-> orders[o].req, filled |-> orders[o].filled]
    BY <2>1 DEF OrderType
  <2> QED BY <2>2, <2>3, <2>4 DEF SameSize, Restored, StateInLog, SizeInLog
<1> QED BY <1>1, SizesHold, PTL

=============================================================================
