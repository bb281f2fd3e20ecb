--------------------------- MODULE OrderLogProofs ---------------------------
(***************************************************************************)
(* Proofs about the event log of OrderLifecycle, for any number of orders, *)
(* sizes and crashes: it replays, it closes an order once and for all, and *)
(* it implements OrderLedger.  They hold under an adapter that keeps its   *)
(* contract (the paper venue does), appends that do not fail silently and  *)
(* requests that are not stamped ahead of the local clock.  Each is needed *)
(* for replay: a refused REJECTED is persisted after a fill, a lost append *)
(* leaves a gap, and a clock ahead reorders the records.                   *)
(***************************************************************************)
EXTENDS OrderLifecycleProofs

Faithful ==
  /\ Venue \in {"paper", "contract"}
  /\ "append_error" \notin Faults
  /\ \A s \in Skew : s <= 0

\* The newest record of o reports state st.
NewestIs(o, st) ==
  /\ RecordsOf(o) # {}
  /\ \A i \in RecordsOf(o) : (\A j \in RecordsOf(o) : j <= i) => log[i].to = st

\* The log, order by order and in file order: timestamps do not decrease, the first
\* record is CREATED and each later one is a move of the FSM.
Chained ==
  \A o \in Order : \A i \in RecordsOf(o) :
    /\ (\A j \in RecordsOf(o) : i <= j) => log[i].to = "CREATED"
    /\ \A j \in RecordsOf(o) :
         i < j =>
           /\ log[i].ts <= log[j].ts
           /\ (\A k \in RecordsOf(o) : ~(i < k /\ k < j)) => CanTransition(log[i].to, log[j].to)

\* No record, and no call, is stamped later than the clock; what a call still has to
\* record is not stamped before what its orders have in the log.
Stamped ==
  /\ \A i \in DOMAIN log : log[i].ts <= clock
  /\ call.ts <= clock
  /\ call.pc \in Busy => \A i \in RecordsOf(call.oid) : log[i].ts <= call.ts
  /\ call.pc = "reconciling" => \A i \in DOMAIN log : log[i].ts <= call.ts

\* Memory and log agree on every order known to both; an order the log does not know
\* never left the process.
AgreeOn(o) ==
  IF RecordsOf(o) = {} THEN orders[o].st \in {"NONE", "VALIDATED", "REJECTED"}
  ELSE orders[o].st # "NONE" => NewestIs(o, orders[o].st)

Agree == \A o \in Order : AgreeOn(o)

\* Each event of todo is a move from the state the ones before it lead to.
Legal(st, todo) ==
  \A k \in 1..Len(todo) : CanTransition(IF k = 1 THEN st ELSE todo[k - 1].to, todo[k].to)

\* What a contract keeper reports of an orphan; it refuses none.
ReconcileKinds == {"STALE", "PARTIALLY_FILLED", "FILLED", "CANCELLED"}

\* The order of a call is recorded, and where the call says it is.
InCall ==
  /\ call.pc \in {"rejecting", "created", "validated", "applying"} => RecordsOf(call.oid) # {}
  /\ call.pc \in {"rejecting", "created"} => orders[call.oid].st = "CREATED"
  /\ call.pc = "validated" => orders[call.oid].st = "VALIDATED"
  /\ call.pc = "applying" =>
       orders[call.oid].st \in OrderState /\ Legal(orders[call.oid].st, call.todo)
  /\ call.pc = "reconciling" => \A k \in 1..Len(call.todo) : call.todo[k].to \in ReconcileKinds

LogInv == TypeInv /\ Chained /\ Stamped /\ Agree /\ InCall

\* A step appends one record for o, a legal continuation of what the log has of it.
Writes(o, to) ==
  \E r \in Record :
    /\ r.oid = o /\ r.to = to
    /\ log' = Append(log, r)
    /\ \A i \in RecordsOf(o) : log[i].ts <= r.ts
    /\ \/ RecordsOf(o) = {} /\ to = "CREATED"
       \/ \E st \in OrderState : NewestIs(o, st) /\ CanTransition(st, to)

-----------------------------------------------------------------------------
(* The log alone *)

\* In a chained log, replay order within an order is file order.
LEMMA ReplayOrderIsFileOrder ==
  ASSUME TypeInv, Chained, NEW o \in Order, NEW i \in RecordsOf(o), NEW j \in RecordsOf(o)
  PROVE  Before(i, j) <=> i < j
<1>1. i \in Int /\ j \in Int /\ log[i].ts \in Int /\ log[j].ts \in Int
  BY RecordTypes DEF TypeInv, TypeOK, RecordsOf
<1>2. /\ i < j => log[i].ts <= log[j].ts
      /\ j < i => log[j].ts <= log[i].ts
  BY DEF Chained
<1> QED BY <1>1, <1>2 DEF Before

\* So the first and the last record of replay are the oldest and the newest.
LEMMA EndsInFileOrder ==
  ASSUME TypeInv, Chained, NEW o \in Order, RecordsOf(o) # {}
  PROVE  /\ FirstOf(o) \in RecordsOf(o) /\ \A j \in RecordsOf(o) : FirstOf(o) <= j
         /\ LastOf(o) \in RecordsOf(o) /\ \A j \in RecordsOf(o) : j <= LastOf(o)
<1>1. FirstOf(o) \in RecordsOf(o) /\ IsFirst(o, FirstOf(o))
  BY DEF TypeInv, LogHasEnds, IsFirst, FirstOf
<1>2. LastOf(o) \in RecordsOf(o) /\ IsLast(o, LastOf(o))
  BY DEF TypeInv, LogHasEnds, IsLast, LastOf
<1>3. \A j \in RecordsOf(o) : j \in Int
  BY RecordTypes DEF TypeInv, TypeOK, RecordsOf
<1>4. \A j \in RecordsOf(o) \ {FirstOf(o)} : FirstOf(o) < j
  BY <1>1, ReplayOrderIsFileOrder DEF IsFirst
<1>5. \A j \in RecordsOf(o) \ {LastOf(o)} : j < LastOf(o)
  BY <1>2, ReplayOrderIsFileOrder DEF IsLast
<1> QED BY <1>1, <1>2, <1>3, <1>4, <1>5

\* What the newest record reports is what replay restores, and is one state.
LEMMA NewestIsLast ==
  ASSUME TypeInv, Chained, NEW o \in Order, RecordsOf(o) # {}
  PROVE  /\ NewestIs(o, log[LastOf(o)].to)
         /\ \A st : NewestIs(o, st) => st = log[LastOf(o)].to
<1>1. LastOf(o) \in RecordsOf(o) /\ \A j \in RecordsOf(o) : j <= LastOf(o)
  BY EndsInFileOrder
<1>2. \A j \in RecordsOf(o) : j \in Int
  BY RecordTypes DEF TypeInv, TypeOK, RecordsOf
<1>3. \A i \in RecordsOf(o) : (\A j \in RecordsOf(o) : j <= i) => i = LastOf(o)
  BY <1>1, <1>2
<1> QED BY <1>1, <1>3 DEF NewestIs

\* A chained log replays.
LEMMA ChainedReplays == TypeInv /\ Chained => LogReplays
<1> SUFFICES ASSUME TypeInv, Chained, NEW o \in Logged PROVE Replays(o)
  BY DEF LogReplays
<1>1. o \in Order /\ RecordsOf(o) # {}
  BY DEF Logged
<1>2. log[FirstOf(o)].to = "CREATED"
  BY <1>1, EndsInFileOrder DEF Chained
<1>3. ASSUME NEW i \in RecordsOf(o), NEW j \in RecordsOf(o), FollowedBy(o, i, j)
      PROVE  CanTransition(log[i].to, log[j].to)
  <2>1. i < j /\ \A k \in RecordsOf(o) : ~(i < k /\ k < j)
    BY <1>1, <1>3, ReplayOrderIsFileOrder DEF FollowedBy
  <2> QED BY <1>1, <2>1 DEF Chained
<1> QED BY <1>2, <1>3 DEF Replays

\* What a legal append does to the log: it stays chained, the written order is where
\* the record says, the others are where they were.
LEMMA WritesChained ==
  ASSUME TypeInv, Chained, NEW o \in Order, NEW to, Writes(o, to)
  PROVE  /\ Chained'
         /\ NewestIs(o, to)'
         /\ \A p \in Order \ {o} : /\ RecordsOf(p)' = RecordsOf(p)
                                 /\ \A st : NewestIs(p, st) <=> NewestIs(p, st)'
<1>1. PICK r \in Record :
        /\ r.oid = o /\ r.to = to
        /\ log' = Append(log, r)
        /\ \A i \in RecordsOf(o) : log[i].ts <= r.ts
        /\ \/ RecordsOf(o) = {} /\ to = "CREATED"
           \/ \E st \in OrderState : NewestIs(o, st) /\ CanTransition(st, to)
  BY DEF Writes
<1>2. log \in Seq(Record)
  BY DEF TypeInv, TypeOK
<1> PICK n \in Nat : n = Len(log) + 1
  BY <1>2, RecordTypes
<1>3. /\ log'[n] = r
      /\ RecordsOf(o)' = RecordsOf(o) \cup {n}
      /\ \A p \in Order \ {o} : RecordsOf(p)' = RecordsOf(p)
  <2>1. log'[n] = r /\ \A p : RecordsOf(p)' = RecordsOf(p) \cup (IF p = o THEN {n} ELSE {})
    BY <1>1, <1>2, AppendRecords
  <2>2. \A p \in Order \ {o} : RecordsOf(p)' = RecordsOf(p)
    BY <2>1
  <2> QED BY <2>1, <2>2
<1>4. \A p \in Order : \A i \in RecordsOf(p) :
        log'[i] = log[i] /\ log[i].ts \in Int /\ i \in Int /\ i < n
  <2>1. \A i \in DOMAIN log : log'[i] = log[i]
    BY <1>1, <1>2, AppendRecords
  <2>2. \A i \in DOMAIN log : log[i].ts \in Int /\ i \in Int /\ i < n
    BY <1>2, RecordTypes
  <2> QED BY <2>1, <2>2 DEF RecordsOf
<1>5. ASSUME NEW p \in Order \ {o}, NEW st
      PROVE  NewestIs(p, st) <=> NewestIs(p, st)'
  BY <1>3, <1>4 DEF NewestIs
<1>6. NewestIs(o, to)'
  <2>1. RecordsOf(o)' # {}
    BY <1>3
  <2>2. \A i \in RecordsOf(o)' : (\A j \in RecordsOf(o)' : j <= i) => i = n
    BY <1>3, <1>4
  <2> QED BY <1>1, <1>3, <2>1, <2>2 DEF NewestIs
<1>7. Chained'
  <2> SUFFICES ASSUME NEW p \in Order, NEW i \in RecordsOf(p)'
               PROVE  /\ (\A j \in RecordsOf(p)' : i <= j) => log'[i].to = "CREATED"
                      /\ \A j \in RecordsOf(p)' :
                           i < j =>
                             /\ log'[i].ts <= log'[j].ts
                             /\ (\A k \in RecordsOf(p)' : ~(i < k /\ k < j))
                                  => CanTransition(log'[i].to, log'[j].to)
    BY DEF Chained
  <2>1. CASE p # o
    <3>1. RecordsOf(p)' = RecordsOf(p) /\ \A j \in RecordsOf(p) : log'[j] = log[j]
      BY <1>3, <1>4, <2>1
    <3> QED BY <3>1 DEF Chained
  <2>2. CASE p = o /\ i # n
    <3>1. /\ i \in RecordsOf(o) /\ i < n /\ i \in Int
          /\ \A j \in RecordsOf(o) : log'[j] = log[j] /\ j < n /\ j \in Int
      BY <1>3, <1>4, <2>2
    <3>2. (\A j \in RecordsOf(o)' : i <= j) => log'[i].to = "CREATED"
      BY <1>3, <3>1 DEF Chained
    <3>3. ASSUME NEW j \in RecordsOf(o), i < j
          PROVE  /\ log'[i].ts <= log'[j].ts
                 /\ (\A k \in RecordsOf(o)' : ~(i < k /\ k < j))
                      => CanTransition(log'[i].to, log'[j].to)
      BY <1>3, <3>1, <3>3 DEF Chained
    <3>4. log'[i].ts <= log'[n].ts
      BY <1>1, <1>3, <3>1
    <3>5. ASSUME \A k \in RecordsOf(o)' : ~(i < k /\ k < n)
          PROVE  CanTransition(log'[i].to, log'[n].to)
      <4>1. \A k \in RecordsOf(o) : k <= i
        BY <1>3, <3>1, <3>5
      <4>2. PICK st \in OrderState : NewestIs(o, st) /\ CanTransition(st, to)
        BY <1>1, <3>1
      <4> QED BY <1>1, <1>3, <3>1, <4>1, <4>2 DEF NewestIs
    <3> QED BY <1>3, <2>2, <3>2, <3>3, <3>4, <3>5
  <2>3. CASE p = o /\ i = n
    <3>1. \A j \in RecordsOf(o) : j < n /\ j \in Int
      BY <1>4
    <3>2. \A j \in RecordsOf(o)' : ~(n < j)
      BY <1>3, <3>1
    <3>3. (\A j \in RecordsOf(o)' : n <= j) => RecordsOf(o) = {}
      BY <1>3, <3>1
    <3>4. RecordsOf(o) = {} => to = "CREATED"
      BY <1>1 DEF NewestIs
    <3> QED BY <1>1, <1>3, <2>3, <3>2, <3>3, <3>4
  <2> QED BY <2>1, <2>2, <2>3
<1> QED BY <1>3, <1>5, <1>6, <1>7

\* A step that leaves the log alone leaves all of this alone.
LEMMA SameLog ==
  ASSUME log' = log
  PROVE  /\ Chained => Chained'
         /\ \A o : RecordsOf(o)' = RecordsOf(o)
         /\ \A o, st : NewestIs(o, st) <=> NewestIs(o, st)'
<1>1. \A o : RecordsOf(o)' = RecordsOf(o)
  BY DEF RecordsOf
<1>2. \A o, st : NewestIs(o, st) <=> NewestIs(o, st)'
  BY <1>1 DEF NewestIs
<1>3. Chained => Chained'
  BY <1>1 DEF Chained
<1> QED BY <1>1, <1>2, <1>3

-----------------------------------------------------------------------------
(* One step, by group of actions: what it appends is legal, and memory, call and log
   agree after it *)

\* The part of the invariant that is not the type, after a step; and what it wrote.
StepKeeps ==
  /\ Chained' /\ Stamped' /\ Agree' /\ InCall'
  /\ log' = log \/ \E o \in Order, to \in OrderState : Writes(o, to)

\* An append of what continues the order's records is legal, and stamps nothing after
\* T if neither the log nor the record is.
LEMMA PersistWrites ==
  ASSUME LogInv, Faithful, NEW o \in Order, NEW to \in OrderState, NEW qty \in Nat,
         NEW req \in Int, NEW ts \in Int, Persist(o, to, qty, req, ts),
         \A i \in RecordsOf(o) : log[i].ts <= ts,
         \/ RecordsOf(o) = {} /\ to = "CREATED"
         \/ \E st \in OrderState : NewestIs(o, st) /\ CanTransition(st, to)
  PROVE  /\ Writes(o, to)
         /\ \A p : \A i \in RecordsOf(p)' : log'[i].ts = ts \/ (i \in RecordsOf(p) /\ log'[i] = log[i])
         /\ \A i \in DOMAIN log' : log'[i].ts = ts \/ (i \in DOMAIN log /\ log'[i] = log[i])
<1> DEFINE r == [oid |-> o, to |-> to, qty |-> qty, req |-> req, ts |-> ts]
<1>1. log' = Append(log, r)
  BY DEF Persist, Faithful
<1>2. r \in Record /\ r.oid = o /\ r.to = to /\ r.ts = ts
  BY DEF Record
<1>3. Writes(o, to)
  BY <1>1, <1>2 DEF Writes
<1>4. log \in Seq(Record) /\ DOMAIN log = 1..Len(log) /\ Len(log) \in Nat
  BY RecordTypes DEF LogInv, TypeInv, TypeOK
<1> PICK n \in Nat : n = Len(log) + 1
  BY <1>4
<1> HIDE DEF r
<1>5. /\ log' \in Seq(Record) /\ Len(log') = n /\ log'[n] = r
      /\ \A i \in DOMAIN log : log'[i] = log[i]
      /\ \A p : RecordsOf(p)' = RecordsOf(p) \cup (IF p = o THEN {n} ELSE {})
  BY <1>1, <1>2, <1>4, AppendRecords
<1>6. DOMAIN log' = DOMAIN log \cup {n}
  BY <1>4, <1>5, LenProperties
<1>7. \A i \in DOMAIN log' : log'[i].ts = ts \/ (i \in DOMAIN log /\ log'[i] = log[i])
  BY <1>2, <1>5, <1>6
<1>8. \A p : \A i \in RecordsOf(p)' : i = n \/ (i \in RecordsOf(p) /\ i \in DOMAIN log)
  BY <1>5 DEF RecordsOf
<1> QED BY <1>2, <1>3, <1>5, <1>7, <1>8

\* Memory after a legal append that it follows, and after a step without one.
LEMMA AgreeAfterWrite ==
  ASSUME LogInv, NEW o \in Order, NEW to \in OrderState, Writes(o, to),
         orders'[o].st = to, \A p \in Order \ {o} : orders'[p] = orders[p]
  PROVE  Chained' /\ Agree' /\ RecordsOf(o)' # {}
<1>1. /\ Chained' /\ NewestIs(o, to)'
      /\ \A p \in Order \ {o} : /\ RecordsOf(p)' = RecordsOf(p)
                              /\ \A st : NewestIs(p, st) <=> NewestIs(p, st)'
  BY WritesChained DEF LogInv
<1>2. RecordsOf(o)' # {}
  BY <1>1 DEF NewestIs
<1>3. AgreeOn(o)'
  BY <1>1, <1>2 DEF AgreeOn, NewestIs
<1>4. ASSUME NEW p \in Order \ {o}
      PROVE  AgreeOn(p)'
  <2>1. AgreeOn(p) /\ orders'[p] = orders[p] /\ RecordsOf(p)' = RecordsOf(p)
    BY <1>1 DEF LogInv, Agree
  <2>2. NewestIs(p, orders[p].st) <=> NewestIs(p, orders[p].st)'
    <3> PICK st : st = orders[p].st
      OBVIOUS
    <3>1. NewestIs(p, st) <=> NewestIs(p, st)'
      BY <1>1
    <3> QED BY <2>1, <3>1 DEF NewestIs
  <2> QED BY <2>1, <2>2 DEF AgreeOn
<1> QED BY <1>1, <1>2, <1>3, <1>4 DEF Agree

LEMMA AgreeWithoutWrite ==
  ASSUME LogInv, log' = log,
         \A p \in Order : orders'[p].st = orders[p].st \/ orders'[p].st = "NONE"
  PROVE  Chained' /\ Agree' /\ \A p : RecordsOf(p)' = RecordsOf(p)
<1>1. /\ Chained' /\ \A p : RecordsOf(p)' = RecordsOf(p)
      /\ \A p, st : NewestIs(p, st) <=> NewestIs(p, st)'
  BY SameLog DEF LogInv
<1>2. ASSUME NEW p \in Order
      PROVE  AgreeOn(p)'
  <2>1. AgreeOn(p) /\ RecordsOf(p)' = RecordsOf(p)
    BY <1>1 DEF LogInv, Agree
  <2>2. CASE orders'[p].st = orders[p].st
    BY <2>1, <2>2 DEF AgreeOn, NewestIs
  <2>3. CASE orders'[p].st = "NONE"
    BY <2>3 DEF AgreeOn
  <2> QED BY <2>2, <2>3
<1> QED BY <1>1, <1>2 DEF Agree

\* The states an order can be in when the log does not know it lead to no venue.
LEMMA MovesOfUnlogged ==
  ASSUME NEW st \in {"NONE", "VALIDATED", "REJECTED"},
         NEW to \in {"CANCEL_PENDING", "REPLACE_PENDING", "PARTIALLY_FILLED", "CANCELLED",
                    "STALE", "FILLED"}
  PROVE  ~CanTransition(st, to)
BY DEF CanTransition, AllowedTransitions, AtVenue

\* Steps that write nothing and change no order but to forget it.
LEMMA QuietStep ==
  ASSUME LogInv, NEW where \in {"down", "blocked", "idle"},
         call' = NoCall(where), log' = log, clock' = clock,
         \A p \in Order : orders'[p].st = orders[p].st \/ orders'[p].st = "NONE"
  PROVE  StepKeeps
<1>1. Chained' /\ Agree' /\ \A p : RecordsOf(p)' = RecordsOf(p)
  BY AgreeWithoutWrite
<1>2. call'.pc = where /\ call'.ts = 0
  BY NoCallType DEF PC
<1>3. clock \in Nat
  BY DEF LogInv, TypeInv, TypeOK
<1>4. Stamped'
  BY <1>2, <1>3 DEF LogInv, Stamped, Busy
<1>5. InCall'
  BY <1>2 DEF InCall
<1> QED BY <1>1, <1>4, <1>5 DEF StepKeeps

LEMMA QuietSteps ==
  ASSUME LogInv,
         \/ Crash \/ CrashInAppend \/ ColdStart \/ LoadFails \/ LoadClean
         \/ SubmitRaises \/ Return \/ FinishReconcile
  PROVE  StepKeeps
<1>1. log' = log /\ clock' = clock
  BY DEF Crash, CrashInAppend, LoseMemory, ColdStart, LoadFails, LoadClean, SubmitRaises, Return,
         FinishReconcile
<1>2. \E where \in {"down", "blocked", "idle"} : call' = NoCall(where)
  BY DEF Crash, CrashInAppend, LoseMemory, ColdStart, LoadFails, LoadClean, SubmitRaises, Return,
         FinishReconcile, StartOutcome
<1>3. orders \in [Order -> OrderType] /\ Absent.st = "NONE"
  BY DEF LogInv, TypeInv, TypeOK, Absent
<1>4. \A p \in Order : orders'[p].st = orders[p].st \/ orders'[p].st = "NONE"
  BY <1>3 DEF Crash, CrashInAppend, LoseMemory, ColdStart, LoadFails, LoadClean, SubmitRaises, Return,
              FinishReconcile
<1> QED BY <1>1, <1>2, <1>4, QuietStep

LEMMA TickStep ==
  ASSUME LogInv, Tick
  PROVE  StepKeeps
<1>1. Chained' /\ Agree' /\ \A p : RecordsOf(p)' = RecordsOf(p)
  BY AgreeWithoutWrite DEF Tick
<1>2. /\ log \in Seq(Record) /\ clock \in Nat /\ call.ts \in Int
      /\ \A i \in DOMAIN log : log[i].ts \in Int
  BY RecordTypes DEF LogInv, TypeInv, TypeOK, CallType
<1>3. /\ log' = log /\ call' = call /\ orders' = orders /\ clock' = clock + 1
  BY DEF Tick
<1>4. Stamped'
  <2>1. \A i \in DOMAIN log' : log'[i].ts <= clock'
    BY <1>2, <1>3 DEF LogInv, Stamped
  <2>2. call'.ts <= clock'
    BY <1>2, <1>3 DEF LogInv, Stamped
  <2> QED BY <1>1, <1>3, <2>1, <2>2 DEF LogInv, Stamped
<1>5. InCall'
  BY <1>1, <1>3 DEF LogInv, InCall, Legal
<1> QED BY <1>1, <1>3, <1>4, <1>5 DEF StepKeeps

\* The restart that takes the logged orders into memory.
LEMMA LoadStep ==
  ASSUME LogInv, LoadWithOrphans \/ RegisterRaises
  PROVE  StepKeeps
<1>1. /\ log' = log /\ clock' = clock
      /\ call' = CallAt("reconciling", NoOrder, clock) \/ call' = NoCall("idle")
      /\ orders' = [o \in Order |-> IF o \in Logged THEN Restored(o) ELSE orders[o]]
  BY DEF LoadWithOrphans, RegisterRaises, RegisterRestored
<1>2. /\ Chained' /\ \A p : RecordsOf(p)' = RecordsOf(p)
      /\ \A p, st : NewestIs(p, st) <=> NewestIs(p, st)'
  BY <1>1, SameLog DEF LogInv
<1>3. Agree'
  <2> SUFFICES ASSUME NEW p \in Order PROVE AgreeOn(p)'
    BY DEF Agree
  <2>1. CASE RecordsOf(p) = {}
    <3>1. orders'[p] = orders[p] /\ AgreeOn(p)
      BY <1>1, <2>1 DEF Logged, LogInv, Agree
    <3> QED BY <1>2, <2>1, <3>1 DEF AgreeOn
  <2>2. CASE RecordsOf(p) # {}
    <3>1. orders'[p].st = log[LastOf(p)].to
      BY <1>1, <2>2 DEF Logged, Restored
    <3>2. NewestIs(p, log[LastOf(p)].to)
      BY <2>2, NewestIsLast DEF LogInv
    <3> PICK st : st = log[LastOf(p)].to
      OBVIOUS
    <3>3. NewestIs(p, st)' /\ orders'[p].st = st
      BY <1>2, <3>1, <3>2
    <3> QED BY <3>3 DEF AgreeOn, NewestIs
  <2> QED BY <2>1, <2>2
<1>4. clock \in Nat /\ clock \in Int
  BY DEF LogInv, TypeInv, TypeOK
<1>5. /\ call'.todo = <<>>
      /\ \/ call'.pc = "reconciling" /\ call'.ts = clock
         \/ call'.pc = "idle" /\ call'.ts = 0
  <2>1. /\ CallAt("reconciling", NoOrder, clock).pc = "reconciling"
        /\ CallAt("reconciling", NoOrder, clock).ts = clock
        /\ CallAt("reconciling", NoOrder, clock).todo = <<>>
    <3>1. "reconciling" \in PC /\ NoOrder \in Order \cup {NoOrder}
      BY DEF PC
    <3> QED BY <1>4, <3>1, CallAtType
  <2>2. NoCall("idle").pc = "idle" /\ NoCall("idle").ts = 0 /\ NoCall("idle").todo = <<>>
    BY NoCallType DEF PC, NoCall, CallAt
  <2> QED BY <1>1, <2>1, <2>2
<1>6. Stamped'
  BY <1>1, <1>4, <1>5 DEF LogInv, Stamped, Busy
<1>7. InCall'
  BY <1>5 DEF InCall
<1> QED BY <1>1, <1>2, <1>3, <1>6, <1>7 DEF StepKeeps

\* A new order, accepted or refused.
LEMMA CreateStep ==
  ASSUME LogInv, Faithful, NEW o \in Order, NEW req \in Qty,
         NEW where \in {"rejecting", "created"}, Create(o, req, where)
  PROVE  StepKeeps
<1>1. PICK s \in Skew : /\ call' = CallAt(where, o, clock + s)
                       /\ Persist(o, "CREATED", 0, req, clock + s)
  BY DEF Create
<1> PICK t \in Int : t = clock + s
  BY ClockAssumption DEF LogInv, TypeInv, TypeOK
<1>2. /\ RecordsOf(o) = {} /\ clock' = clock /\ clock \in Nat /\ t <= clock
      /\ req \in Int /\ "CREATED" \in OrderState
  BY ClockAssumption, QtyAssumption
  DEF Create, Fresh, LogInv, TypeInv, TypeOK, OrderState, Faithful
<1>3. /\ Writes(o, "CREATED")
      /\ \A p : \A i \in RecordsOf(p)' : log'[i].ts = t \/ (i \in RecordsOf(p) /\ log'[i] = log[i])
      /\ \A i \in DOMAIN log' : log'[i].ts = t \/ (i \in DOMAIN log /\ log'[i] = log[i])
  BY <1>1, <1>2, PersistWrites
<1>4. /\ orders' = [orders EXCEPT ![o] = [st |-> "CREATED", req |-> req, filled |-> 0]]
      /\ orders \in [Order -> OrderType]
  BY DEF Create, LogInv, TypeInv, TypeOK
<1>5. orders'[o].st = "CREATED" /\ \A p \in Order \ {o} : orders'[p] = orders[p]
  BY <1>4
<1>6. Chained' /\ Agree' /\ RecordsOf(o)' # {}
  BY <1>2, <1>3, <1>5, AgreeAfterWrite
<1>7. call'.pc = where /\ call'.oid = o /\ call'.ts = t
  <2>1. where \in PC
    BY DEF PC
  <2> QED BY <1>1, <2>1, CallAtType
<1>8. Stamped'
  <2>1. \A i \in DOMAIN log' : log'[i].ts <= clock'
    BY <1>2, <1>3 DEF LogInv, Stamped
  <2>2. \A i \in RecordsOf(o)' : log'[i].ts <= t
    BY <1>2, <1>3
  <2> QED BY <1>2, <1>7, <2>1, <2>2 DEF Stamped
<1>9. InCall'
  BY <1>5, <1>6, <1>7 DEF InCall
<1> QED BY <1>2, <1>3, <1>6, <1>8, <1>9 DEF StepKeeps

\* Requests that the log does not hear of.
LEMMA UnloggedStep ==
  ASSUME LogInv, NEW o \in Order, NEW req \in Qty, RefuseAtPricing(o, req) \/ DryRun(o, req)
  PROVE  StepKeeps
<1>1. /\ log' = log /\ clock' = clock /\ call' = call /\ call.pc = "idle"
      /\ RecordsOf(o) = {} /\ orders \in [Order -> OrderType]
  BY DEF RefuseAtPricing, DryRun, Fresh, LogInv, TypeInv, TypeOK
<1>2. orders'[o].st \in {"VALIDATED", "REJECTED"} /\ \A p \in Order \ {o} : orders'[p] = orders[p]
  BY <1>1 DEF RefuseAtPricing, DryRun
<1>3. /\ Chained' /\ \A p : RecordsOf(p)' = RecordsOf(p)
      /\ \A p, st : NewestIs(p, st) <=> NewestIs(p, st)'
  BY <1>1, SameLog DEF LogInv
<1>4. Agree'
  <2>1. AgreeOn(o)'
    BY <1>1, <1>2, <1>3 DEF AgreeOn
  <2>2. ASSUME NEW p \in Order \ {o} PROVE AgreeOn(p)'
    <3>1. AgreeOn(p) /\ orders'[p] = orders[p]
      BY <1>2 DEF LogInv, Agree
    <3> QED BY <1>3, <3>1, <1>1 DEF AgreeOn, NewestIs
  <2> QED BY <2>1, <2>2 DEF Agree
<1>5. Stamped'
  BY <1>1, <1>3 DEF LogInv, Stamped, Busy
<1>6. InCall'
  BY <1>1 DEF InCall
<1> QED BY <1>1, <1>3, <1>4, <1>5, <1>6 DEF StepKeeps

\* A call, of which only the stage may change, records a move that its order makes in
\* memory: the engine's steps that are not the first or the last.
LEMMA MoveStep ==
  ASSUME LogInv, Faithful, NEW o \in Order, NEW to \in OrderState, NEW qty \in Nat, NEW ts \in Int,
         Persist(o, to, qty, 0, ts), CanTransition(orders[o].st, to), RecordsOf(o) # {},
         \A i \in RecordsOf(o) : log[i].ts <= ts,
         ts <= clock, clock' = clock,
         orders'[o].st = to, \A p \in Order \ {o} : orders'[p] = orders[p]
  PROVE  /\ Chained' /\ Agree' /\ RecordsOf(o)' # {} /\ Writes(o, to)
         /\ \A i \in DOMAIN log' : log'[i].ts <= clock'
         /\ \A i \in RecordsOf(o)' : log'[i].ts <= ts
         /\ (\A i \in DOMAIN log : log[i].ts <= ts) => \A i \in DOMAIN log' : log'[i].ts <= ts
<1>1. orders[o].st \in OrderState /\ NewestIs(o, orders[o].st)
  <2>1. orders[o].st # "NONE"
    BY DEF CanTransition, AllowedTransitions, AtVenue
  <2>2. orders[o] \in OrderType /\ AgreeOn(o)
    BY DEF LogInv, TypeInv, TypeOK, Agree
  <2> QED BY <2>1, <2>2 DEF AgreeOn, OrderType
<1>2. /\ Writes(o, to)
      /\ \A p : \A i \in RecordsOf(p)' : log'[i].ts = ts \/ (i \in RecordsOf(p) /\ log'[i] = log[i])
      /\ \A i \in DOMAIN log' : log'[i].ts = ts \/ (i \in DOMAIN log /\ log'[i] = log[i])
  <2>1. 0 \in Int
    OBVIOUS
  <2> QED BY <1>1, <2>1, PersistWrites
<1>3. Chained' /\ Agree' /\ RecordsOf(o)' # {}
  BY <1>2, AgreeAfterWrite
<1>4. \A i \in DOMAIN log' : log'[i].ts <= clock'
  BY <1>2 DEF LogInv, Stamped
<1>5. \A i \in RecordsOf(o)' : log'[i].ts <= ts
  BY <1>2
<1>6. (\A i \in DOMAIN log : log[i].ts <= ts) => \A i \in DOMAIN log' : log'[i].ts <= ts
  BY <1>2
<1> QED BY <1>2, <1>3, <1>4, <1>5, <1>6

\* What applying an event does to the state of the order.
LEMMA AppliedState ==
  ASSUME TypeOK, NEW o \in Order, NEW e
  PROVE  Applied(o, e).st = IF CanTransition(orders[o].st, e.to) THEN e.to ELSE orders[o].st
<1>1. orders[o] \in OrderType
  BY DEF TypeOK
<1> DEFINE st == IF CanTransition(orders[o].st, e.to) THEN e.to ELSE orders[o].st
           filled == IF e.to \in FillKinds THEN orders[o].filled + e.qty ELSE orders[o].filled
<1>2. Applied(o, e) = [orders[o] EXCEPT !.st = st, !.filled = filled]
  BY DEF Applied
<1> HIDE DEF st, filled
<1>3. Applied(o, e).st = st
  BY <1>1, <1>2 DEF OrderType
<1> QED BY <1>3 DEF st

\* Validation, and the record of a refusal.
LEMMA RecordStep ==
  ASSUME LogInv, Faithful, PersistRefusal \/ Validate
  PROVE  StepKeeps
<1> DEFINE o == call.oid
           to == IF call.pc = "created" THEN "VALIDATED" ELSE "REJECTED"
<1>1. /\ call \in CallType /\ call.ts \in Int /\ o \in Order /\ RecordsOf(o) # {}
      /\ orders[o].st = "CREATED" /\ to \in OrderState /\ clock' = clock
      /\ orders \in [Order -> OrderType] /\ call.pc \in {"created", "rejecting"}
  BY DEF PersistRefusal, Validate, LogInv, TypeInv, TypeOK, CallHasOrder, Busy, CallType, InCall,
         OrderState
<1>2. Persist(o, to, 0, 0, call.ts) /\ orders' = [orders EXCEPT ![o].st = to]
  BY DEF PersistRefusal, Validate
<1>3. call' = IF to = "VALIDATED" THEN [call EXCEPT !.pc = "validated"] ELSE NoCall("idle")
  BY DEF PersistRefusal, Validate
<1>4. CanTransition("CREATED", to)
  BY DEF CanTransition, AllowedTransitions
<1>5. call.ts <= clock /\ \A i \in RecordsOf(o) : log[i].ts <= call.ts
  BY <1>1 DEF LogInv, Stamped, Busy
<1> PICK t \in Int, p \in Order, st \in OrderState : t = call.ts /\ p = o /\ st = to
  BY <1>1
<1>6. orders'[p].st = st /\ \A q \in Order \ {p} : orders'[q] = orders[q]
  BY <1>1, <1>2 DEF OrderType
<1>7. /\ Chained' /\ Agree' /\ RecordsOf(p)' # {} /\ Writes(p, st)
      /\ \A i \in DOMAIN log' : log'[i].ts <= clock'
      /\ \A i \in RecordsOf(p)' : log'[i].ts <= t
  <2>1. Persist(p, st, 0, 0, t) /\ CanTransition(orders[p].st, st) /\ RecordsOf(p) # {}
    BY <1>1, <1>2, <1>4
  <2>2. (\A i \in RecordsOf(p) : log[i].ts <= t) /\ t <= clock /\ 0 \in Nat
    BY <1>5
  <2> QED BY <1>1, <1>6, <2>1, <2>2, MoveStep
<1>8. CASE to = "VALIDATED"
  <2>1. call'.pc = "validated" /\ call'.oid = p /\ call'.ts = t
    BY <1>1, <1>3, <1>8 DEF CallType
  <2>2. Stamped'
    BY <1>5, <1>1, <1>7, <2>1 DEF Stamped
  <2>3. InCall'
    BY <1>6, <1>7, <1>8, <2>1 DEF InCall
  <2> QED BY <1>7, <2>2, <2>3 DEF StepKeeps
<1>9. CASE to # "VALIDATED"
  <2>1. call'.pc = "idle" /\ call'.ts = 0
    BY <1>3, <1>9, NoCallType DEF PC
  <2>2. clock \in Nat
    BY DEF LogInv, TypeInv, TypeOK
  <2>3. Stamped'
    BY <1>1, <1>7, <2>1, <2>2 DEF Stamped, Busy
  <2>4. InCall'
    BY <2>1 DEF InCall
  <2> QED BY <1>7, <2>3, <2>4 DEF StepKeeps
<1> QED BY <1>8, <1>9

\* A request to cancel or replace, and its answer: only an order the log has at the
\* venue moves.
LEMMA RequestCancelStep ==
  ASSUME LogInv, Faithful, NEW o \in Order, NEW pending \in {"CANCEL_PENDING", "REPLACE_PENDING"},
         RequestCancel(o, pending)
  PROVE  StepKeeps
<1>1. /\ clock \in Nat /\ clock' = clock /\ call' = CallAt("cancelling", o, clock)
      /\ orders \in [Order -> OrderType] /\ pending \in OrderState
  BY DEF RequestCancel, LogInv, TypeInv, TypeOK, OrderState
<1>2. call'.pc = "cancelling" /\ call'.oid = o /\ call'.ts = clock
  BY <1>1, CallAtType DEF PC
<1>3. InCall'
  BY <1>2 DEF InCall
<1>4. CASE CanTransition(orders[o].st, pending)
  <2>1. Persist(o, pending, 0, 0, clock) /\ orders' = [orders EXCEPT ![o].st = pending]
    BY <1>4 DEF RequestCancel
  <2>2. orders'[o].st = pending /\ \A q \in Order \ {o} : orders'[q] = orders[q]
    BY <1>1, <2>1 DEF OrderType
  <2>3. RecordsOf(o) # {}
    BY <1>4, MovesOfUnlogged DEF LogInv, Agree, AgreeOn
  <2>4. \A i \in RecordsOf(o) : log[i].ts <= clock
    BY DEF LogInv, Stamped, RecordsOf
  <2>5. /\ Chained' /\ Agree' /\ Writes(o, pending)
        /\ \A i \in DOMAIN log' : log'[i].ts <= clock'
        /\ \A i \in RecordsOf(o)' : log'[i].ts <= clock
    BY <1>1, <1>4, <2>1, <2>2, <2>3, <2>4, MoveStep
  <2>6. Stamped'
    BY <1>1, <1>2, <2>5 DEF Stamped
  <2> QED BY <1>1, <1>3, <2>5, <2>6 DEF StepKeeps
<1>5. CASE ~CanTransition(orders[o].st, pending)
  <2>1. log' = log /\ orders' = orders
    BY <1>5 DEF RequestCancel
  <2>2. Chained' /\ Agree' /\ \A p : RecordsOf(p)' = RecordsOf(p)
    BY <2>1, AgreeWithoutWrite
  <2>3. \A i \in RecordsOf(o) : log[i].ts <= clock
    BY DEF LogInv, Stamped, RecordsOf
  <2>4. Stamped'
    BY <1>1, <1>2, <2>1, <2>2, <2>3 DEF LogInv, Stamped
  <2> QED BY <1>3, <2>1, <2>2, <2>4 DEF StepKeeps
<1> QED BY <1>4, <1>5

LEMMA CancelAnsweredStep ==
  ASSUME LogInv, Faithful, CancelAnswered
  PROVE  StepKeeps
<1>1. call.oid \in Order /\ call.ts \in Int /\ call \in CallType
  BY DEF CancelAnswered, LogInv, TypeInv, TypeOK, CallHasOrder, Busy, CallType
<1> PICK o \in Order, t \in Int : o = call.oid /\ t = call.ts
  BY <1>1
<1>2. /\ call' = NoCall("idle") /\ clock' = clock /\ clock \in Nat
      /\ orders \in [Order -> OrderType] /\ "CANCELLED" \in OrderState
  BY DEF CancelAnswered, LogInv, TypeInv, TypeOK, OrderState
<1>3. call'.pc = "idle" /\ call'.ts = 0
  BY <1>2, NoCallType DEF PC
<1>4. \/ /\ CanTransition(orders[o].st, "CANCELLED")
         /\ orders' = [orders EXCEPT ![o].st = "CANCELLED"]
         /\ Persist(o, "CANCELLED", 0, 0, t)
      \/ log' = log /\ orders' = orders
  BY DEF CancelAnswered
<1>5. CASE log' = log /\ orders' = orders
  BY <1>2, <1>5, QuietStep
<1>6. CASE /\ CanTransition(orders[o].st, "CANCELLED")
           /\ orders' = [orders EXCEPT ![o].st = "CANCELLED"]
           /\ Persist(o, "CANCELLED", 0, 0, t)
  <2>1. orders'[o].st = "CANCELLED" /\ \A q \in Order \ {o} : orders'[q] = orders[q]
    BY <1>2, <1>6 DEF OrderType
  <2>2. RecordsOf(o) # {}
    BY <1>6, MovesOfUnlogged DEF LogInv, Agree, AgreeOn
  <2>3. t <= clock /\ \A i \in RecordsOf(o) : log[i].ts <= t
    BY DEF CancelAnswered, LogInv, Stamped, Busy
  <2>4. /\ Chained' /\ Agree' /\ Writes(o, "CANCELLED")
        /\ \A i \in DOMAIN log' : log'[i].ts <= clock'
    BY <1>2, <1>6, <2>1, <2>2, <2>3, MoveStep
  <2>5. Stamped' /\ InCall'
    BY <1>2, <1>3, <2>4 DEF Stamped, Busy, InCall
  <2> QED BY <1>2, <2>4, <2>5 DEF StepKeeps
<1> QED BY <1>4, <1>5, <1>6

\* Of what a report is made: partial fills, and one event that ends it.
LEMMA ReportKinds ==
  ASSUME NEW quantity \in Nat, NEW fills, NEW report, ReportOf(quantity, fills, report)
  PROVE  /\ report \in Seq(Event)
         /\ \A k \in 1..Len(report) : /\ report[k].to \in {"PARTIALLY_FILLED", "FILLED", "CANCELLED"}
                                      /\ k < Len(report) => report[k].to = "PARTIALLY_FILLED"
<1>1. /\ report \in Seq(Event) /\ Len(fills) \in Nat
      /\ Len(report) \in {Len(fills), Len(fills) + 1}
  BY LenProperties DEF ReportOf
<1>0. (\A to : Ev(to).to = to) /\ \A to, q : Fill(to, q).to = to
  BY DEF Ev, Fill
<1>2. \A k \in 1..Len(fills) : report[k].to = "PARTIALLY_FILLED"
  BY <1>0 DEF ReportOf
<1>3. Len(report) = Len(fills) + 1 => report[Len(report)].to \in {"FILLED", "CANCELLED"}
  BY <1>0 DEF ReportOf
<1> SUFFICES ASSUME NEW k \in 1..Len(report)
             PROVE  /\ report[k].to \in {"PARTIALLY_FILLED", "FILLED", "CANCELLED"}
                    /\ k < Len(report) => report[k].to = "PARTIALLY_FILLED"
  BY <1>1
<1>4. CASE k \in 1..Len(fills)
  BY <1>2, <1>4
<1>5. CASE k \notin 1..Len(fills)
  <2>1. k = Len(report) /\ Len(report) = Len(fills) + 1
    BY <1>1, <1>5
  <2> QED BY <1>1, <1>3, <2>1
<1> QED BY <1>4, <1>5

\* A contract keeper refuses no orphan.
LEMMA ReconcileAnswersKinds ==
  ASSUME TypeOK, Faithful, NEW o \in Order, NEW answer \in ReconcileAnswers(o),
         NEW k \in 1..Len(answer)
  PROVE  answer[k].to \in ReconcileKinds
<1>1. Len(<<>>) = 0 /\ Len(<<Ev("STALE")>>) = 1 /\ <<Ev("STALE")>>[1].to = "STALE"
  BY DEF Ev
<1>2. \/ answer = <<>> \/ answer = <<Ev("STALE")>>
      \/ answer \in FillReports(Remaining(o), {<<>>, <<Ev("CANCELLED")>>})
  BY DEF ReconcileAnswers, ContractReconcile, Faithful
<1>3. CASE answer = <<>> \/ answer = <<Ev("STALE")>>
  <2>1. answer = <<Ev("STALE")>> /\ k = 1
    <3>1. CASE answer = <<>>
      BY <1>1, <3>1
    <3>2. CASE answer = <<Ev("STALE")>>
      <4>1. Len(answer) = 1
        BY <1>1, <3>2
      <4> QED BY <3>2, <4>1
    <3> QED BY <1>3, <3>1, <3>2
  <2> QED BY <1>1, <2>1 DEF ReconcileKinds
<1>4. CASE answer \in FillReports(Remaining(o), {<<>>, <<Ev("CANCELLED")>>})
  <2>1. Remaining(o) \in Nat
    BY DEF TypeOK, OrderType, Remaining
  <2>2. PICK fills \in Seq(Nat) : ReportOf(Remaining(o), fills, answer)
    BY <1>4, <2>1, ReportShape
  <2> QED BY <2>1, <2>2, ReportKinds DEF ReconcileKinds
<1> QED BY <1>2, <1>3, <1>4

\* The venue is asked about an orphan, or fails to answer.
LEMMA AskVenueStep ==
  ASSUME LogInv, Faithful, NEW o \in Order, AskVenue(o) \/ AskRaises(o)
  PROVE  StepKeeps
<1>1. /\ call.pc = "reconciling" /\ log' = log /\ orders' = orders /\ clock' = clock
      /\ call \in CallType /\ TypeOK
  BY DEF AskVenue, AskRaises, LogInv, TypeInv, TypeOK
<1>2. Chained' /\ Agree' /\ \A p : RecordsOf(p)' = RecordsOf(p)
  BY <1>1, AgreeWithoutWrite
<1>3. /\ call'.pc = "reconciling" /\ call'.ts = call.ts
      /\ \A k \in 1..Len(call'.todo) : call'.todo[k].to \in ReconcileKinds
  <2>1. CASE AskVenue(o)
    <3>1. PICK answer \in ReconcileAnswers(o) : call' = [call EXCEPT !.oid = o, !.todo = answer]
      BY <2>1 DEF AskVenue
    <3>2. call'.pc = "reconciling" /\ call'.ts = call.ts /\ call'.todo = answer
      BY <1>1, <3>1 DEF CallType
    <3>3. \A k \in 1..Len(answer) : answer[k].to \in ReconcileKinds
      BY <1>1, ReconcileAnswersKinds
    <3> QED BY <3>2, <3>3
  <2>2. CASE AskRaises(o)
    BY <1>1, <2>2 DEF AskRaises, LogInv, InCall
  <2> QED BY <2>1, <2>2
<1>4. Stamped'
  BY <1>1, <1>2, <1>3 DEF LogInv, Stamped, Busy
<1>5. InCall'
  BY <1>3 DEF InCall
<1> QED BY <1>1, <1>2, <1>4, <1>5 DEF StepKeeps

\* The next event of an answer for an orphan: a legal one is recorded, an illegal one
\* moves nothing.
LEMMA ReconcileNextStep ==
  ASSUME LogInv, Faithful, ReconcileNext
  PROVE  StepKeeps
<1> DEFINE e == Head(call.todo)
           todo == Tail(call.todo)
<1>1. /\ call.oid \in Order /\ call \in CallType /\ call.ts \in Int /\ call.pc = "reconciling"
      /\ call.todo \in Seq(Event) /\ call.todo # <<>> /\ clock \in Nat /\ clock' = clock
      /\ orders \in [Order -> OrderType] /\ TypeOK
  BY DEF ReconcileNext, LogInv, TypeInv, TypeOK, CallHasOrder, CallType
<1> PICK o \in Order, t \in Int : o = call.oid /\ t = call.ts
  BY <1>1
<1>2. /\ e \in Event /\ todo \in Seq(Event) /\ Len(call.todo) \in Nat \ {0}
      /\ Len(todo) = Len(call.todo) - 1 /\ e = call.todo[1]
      /\ \A k \in 1..Len(todo) : todo[k] = call.todo[k + 1]
  <2>1. /\ e \in Event /\ todo \in Seq(Event) /\ Len(todo) = Len(call.todo) - 1
        /\ \A k \in 1..Len(todo) : todo[k] = call.todo[k + 1]
    BY <1>1, HeadTailProperties
  <2>2. Len(call.todo) \in Nat \ {0}
    BY <1>1, EmptySeq, LenProperties
  <2>3. e = call.todo[1]
    BY <1>1
  <2> QED BY <2>1, <2>2, <2>3
<1> PICK to \in OrderState, qty \in Nat : to = e.to /\ qty = e.qty
  BY <1>2 DEF Event
<1>3. \A k \in 1..Len(call.todo) : call.todo[k].to \in ReconcileKinds
  BY <1>1 DEF LogInv, InCall
<1>4. to \in ReconcileKinds /\ \A k \in 1..Len(todo) : todo[k].to \in ReconcileKinds
  <2>1. 1 \in 1..Len(call.todo)
    BY <1>2
  <2>2. ASSUME NEW k \in 1..Len(todo) PROVE todo[k].to \in ReconcileKinds
    <3>1. k + 1 \in 1..Len(call.todo) /\ todo[k] = call.todo[k + 1]
      BY <1>2
    <3> QED BY <1>3, <3>1
  <2> QED BY <1>2, <1>3, <2>1, <2>2
<1>5. Takes(o, e) <=> CanTransition(orders[o].st, to)
  BY <1>4 DEF Takes, TooLate, ReconcileKinds
<1>6. /\ orders' = [orders EXCEPT ![o] = Applied(o, e)]
      /\ \/ /\ CanTransition(orders[o].st, to)
            /\ Persist(o, to, qty, 0, t)
            /\ call' = [call EXCEPT !.todo = todo]
         \/ /\ ~CanTransition(orders[o].st, to)
            /\ log' = log
            /\ call' = [call EXCEPT !.todo = <<>>]
  BY <1>5 DEF ReconcileNext
<1> HIDE DEF todo
<1>7. /\ call'.pc = "reconciling" /\ call'.ts = t
      /\ \A k \in 1..Len(call'.todo) : call'.todo[k].to \in ReconcileKinds
  <2>1. call' = [call EXCEPT !.todo = todo] \/ call' = [call EXCEPT !.todo = <<>>]
    BY <1>6
  <2>2. call'.pc = "reconciling" /\ call'.ts = t /\ (call'.todo = todo \/ call'.todo = <<>>)
    BY <1>1, <2>1 DEF CallType
  <2> QED BY <1>4, <2>2
<1>8. InCall'
  BY <1>7 DEF InCall
<1>9. (\A i \in DOMAIN log : log[i].ts <= t) /\ t <= clock
  BY <1>1 DEF LogInv, Stamped
<1>10. Applied(o, e).st = IF CanTransition(orders[o].st, to) THEN to ELSE orders[o].st
  BY <1>1, AppliedState
<1> HIDE DEF e
<1>11. CASE ~CanTransition(orders[o].st, to)
  <2>1. log' = log /\ \A p \in Order : orders'[p].st = orders[p].st
    BY <1>1, <1>6, <1>10, <1>11
  <2>2. Chained' /\ Agree' /\ \A p : RecordsOf(p)' = RecordsOf(p)
    BY <2>1, AgreeWithoutWrite
  <2>3. Stamped'
    BY <1>1, <1>7, <1>9, <2>1 DEF LogInv, Stamped, Busy
  <2> QED BY <1>8, <2>1, <2>2, <2>3 DEF StepKeeps
<1>12. CASE CanTransition(orders[o].st, to)
  <2>1. orders'[o].st = to /\ \A q \in Order \ {o} : orders'[q] = orders[q]
    BY <1>1, <1>6, <1>10, <1>12
  <2>2. RecordsOf(o) # {}
    BY <1>4, <1>12, MovesOfUnlogged DEF ReconcileKinds, LogInv, Agree, AgreeOn
  <2>3. \A i \in RecordsOf(o) : log[i].ts <= t
    BY <1>9 DEF RecordsOf
  <2>4. /\ Chained' /\ Agree' /\ Writes(o, to)
        /\ \A i \in DOMAIN log' : log'[i].ts <= clock'
        /\ (\A i \in DOMAIN log : log[i].ts <= t) => \A i \in DOMAIN log' : log'[i].ts <= t
    BY <1>1, <1>6, <1>9, <1>12, <2>1, <2>2, <2>3, MoveStep
  <2>5. Stamped'
    BY <1>1, <1>7, <1>9, <2>4 DEF Stamped, Busy
  <2> QED BY <1>8, <2>4, <2>5 DEF StepKeeps
<1> QED BY <1>11, <1>12

\* A report that follows the acknowledgement of a submission.
LEMMA SubmittedThen ==
  ASSUME NEW report \in Seq(Event), NEW answer, answer = <<Ev("SUBMITTED")>> \o report
  PROVE  /\ answer \in Seq(Event)
         /\ Len(report) \in Nat /\ Len(answer) = Len(report) + 1
         /\ answer[1] = Ev("SUBMITTED") /\ answer[1].to = "SUBMITTED"
         /\ \A k \in 1..Len(report) : answer[k + 1] = report[k]
<1> DEFINE first == <<Ev("SUBMITTED")>>
<1>1. first \in Seq(Event) /\ Len(first) = 1 /\ first[1] = Ev("SUBMITTED")
  <2>1. Ev("SUBMITTED") \in Event
    BY DEF Ev, Event, OrderState
  <2> QED BY <2>1
<1>2. answer = first \o report
  OBVIOUS
<1> HIDE DEF first
<1>3. Len(report) \in Nat
  BY LenProperties
<1>4. /\ answer \in Seq(Event) /\ Len(answer) = Len(first) + Len(report)
      /\ \A i \in 1..(Len(first) + Len(report)) :
           answer[i] = IF i <= Len(first) THEN first[i] ELSE report[i - Len(first)]
  BY <1>1, <1>2, ConcatProperties
<1>5. answer[1] = Ev("SUBMITTED")
  BY <1>1, <1>3, <1>4
<1>6. ASSUME NEW k \in 1..Len(report) PROVE answer[k + 1] = report[k]
  <2>1. k + 1 \in 1..(1 + Len(report)) /\ ~(k + 1 <= 1) /\ (k + 1) - 1 = k
    BY <1>3
  <2> QED BY <1>1, <1>4, <2>1
<1>7. Ev("SUBMITTED").to = "SUBMITTED"
  BY DEF Ev
<1> QED BY <1>1, <1>3, <1>4, <1>5, <1>6, <1>7

\* Every answer of a contract venue to a validated order is a path of the FSM.
LEMMA SubmitAnswersLegal ==
  ASSUME Faithful, NEW req \in Nat, NEW answer \in SubmitAnswers(req)
  PROVE  Legal("VALIDATED", answer)
<1>1. /\ CanTransition("VALIDATED", "SUBMITTED") /\ CanTransition("VALIDATED", "REJECTED")
      /\ CanTransition("SUBMITTED", "FILLED") /\ CanTransition("SUBMITTED", "CANCELLED")
      /\ CanTransition("SUBMITTED", "PARTIALLY_FILLED")
      /\ CanTransition("PARTIALLY_FILLED", "PARTIALLY_FILLED")
      /\ CanTransition("PARTIALLY_FILLED", "FILLED")
      /\ CanTransition("PARTIALLY_FILLED", "CANCELLED")
  BY DEF CanTransition, AllowedTransitions, AtVenue
<1>2. (\A to : Ev(to).to = to) /\ \A to, q : Fill(to, q).to = to
  BY DEF Ev, Fill
<1>3. ASSUME NEW a, CanTransition("VALIDATED", a.to), answer = <<a>>
      PROVE  Legal("VALIDATED", answer)
  BY <1>3 DEF Legal
<1>4. ASSUME NEW a, NEW b, CanTransition("VALIDATED", a.to), CanTransition(a.to, b.to),
             answer = <<a, b>>
      PROVE  Legal("VALIDATED", answer)
  BY <1>4 DEF Legal
<1>5. ASSUME NEW a, NEW b, NEW c, CanTransition("VALIDATED", a.to), CanTransition(a.to, b.to),
             CanTransition(b.to, c.to), answer = <<a, b, c>>
      PROVE  Legal("VALIDATED", answer)
  BY <1>5 DEF Legal
<1>6. CASE Venue = "paper"
  <2>1. \/ answer = <<Ev("REJECTED")>>
        \/ answer = <<Ev("SUBMITTED"), Fill("FILLED", req)>>
        \/ \E d \in Depth :
             answer = <<Ev("SUBMITTED"), Fill("PARTIALLY_FILLED", d), Ev("CANCELLED")>>
    BY <1>6 DEF SubmitAnswers, PaperSubmit
  <2> QED BY <1>1, <1>2, <1>3, <1>4, <1>5, <2>1
<1>7. CASE Venue = "contract"
  <2>1. \/ answer = <<Ev("REJECTED")>>
        \/ \E report \in FillReports(req, {<<>>, <<Ev("CANCELLED")>>}) :
             answer = <<Ev("SUBMITTED")>> \o report
    BY <1>7 DEF SubmitAnswers, ContractSubmit
  <2>2. ASSUME NEW report \in FillReports(req, {<<>>, <<Ev("CANCELLED")>>}),
               answer = <<Ev("SUBMITTED")>> \o report
        PROVE  Legal("VALIDATED", answer)
    <3>1. PICK fills \in Seq(Nat) : ReportOf(req, fills, report)
      BY ReportShape
    <3>2. /\ report \in Seq(Event)
          /\ \A k \in 1..Len(report) :
               /\ report[k].to \in {"PARTIALLY_FILLED", "FILLED", "CANCELLED"}
               /\ k < Len(report) => report[k].to = "PARTIALLY_FILLED"
      BY <3>1, ReportKinds
    <3>3. /\ Len(report) \in Nat /\ Len(answer) = Len(report) + 1
          /\ answer[1].to = "SUBMITTED"
          /\ \A k \in 1..Len(report) : answer[k + 1] = report[k]
      BY <2>2, <3>2, SubmittedThen
    <3> SUFFICES ASSUME NEW k \in 1..Len(answer)
                 PROVE  CanTransition(IF k = 1 THEN "VALIDATED" ELSE answer[k - 1].to, answer[k].to)
      BY DEF Legal
    <3>4. CASE k = 1
      BY <1>1, <3>3, <3>4
    <3>5. CASE k = 2
      <4>1. 1 \in 1..Len(report) /\ answer[k] = report[1] /\ answer[k - 1].to = "SUBMITTED"
        BY <3>3, <3>5
      <4>2. report[1].to \in {"PARTIALLY_FILLED", "FILLED", "CANCELLED"}
        BY <3>2, <4>1
      <4> QED BY <1>1, <3>5, <4>1, <4>2
    <3>6. CASE k > 2
      <4>1. /\ k - 1 \in 1..Len(report) /\ k - 2 \in 1..Len(report) /\ k - 2 < Len(report)
            /\ (k - 1) + 1 = k /\ (k - 2) + 1 = k - 1 /\ k # 1
        BY <3>3, <3>6
      <4>2. answer[k] = report[k - 1] /\ answer[k - 1] = report[k - 2]
        BY <3>3, <4>1
      <4>3. /\ report[k - 2].to = "PARTIALLY_FILLED"
            /\ report[k - 1].to \in {"PARTIALLY_FILLED", "FILLED", "CANCELLED"}
        BY <3>2, <4>1
      <4> QED BY <1>1, <4>1, <4>2, <4>3
    <3> QED BY <3>3, <3>4, <3>5, <3>6
  <2> QED BY <1>1, <1>2, <1>3, <2>1, <2>2
<1> QED BY <1>6, <1>7 DEF Faithful

\* A submission changes only the call: what is left to apply is a path of the FSM.
LEMMA SubmitStep ==
  ASSUME LogInv, Faithful, Submit
  PROVE  StepKeeps
<1>1. /\ call.oid \in Order /\ call \in CallType /\ clock \in Nat /\ clock' = clock
      /\ orders \in [Order -> OrderType] /\ log' = log /\ orders' = orders
  <2>1. call.pc \in Busy
    BY DEF Submit, Busy
  <2> QED BY <2>1 DEF Submit, LogInv, TypeInv, TypeOK, CallHasOrder
<1> PICK o \in Order : o = call.oid
  BY <1>1
<1>2. orders[o].st = "VALIDATED" /\ RecordsOf(o) # {} /\ orders[o].req \in Nat
  <2>1. orders[o].req \in Int
    BY <1>1 DEF OrderType
  <2>2. orders[o].req > 0
    BY DEF Submit, LogInv, TypeInv, CallHasOrder
  <2> QED BY <2>1, <2>2 DEF Submit, LogInv, InCall
<1>3. PICK answer \in SubmitAnswers(orders[o].req) :
        call' = [call EXCEPT !.pc = "applying", !.todo = answer, !.ts = clock]
  BY DEF Submit
<1>4. call'.pc = "applying" /\ call'.todo = answer /\ call'.ts = clock /\ call'.oid = o
  BY <1>1, <1>3 DEF CallType
<1>5. Chained' /\ Agree' /\ \A p : RecordsOf(p)' = RecordsOf(p)
  BY <1>1, AgreeWithoutWrite
<1>6. Legal("VALIDATED", answer)
  BY <1>2, <1>3, SubmitAnswersLegal
<1>7. InCall'
  <2>1. RecordsOf(o)' # {} /\ orders'[o].st = "VALIDATED" /\ "VALIDATED" \in OrderState
    BY <1>1, <1>2, <1>5 DEF OrderState
  <2> QED BY <1>4, <1>6, <2>1 DEF InCall, Legal
<1>8. Stamped'
  <2>1. \A i \in RecordsOf(o) : log[i].ts <= clock
    BY DEF LogInv, Stamped, RecordsOf
  <2> QED BY <1>1, <1>4, <1>5, <2>1 DEF LogInv, Stamped
<1> QED BY <1>1, <1>5, <1>7, <1>8 DEF StepKeeps

\* The next event of a submission is a legal move, so it is recorded and none is dropped.
LEMMA ApplyNextStep ==
  ASSUME LogInv, Faithful, ApplyNext
  PROVE  StepKeeps
<1> DEFINE e == Head(call.todo)
           todo == Tail(call.todo)
<1>1. /\ call.oid \in Order /\ call \in CallType /\ call.ts \in Int /\ call.pc = "applying"
      /\ call.todo \in Seq(Event) /\ call.todo # <<>> /\ clock \in Nat /\ clock' = clock
      /\ orders \in [Order -> OrderType] /\ TypeOK
  <2>1. call.pc = "applying" /\ call.todo # <<>> /\ call.pc \in Busy /\ clock' = clock
    BY DEF ApplyNext, Busy
  <2> QED BY <2>1 DEF LogInv, TypeInv, TypeOK, CallHasOrder, CallType
<1> PICK o \in Order, t \in Int : o = call.oid /\ t = call.ts
  BY <1>1
<1>2. /\ e \in Event /\ todo \in Seq(Event) /\ Len(call.todo) \in Nat \ {0}
      /\ Len(todo) = Len(call.todo) - 1 /\ e = call.todo[1]
      /\ \A k \in 1..Len(todo) : todo[k] = call.todo[k + 1]
  <2>1. /\ e \in Event /\ todo \in Seq(Event) /\ Len(todo) = Len(call.todo) - 1
        /\ \A k \in 1..Len(todo) : todo[k] = call.todo[k + 1]
    BY <1>1, HeadTailProperties
  <2>2. Len(call.todo) \in Nat \ {0}
    BY <1>1, EmptySeq, LenProperties
  <2>3. e = call.todo[1]
    BY <1>1
  <2> QED BY <2>1, <2>2, <2>3
<1> PICK to \in OrderState, qty \in Nat : to = e.to /\ qty = e.qty
  BY <1>2 DEF Event
<1>3. /\ orders[o].st \in OrderState /\ RecordsOf(o) # {}
      /\ Legal(orders[o].st, call.todo)
  BY <1>1 DEF LogInv, InCall
<1>4. CanTransition(orders[o].st, to)
  <2>1. 1 \in 1..Len(call.todo) /\ call.todo[1].to = to
    BY <1>2
  <2>2. CanTransition(orders[o].st, call.todo[1].to)
    BY <1>3, <2>1 DEF Legal
  <2> QED BY <2>1, <2>2
<1>5. Legal(to, todo)
  <2> SUFFICES ASSUME NEW k \in 1..Len(todo)
               PROVE  CanTransition(IF k = 1 THEN to ELSE todo[k - 1].to, todo[k].to)
    BY DEF Legal
  <2>1. CanTransition(call.todo[k].to, call.todo[k + 1].to)
    <3>1. k + 1 \in 1..Len(call.todo) /\ k + 1 # 1 /\ (k + 1) - 1 = k
      BY <1>2
    <3> QED BY <1>3, <3>1 DEF Legal
  <2>2. (IF k = 1 THEN to ELSE todo[k - 1].to) = call.todo[k].to
    BY <1>2
  <2> QED BY <1>2, <2>1, <2>2
<1>6. /\ orders' = [orders EXCEPT ![o] = Applied(o, e)]
      /\ Persist(o, to, qty, 0, t)
      /\ call'.pc = "applying" /\ call'.oid = o /\ call'.todo = todo /\ call'.ts = t
  <2>1. /\ orders' = [orders EXCEPT ![o] = Applied(o, e)]
        /\ Persist(o, to, qty, 0, t)
        /\ call' = [call EXCEPT !.todo = Tail(@),
                      !.fills = IF e.to \in FillKinds /\ e.fill THEN Append(@, e.qty) ELSE @]
    BY <1>4 DEF ApplyNext, Takes
  <2> DEFINE fills == IF e.to \in FillKinds /\ e.fill THEN Append(call.fills, e.qty)
                      ELSE call.fills
  <2>2. call' = [call EXCEPT !.todo = todo, !.fills = fills]
    BY <2>1
  <2> HIDE DEF fills, todo
  <2>3. call'.pc = "applying" /\ call'.oid = o /\ call'.todo = todo /\ call'.ts = t
    BY <1>1, <2>2 DEF CallType
  <2> QED BY <2>1, <2>3
<1>7. orders'[o].st = to /\ \A q \in Order \ {o} : orders'[q] = orders[q]
  <2>1. Applied(o, e).st = to
    BY <1>1, <1>4, AppliedState
  <2> QED BY <1>1, <1>6, <2>1
<1>8. t <= clock /\ \A i \in RecordsOf(o) : log[i].ts <= t
  BY <1>1 DEF LogInv, Stamped, Busy
<1>9. /\ Chained' /\ Agree' /\ RecordsOf(o)' # {} /\ Writes(o, to)
      /\ \A i \in DOMAIN log' : log'[i].ts <= clock'
      /\ \A i \in RecordsOf(o)' : log'[i].ts <= t
  BY <1>1, <1>3, <1>4, <1>6, <1>7, <1>8, MoveStep
<1>10. Stamped'
  BY <1>1, <1>6, <1>8, <1>9 DEF Stamped
<1>11. InCall'
  BY <1>5, <1>6, <1>7, <1>9 DEF InCall, Legal
<1> QED BY <1>9, <1>10, <1>11 DEF StepKeeps

\* A step that changes nothing.
LEMMA StutterStep ==
  ASSUME LogInv, UNCHANGED vars
  PROVE  StepKeeps
<1>1. Chained' /\ Agree' /\ \A p : RecordsOf(p)' = RecordsOf(p)
  BY AgreeWithoutWrite DEF vars
<1>2. Stamped' /\ InCall'
  BY <1>1 DEF vars, LogInv, Stamped, InCall, Legal
<1> QED BY <1>1, <1>2 DEF StepKeeps, vars

\* Every step keeps the invariant, and writes one legal record or none.
LEMMA NextKeeps ==
  ASSUME LogInv, Faithful, [Next]_vars
  PROVE  StepKeeps /\ LogInv'
<1>1. TypeInv'
  BY NextType DEF LogInv
<1>2. StepKeeps
  <2>1. CASE Request
    <3>1. PICK o \in Order :
            \/ \E req \in Qty : \/ RefuseAtGate(o, req) \/ RefuseAtPricing(o, req)
                                \/ DryRun(o, req) \/ Accept(o, req)
            \/ \E pending \in {"CANCEL_PENDING", "REPLACE_PENDING"} : RequestCancel(o, pending)
      BY <2>1 DEF Request
    <3>2. ASSUME NEW req \in Qty, RefuseAtGate(o, req) PROVE StepKeeps
      <4>1. Create(o, req, "rejecting")
        BY <3>2 DEF RefuseAtGate
      <4> QED BY <4>1, CreateStep
    <3>3. ASSUME NEW req \in Qty, Accept(o, req) PROVE StepKeeps
      <4>1. Create(o, req, "created")
        BY <3>3 DEF Accept
      <4> QED BY <4>1, CreateStep
    <3>4. ASSUME NEW req \in Qty, RefuseAtPricing(o, req) \/ DryRun(o, req) PROVE StepKeeps
      BY <3>4, UnloggedStep
    <3>5. ASSUME NEW pending \in {"CANCEL_PENDING", "REPLACE_PENDING"}, RequestCancel(o, pending)
          PROVE  StepKeeps
      BY <3>5, RequestCancelStep
    <3> QED BY <3>1, <3>2, <3>3, <3>4, <3>5
  <2>2. CASE EngineStep
    <3>1. CASE PersistRefusal \/ Validate
      BY <3>1, RecordStep
    <3>2. CASE Submit
      BY <3>2, SubmitStep
    <3>3. CASE SubmitRaises \/ Return
      BY <3>3, QuietSteps
    <3>4. CASE ApplyNext
      BY <3>4, ApplyNextStep
    <3>5. CASE CancelAnswered
      BY <3>5, CancelAnsweredStep
    <3>6. CASE Reconcile
      BY <3>6, AskVenueStep, ReconcileNextStep, QuietSteps DEF Reconcile
    <3> QED BY <2>2, <3>1, <3>2, <3>3, <3>4, <3>5, <3>6 DEF EngineStep
  <2>3. CASE Restart \/ Crash \/ CrashInAppend \/ Tick
    <3>1. CASE LoadWithOrphans \/ RegisterRaises
      BY <3>1, LoadStep
    <3>2. CASE Tick
      BY <3>2, TickStep
    <3>3. CASE ColdStart \/ LoadFails \/ LoadClean \/ Crash \/ CrashInAppend
      BY <3>3, QuietSteps
    <3> QED BY <2>3, <3>1, <3>2, <3>3 DEF Restart
  <2>4. CASE UNCHANGED vars
    BY <2>4, StutterStep
  <2> QED BY <2>1, <2>2, <2>3, <2>4 DEF Next
<1> QED BY <1>1, <1>2 DEF StepKeeps, LogInv


\* The invariant holds of an empty log.
LEMMA InitLog == Init => LogInv
<1> SUFFICES ASSUME Init PROVE LogInv
  OBVIOUS
<1>1. TypeInv
  BY InitType
<1>2. log = <<>> /\ \A o : RecordsOf(o) = {}
  BY DEF Init, RecordsOf
<1>3. call.pc = "idle" /\ call.ts = 0 /\ clock = 0
  BY NoCallType DEF Init, PC
<1>4. Chained /\ InCall
  BY <1>2, <1>3 DEF Chained, InCall
<1>5. Stamped
  BY <1>2, <1>3 DEF Stamped, Busy
<1>6. Agree
  BY <1>2 DEF Init, Absent, Agree, AgreeOn
<1> QED BY <1>1, <1>4, <1>5, <1>6 DEF LogInv

-----------------------------------------------------------------------------
(* The theorems *)

\* Whatever crashes, restarts and recoveries wrote the log, it replays.
THEOREM LogAlwaysReplays == ASSUME Faithful PROVE Spec => []LogReplays
<1>1. LogInv /\ [Next]_vars => LogInv'
  BY NextKeeps
<1>2. LogInv => LogReplays
  BY ChainedReplays DEF LogInv
<1> QED BY <1>1, <1>2, InitLog, PTL DEF Spec

\* A terminal state has no moves.
LEMMA TerminalHasNoMoves ==
  ASSUME NEW st \in TerminalStates, NEW to
  PROVE  ~CanTransition(st, to)
BY DEF TerminalStates, CanTransition, AllowedTransitions, AtVenue

\* The log never reopens an order it closed: no step adds to its records.
THEOREM ClosedStaysClosed == ASSUME Faithful PROVE Spec => ClosedInLogIsFinal
<1> DEFINE Final == \A o \in Logged : Restored(o).st \in TerminalStates
                                        => RecordsOf(o)' = RecordsOf(o)
<1>1. LogInv /\ [Next]_vars => LogInv'
  BY NextKeeps
<1>2. LogInv /\ [Next]_vars => [Final]_vars
  <2> SUFFICES ASSUME LogInv, [Next]_vars, NEW o \in Logged, Restored(o).st \in TerminalStates
               PROVE  RecordsOf(o)' = RecordsOf(o)
    OBVIOUS
  <2>1. o \in Order /\ RecordsOf(o) # {} /\ log[LastOf(o)].to \in TerminalStates
    BY DEF Logged, Restored
  <2>2. CASE log' = log
    BY <2>2 DEF RecordsOf
  <2>3. ASSUME NEW p \in Order, NEW to \in OrderState, Writes(p, to)
        PROVE  RecordsOf(o)' = RecordsOf(o)
    <3>1. CASE p = o
      <4>1. \A st : NewestIs(o, st) => st = log[LastOf(o)].to
        BY <2>1, NewestIsLast DEF LogInv
      <4>2. PICK st \in OrderState : NewestIs(o, st) /\ CanTransition(st, to)
        BY <2>1, <2>3, <3>1 DEF Writes
      <4> QED BY <2>1, <4>1, <4>2, TerminalHasNoMoves
    <3>2. CASE p # o
      BY <2>1, <2>3, <3>2, WritesChained DEF LogInv
    <3> QED BY <3>1, <3>2
  <2> QED BY <2>2, <2>3, NextKeeps DEF StepKeeps
<1> QED BY <1>1, <1>2, InitLog, PTL DEF Spec, ClosedInLogIsFinal

\* What the ledger shows of an order is what its newest record reports.
ShowsNewest == \A o \in Order : \A st \in OrderState : NewestIs(o, st) => LedgerState[o] = st

LEMMA LedgerShowsNewest == TypeInv /\ Chained => ShowsNewest
<1> SUFFICES ASSUME TypeInv, Chained, NEW o \in Order, NEW st \in OrderState, NewestIs(o, st)
             PROVE  LedgerState[o] = st
  BY DEF ShowsNewest
<1>1. LastOf(o) \in RecordsOf(o) /\ \A j \in RecordsOf(o) : j <= LastOf(o)
  BY EndsInFileOrder DEF NewestIs
<1>2. NewestOf(o) \in RecordsOf(o) /\ \A j \in RecordsOf(o) : j <= NewestOf(o)
  BY <1>1 DEF NewestOf
<1> QED BY <1>2 DEF LedgerState, Logged, NewestIs

\* The log implements the ledger: its records are the ledger's moves, whatever
\* crashes, restarts and recoveries come between them.
THEOREM LogImplementsLedger == ASSUME Faithful PROVE Spec => LogIsALedger
<1>1. Init => Ledger!Init
  BY DEF Init, Ledger!Init, LedgerState, Logged, RecordsOf
<1>2. LogInv /\ [Next]_vars => LogInv'
  BY NextKeeps
<1>3. LogInv /\ [Next]_vars => [Ledger!Next]_LedgerState
  <2> SUFFICES ASSUME LogInv, [Next]_vars PROVE [Ledger!Next]_LedgerState
    OBVIOUS
  <2>1. CASE log' = log
    BY <2>1 DEF LedgerState, Logged, NewestOf, RecordsOf
  <2>2. ASSUME NEW o \in Order, NEW to \in OrderState, Writes(o, to)
        PROVE  Ledger!Next
    <3>1. ShowsNewest /\ ShowsNewest'
      <4>1. LogInv'
        BY NextKeeps
      <4>2. (TypeInv /\ Chained => ShowsNewest)'
        BY LedgerShowsNewest, PTL
      <4> QED BY <4>1, <4>2, LedgerShowsNewest DEF LogInv
    <3>2. RecordsOf(o)' # {} /\ NewestIs(o, to)'
      BY <2>2, WritesChained DEF LogInv, NewestIs
    <3>3. LedgerState'[o] = to
      BY <3>1, <3>2 DEF ShowsNewest
    <3>4. ASSUME NEW p \in Order \ {o} PROVE LedgerState'[p] = LedgerState[p]
      <4>1. /\ RecordsOf(p)' = RecordsOf(p)
            /\ \A st : NewestIs(p, st) <=> NewestIs(p, st)'
        BY <2>2, WritesChained DEF LogInv
      <4>2. CASE RecordsOf(p) = {}
        BY <4>1, <4>2 DEF LedgerState, Logged
      <4>3. CASE RecordsOf(p) # {}
        <5>1. NewestIs(p, log[LastOf(p)].to) /\ log[LastOf(p)].to \in OrderState
          BY <4>3, NewestIsLast, EndsInFileOrder, RecordTypes
          DEF LogInv, TypeInv, TypeOK, RecordsOf
        <5> PICK st \in OrderState : st = log[LastOf(p)].to
          BY <5>1
        <5> QED BY <3>1, <4>1, <5>1 DEF ShowsNewest
      <4> QED BY <4>2, <4>3
    <3>5. LedgerState' = [LedgerState EXCEPT ![o] = to]
      BY <3>3, <3>4 DEF LedgerState
    <3>6. CASE RecordsOf(o) = {} /\ to = "CREATED"
      <4>1. LedgerState[o] = "NONE"
        BY <3>6 DEF LedgerState, Logged
      <4> QED BY <3>5, <3>6, <4>1 DEF Ledger!Next, Ledger!Open
    <3>7. ASSUME NEW st \in OrderState, NewestIs(o, st), CanTransition(st, to)
          PROVE  Ledger!Next
      <4>1. LedgerState[o] = st
        BY <3>1, <3>7 DEF ShowsNewest
      <4>2. Ledger!CanTransition(LedgerState[o], to) /\ to \in Ledger!OrderState
        BY <3>7, <4>1 DEF CanTransition, Ledger!CanTransition, AllowedTransitions,
           Ledger!AllowedTransitions, AtVenue, Ledger!AtVenue, OrderState, Ledger!OrderState
      <4> QED BY <3>5, <4>2 DEF Ledger!Next, Ledger!Move
    <3> QED BY <2>2, <3>6, <3>7 DEF Writes
  <2> QED BY <2>1, <2>2, NextKeeps DEF StepKeeps
<1> QED BY <1>1, <1>2, <1>3, InitLog, PTL DEF Spec, LogIsALedger, Ledger!Spec

=============================================================================
