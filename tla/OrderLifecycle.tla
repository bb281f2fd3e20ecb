--------------------------- MODULE OrderLifecycle ---------------------------
(***************************************************************************)
(* The order lifecycle engine of crypto_core/execution: one process that   *)
(* takes execution requests one at a time (ExecutionLifecycleEngine), the  *)
(* venue adapter it submits to, the append-only event log it persists to   *)
(* (ExecutionStateStore), the crash that may fall between any two appends  *)
(* and the restart that replays the log and reconciles the orders it left  *)
(* open (RecoveryBootstrap, phases 1 and 3).                               *)
(*                                                                         *)
(* A step is one change of an Order followed by its append to the log, so  *)
(* that Crash can fall between any two of them.  Quantities are whole      *)
(* units; prices, symbols and evidence are left out.                       *)
(***************************************************************************)
EXTENDS OrderFSM, Integers, Sequences, FiniteSets

CONSTANTS
  Order,          \* order identifiers (fresh UUIDs in the code)
  NoOrder,        \* not an order: the engine is not processing one
  Qty,            \* sizes that may be requested; zero and less are refused
  Depth,          \* top-of-book depths a BookContext may carry; 0 is possible
  AllowDegraded,  \* PaperAdapterConfig.allow_degraded_fill
  Modes,          \* execution modes a process may be started in
  Venue,          \* "paper", or another adapter: "contract" or "disorderly"
  ReportedQty,    \* quantities a disorderly adapter reports
  MaxAnswer,      \* bound on the events in one answer of a disorderly adapter
  MaxLog,         \* bound: with so long a log it has no more to say of an orphan
  Faults,         \* subset of FaultKinds
  Skew,           \* request (exchange) clock minus local clock
  MaxClock        \* bound on the local clock

AdapterFaults == {"adapter_error", "register_error", "reconcile_error"}
FaultKinds == {"append_error", "torn_write"} \cup AdapterFaults

ASSUME OrderAssumption == NoOrder \notin Order
ASSUME QtyAssumption == Qty \subseteq Int /\ Depth \subseteq Nat
ASSUME ModesAssumption == Modes \subseteq {"paper", "dry_run", "live"}
ASSUME VenueAssumption ==
  /\ Venue \in {"paper", "contract", "disorderly"}
  /\ ReportedQty \subseteq Nat /\ MaxAnswer \in Nat /\ MaxLog \in Nat
\* The paper venue registers and reconciles from a dictionary: neither call raises.
ASSUME FaultsAssumption ==
  /\ Faults \subseteq FaultKinds /\ AllowDegraded \in BOOLEAN
  /\ Venue = "paper" => {"register_error", "reconcile_error"} \cap Faults = {}
ASSUME ClockAssumption == Skew \subseteq Int /\ MaxClock \in Nat

VARIABLES
  mode,        \* execution mode of the running process
  orders,      \* Order objects in memory: state, requested and filled quantity
  registered,  \* keys of engine._orders
  call,        \* the call in progress: where it is, its order, events to apply
               \* (while reconciling, the order last asked about)
  orphans,     \* restored open orders still to reconcile
  unresolved,  \* orders the last reconciliation counted as unresolved
  log,         \* the JSONL file: one record per persisted event
  torn,        \* the file ends in, or holds, a line that does not parse
  clock        \* time.time_ns() of the process

vars == <<mode, orders, registered, call, orphans, unresolved, log, torn, clock>>

-----------------------------------------------------------------------------
(* Orders, events and log records *)

Absent == [st |-> "NONE", req |-> 0, filled |-> 0]
Event == [to : OrderState, fill : BOOLEAN, qty : Nat]
Record == [oid : Order, to : OrderState, qty : Nat, req : Int, ts : Int]
PC == {"down", "blocked", "idle", "rejecting", "created", "validated",
       "applying", "cancelling", "reconciling"}
OrderType == [st : OrderState \cup {"NONE"}, req : Int, filled : Nat]
CallType == [pc : PC, oid : Order \cup {NoOrder}, todo : Seq(Event), fills : Seq(Nat), ts : Int]

CallAt(where, o, ts) == [pc |-> where, oid |-> o, todo |-> <<>>, fills |-> <<>>, ts |-> ts]
NoCall(where) == CallAt(where, NoOrder, 0)

\* An event with and without a FillEvent.
Ev(to) == [to |-> to, fill |-> FALSE, qty |-> 0]
Fill(to, qty) == [to |-> to, fill |-> TRUE, qty |-> qty]

\* The kinds of event whose FillEvent the engine takes.
FillKinds == {"PARTIALLY_FILLED", "FILLED"}

\* The sum of fills, counted unit by unit.
Total(fills) == Cardinality(UNION {{i} \X (1..fills[i]) : i \in DOMAIN fills})

Remaining(o) ==
  IF orders[o].filled < orders[o].req THEN orders[o].req - orders[o].filled ELSE 0

RecordsOf(o) == {i \in DOMAIN log : log[i].oid = o}
Logged == {o \in Order : RecordsOf(o) # {}}

\* append_event under _maybe_persist: an append that raises is logged and ignored.
Persist(o, to, qty, req, ts) ==
  \/ log' = Append(log, [oid |-> o, to |-> to, qty |-> qty, req |-> req, ts |-> ts])
  \/ "append_error" \in Faults /\ log' = log

-----------------------------------------------------------------------------
(* Replay of the log: _replay_records.  The records of an order are taken in
   the order of their timestamps, those of one timestamp in file order. *)

Before(i, j) ==
  \/ log[i].ts < log[j].ts
  \/ log[i].ts = log[j].ts /\ i < j

FirstOf(o) == CHOOSE i \in RecordsOf(o) : \A j \in RecordsOf(o) \ {i} : Before(i, j)
LastOf(o) == CHOOSE i \in RecordsOf(o) : \A j \in RecordsOf(o) \ {i} : Before(j, i)

FollowedBy(o, i, j) ==
  /\ Before(i, j)
  /\ \A k \in RecordsOf(o) : ~(Before(i, k) /\ Before(k, j))

\* The group starts with CREATED and each later record is a move of the FSM.  (The
\* code skips a second CREATED of a group; no writer appends one.)
Replays(o) ==
  /\ log[FirstOf(o)].to = "CREATED"
  /\ \A i, j \in RecordsOf(o) :
       FollowedBy(o, i, j) => CanTransition(log[i].to, log[j].to)

Loadable == ~torn /\ \A o \in Logged : Replays(o)

\* Mutant of LoggedFill: replay adds up the complete fills only.
LoggedFillWithoutPartials(o) ==
  Cardinality(UNION {{i} \X (1..log[i].qty) : i \in {j \in RecordsOf(o) : log[j].to = "FILLED"}})

\* The sum of the fills of o, counted unit by unit.
LoggedFill(o) == Cardinality(UNION {{i} \X (1..log[i].qty) : i \in RecordsOf(o)})

Restored(o) ==
  [st |-> log[LastOf(o)].to, req |-> log[FirstOf(o)].req, filled |-> LoggedFill(o)]

\* Mutant of Orphans: a partially filled order is not seen as open.
OrphansSubmittedOnly == {o \in Logged : Restored(o).st \notin TerminalStates \cup {"PARTIALLY_FILLED"}}

Orphans == {o \in Logged : Restored(o).st \notin TerminalStates}

-----------------------------------------------------------------------------
(* What a venue adapter may answer *)

\* Mutant of PaperSubmit: an order for exactly the depth is taken for a partial fill.
PaperSubmitAtDepth(req) ==
  {<<Ev("SUBMITTED"), Fill("PARTIALLY_FILLED", d), Ev("CANCELLED")>> : d \in Depth}

\* PaperVenueAdapter.submit_order, after the engine's own pricing accepted the book.
PaperSubmit(req) ==
  {<<Ev("REJECTED")>>}
    \cup (IF AllowDegraded THEN {<<Ev("SUBMITTED"), Fill("FILLED", req)>>} ELSE {})
    \cup {IF d < req
            THEN <<Ev("SUBMITTED"), Fill("PARTIALLY_FILLED", d), Ev("CANCELLED")>>
            ELSE <<Ev("SUBMITTED"), Fill("FILLED", req)>> : d \in Depth}

\* Partial fills, in any number, that leave some of a quantity open.
PartialFills(quantity) ==
  {fills \in UNION {[1..n -> 1..(quantity - 1)] : n \in 0..(quantity - 1)} :
     Total(fills) < quantity}

PartialEvents(fills) == [i \in DOMAIN fills |-> Fill("PARTIALLY_FILLED", fills[i])]

\* Partial fills of a quantity, then the fill that completes it or one of the ends.
\* A contract keeper's fills are positive and its FILLED completes the order.
FillReports(quantity, ends) ==
  UNION {{PartialEvents(fills) \o end :
            end \in {<<Fill("FILLED", quantity - Total(fills))>>} \cup ends} :
         fills \in PartialFills(quantity)}

\* The contract of VenueAdapter.submit_order: REJECTED, or SUBMITTED, fills, and
\* perhaps a CANCELLED for what cannot be filled.
ContractSubmit(req) ==
  {<<Ev("REJECTED")>>}
    \cup {<<Ev("SUBMITTED")>> \o report : report \in FillReports(req, {<<>>, <<Ev("CANCELLED")>>})}

\* The contract of reconcile_order: nothing of an unknown order, STALE, or what the
\* exchange reports since.  It knows no order that was only created, but may know
\* one that was being submitted when the process died.
ContractReconcile(o) ==
  {<<>>, <<Ev("STALE")>>}
    \cup (IF orders[o].st = "CREATED" THEN {}
          ELSE FillReports(Remaining(o), {<<>>, <<Ev("CANCELLED")>>}))

\* An adapter that keeps no order or measure: events of the kinds the engine handles
\* (_apply_single_event ignores a VALIDATED, replay a CREATED), well formed as
\* OrderEvent documents: a fill on the fill kinds only.
Reported ==
  {Ev(s) : s \in OrderState \ {"CREATED", "VALIDATED"}}
    \cup {Fill(s, q) : s \in FillKinds, q \in ReportedQty}
DisorderlyAnswers == UNION {[1..n -> Reported] : n \in 0..MaxAnswer}

SubmitAnswers(req) ==
  CASE Venue = "paper" -> PaperSubmit(req)
    [] Venue = "contract" -> ContractSubmit(req)
    [] Venue = "disorderly" -> DisorderlyAnswers

\* request_cancel of a non-terminal order: the paper venue always acknowledges.
CancelAnswers == IF Venue = "paper" THEN {"CANCELLED"} ELSE {"CANCELLED", "REJECTED"}

\* Mutant of ReconcileAnswers: the adapter was not told of the restored orders.
ReconcileAnswersUntold(o) == {<<>>}

\* reconcile_order of a non-terminal order: STALE in paper mode.
ReconcileAnswers(o) ==
  CASE Venue = "paper" -> {<<Ev("STALE")>>}
    [] Venue = "contract" -> ContractReconcile(o)
    [] Venue = "disorderly" -> IF Len(log) < MaxLog THEN DisorderlyAnswers ELSE {<<>>}

-----------------------------------------------------------------------------
(* Start, crash and the local clock *)

Init ==
  /\ mode \in Modes
  /\ orders = [o \in Order |-> Absent]
  /\ registered = {}
  /\ call = NoCall("idle")
  /\ orphans = {} /\ unresolved = {}
  /\ log = <<>> /\ torn = FALSE
  /\ clock = 0

\* The process dies: everything but the file is lost.
LoseMemory ==
  /\ call.pc # "down"
  /\ orders' = [o \in Order |-> Absent]
  /\ registered' = {}
  /\ call' = NoCall("down")
  /\ orphans' = {} /\ unresolved' = {}

Crash == LoseMemory /\ UNCHANGED <<mode, log, torn, clock>>

\* The process dies inside the write of an append.
CrashInAppend ==
  /\ "torn_write" \in Faults
  /\ call.pc # "blocked"
  /\ LoseMemory
  /\ torn' = TRUE
  /\ UNCHANGED <<mode, log, clock>>

Tick ==
  /\ clock < MaxClock
  /\ clock' = clock + 1
  /\ UNCHANGED <<mode, orders, registered, call, orphans, unresolved, log, torn>>

\* A new process that does not look at the log: the session found no portfolio.
ColdStart ==
  /\ call.pc = "down"
  /\ mode' \in Modes
  /\ call' = NoCall("idle")
  /\ UNCHANGED <<orders, registered, orphans, unresolved, log, torn, clock>>

-----------------------------------------------------------------------------
(* Recovery: load the log, register what it restores, reconcile the orphans.
   A session whose recovery fails, or leaves orders unresolved, is blocked. *)

MayLoad ==
  \/ call.pc = "down" /\ mode' \in Modes
  \/ call.pc \in {"idle", "blocked"} /\ mode' = mode

LoadFails ==
  /\ MayLoad /\ ~Loadable
  /\ call' = NoCall("blocked")
  /\ UNCHANGED <<orders, registered, orphans, unresolved, log, torn, clock>>

\* No orphan: the restored orders are dropped, the engine is told nothing.
LoadClean ==
  /\ MayLoad /\ Loadable /\ Orphans = {}
  /\ call' = NoCall("idle")
  /\ unresolved' = {}
  /\ UNCHANGED <<orders, registered, orphans, log, torn, clock>>

\* The engine holds every restored order before the adapter is told of them.
RegisterRestored ==
  /\ MayLoad /\ Loadable /\ Orphans # {}
  /\ orders' = [o \in Order |-> IF o \in Logged THEN Restored(o) ELSE orders[o]]
  /\ registered' = registered \cup Logged
  /\ unresolved' = {}
  /\ UNCHANGED <<log, torn, clock>>

LoadWithOrphans ==
  /\ RegisterRestored
  /\ orphans' = Orphans
  /\ call' = CallAt("reconciling", NoOrder, clock)

\* The adapter raises when told of the restored orders: recovery logs the error and
\* reports success, with no orphan asked about and none counted as unresolved.
RegisterRaises ==
  /\ "register_error" \in Faults
  /\ RegisterRestored
  /\ orphans' = {}
  /\ call' = NoCall("idle")

\* Mutant of Applied: the order moves whether or not the FSM allows it.
AppliedUnchecked(o, e) == [orders[o] EXCEPT !.st = e.to, !.filled = @ + e.qty]

\* Mutant of Applied: a fill is subtracted.
AppliedSubtracting(o, e) ==
  [orders[o] EXCEPT !.st = IF CanTransition(orders[o].st, e.to) THEN e.to ELSE @,
                    !.filled = IF e.to \in FillKinds THEN @ - e.qty ELSE @]

\* _apply_single_event: the fill of an event of a fill kind is added first, then the
\* order moves if the FSM allows it; an illegal move raises.
Applied(o, e) ==
  [orders[o] EXCEPT !.st = IF CanTransition(orders[o].st, e.to) THEN e.to ELSE @,
                    !.filled = IF e.to \in FillKinds THEN @ + e.qty ELSE @]

\* Mutant of TooLate: every event the FSM refuses is skipped and persisted.
TooLateAny(o, e) == ~CanTransition(orders[o].st, e.to)

\* _apply_single_event skips a REJECTED that comes too late, but its callers
\* persist it all the same.
TooLate(o, e) ==
  e.to = "REJECTED" /\ orders[o].st \notin {"VALIDATED", "SUBMITTED"}

\* An event that is applied and then persisted; any other raises, unpersisted.
Takes(o, e) == CanTransition(orders[o].st, e.to) \/ TooLate(o, e)

\* Mutant of StartOutcome: the session runs whatever was left unresolved.
StartOutcomeRuns(left) == "idle"

\* What the session does after reconciliation, given the orders left unresolved.
StartOutcome(left) == IF left = {} THEN "idle" ELSE "blocked"

\* Recovery goes by what the last event says, whether or not it could be applied.
Settles(answer) ==
  answer # <<>> /\ answer[Len(answer)].to \in {"STALE", "FILLED", "CANCELLED"}

\* The next orphan, once the answer for the last one is dealt with.
AskVenue(o) ==
  /\ call.pc = "reconciling" /\ call.todo = <<>> /\ o \in orphans
  /\ \E answer \in ReconcileAnswers(o) :
       /\ call' = [call EXCEPT !.oid = o, !.todo = answer]
       /\ unresolved' = IF Settles(answer) THEN unresolved ELSE unresolved \cup {o}
  /\ orphans' = orphans \ {o}
  /\ UNCHANGED <<mode, orders, registered, log, torn, clock>>

AskRaises(o) ==
  /\ "reconcile_error" \in Faults
  /\ call.pc = "reconciling" /\ call.todo = <<>> /\ o \in orphans
  /\ unresolved' = unresolved \cup {o}
  /\ orphans' = orphans \ {o}
  /\ UNCHANGED <<mode, orders, registered, call, log, torn, clock>>

\* The next event of the answer is applied and persisted; an illegal one adds its
\* fill in memory only and drops the rest.
ReconcileNext ==
  /\ call.pc = "reconciling" /\ call.todo # <<>>
  /\ LET o == call.oid
         e == Head(call.todo)
     IN /\ orders' = [orders EXCEPT ![o] = Applied(o, e)]
        /\ \/ /\ Takes(o, e)
              /\ Persist(o, e.to, e.qty, 0, call.ts)
              /\ call' = [call EXCEPT !.todo = Tail(@)]
           \/ /\ ~Takes(o, e)
              /\ log' = log
              /\ call' = [call EXCEPT !.todo = <<>>]
  /\ UNCHANGED <<mode, registered, orphans, unresolved, torn, clock>>

FinishReconcile ==
  /\ call.pc = "reconciling" /\ call.todo = <<>> /\ orphans = {}
  /\ call' = NoCall(StartOutcome(unresolved))
  /\ UNCHANGED <<mode, orders, registered, orphans, unresolved, log, torn, clock>>

Reconcile ==
  \/ \E o \in Order : AskVenue(o) \/ AskRaises(o)
  \/ ReconcileNext \/ FinishReconcile

-----------------------------------------------------------------------------
(* process(request): one execution request, up to the result *)

\* Mutant of Fresh: identifiers are unique within a process only.
FreshInProcess(o) == orders[o].st = "NONE"

\* An identifier no order has had, in this process or an earlier one.
Fresh(o) == orders[o].st = "NONE" /\ RecordsOf(o) = {}

\* Order.create: a fresh identifier in state CREATED.
Create(o, req, where) ==
  /\ call.pc = "idle" /\ Fresh(o)
  /\ orders' = [orders EXCEPT ![o] = [st |-> "CREATED", req |-> req, filled |-> 0]]
  /\ \E s \in Skew :
       /\ call' = CallAt(where, o, clock + s)
       /\ Persist(o, "CREATED", 0, req, clock + s)
  /\ UNCHANGED <<mode, registered, orphans, unresolved, torn, clock>>

\* A request that a gate refuses (mode, symbol, size, risk, system state): the
\* order is recorded as created, with the size asked for, and then as rejected, and
\* not registered.
RefuseAtGate(o, req) == Create(o, req, "rejecting")

PersistRefusal ==
  /\ call.pc = "rejecting"
  /\ orders' = [orders EXCEPT ![call.oid].st = "REJECTED"]
  /\ Persist(call.oid, "REJECTED", 0, 0, call.ts)
  /\ call' = NoCall("idle")
  /\ UNCHANGED <<mode, registered, orphans, unresolved, torn, clock>>

\* The book is refused by the fill pricer: nothing is recorded.
RefuseAtPricing(o, req) ==
  /\ req > 0 /\ mode = "paper" /\ call.pc = "idle" /\ Fresh(o)
  /\ orders' = [orders EXCEPT ![o] = [st |-> "REJECTED", req |-> req, filled |-> 0]]
  /\ UNCHANGED <<mode, registered, call, orphans, unresolved, log, torn, clock>>

\* A dry run stops at VALIDATED: registered, never recorded or submitted.
DryRun(o, req) ==
  /\ req > 0 /\ mode = "dry_run" /\ call.pc = "idle" /\ Fresh(o)
  /\ orders' = [orders EXCEPT ![o] = [st |-> "VALIDATED", req |-> req, filled |-> 0]]
  /\ registered' = registered \cup {o}
  /\ UNCHANGED <<mode, call, orphans, unresolved, log, torn, clock>>

\* The paper lifecycle begins: CREATED is recorded with the order's size.
Accept(o, req) == req > 0 /\ mode = "paper" /\ Create(o, req, "created")

\* Mutant of Validate: the VALIDATED event is not persisted.
ValidateUnrecorded ==
  /\ call.pc = "created"
  /\ orders' = [orders EXCEPT ![call.oid].st = "VALIDATED"]
  /\ call' = [call EXCEPT !.pc = "validated"]
  /\ UNCHANGED <<mode, registered, orphans, unresolved, log, torn, clock>>

Validate ==
  /\ call.pc = "created"
  /\ orders' = [orders EXCEPT ![call.oid].st = "VALIDATED"]
  /\ Persist(call.oid, "VALIDATED", 0, 0, call.ts)
  /\ call' = [call EXCEPT !.pc = "validated"]
  /\ UNCHANGED <<mode, registered, orphans, unresolved, torn, clock>>

\* submit_order reads the local clock and returns every event of the submission.
Submit ==
  /\ call.pc = "validated"
  /\ \E answer \in SubmitAnswers(orders[call.oid].req) :
       call' = [call EXCEPT !.pc = "applying", !.todo = answer, !.ts = clock]
  /\ UNCHANGED <<mode, orders, registered, orphans, unresolved, log, torn, clock>>

\* submit_order raises: process returns a dummy result and forgets the order.
SubmitRaises ==
  /\ "adapter_error" \in Faults
  /\ call.pc = "validated"
  /\ orders' = [orders EXCEPT ![call.oid] = Absent]
  /\ call' = NoCall("idle")
  /\ UNCHANGED <<mode, registered, orphans, unresolved, log, torn, clock>>

\* Apply the next event of the submission, then persist it; an illegal one makes
\* the order REJECTED in memory only and drops the rest.
ApplyNext ==
  /\ call.pc = "applying" /\ call.todo # <<>>
  /\ LET o == call.oid
         e == Head(call.todo)
         next == [call EXCEPT !.todo = Tail(@),
                    !.fills = IF e.to \in FillKinds /\ e.fill THEN Append(@, e.qty) ELSE @]
     IN \/ /\ Takes(o, e)
           /\ orders' = [orders EXCEPT ![o] = Applied(o, e)]
           /\ Persist(o, e.to, e.qty, 0, call.ts)
           /\ call' = next
        \/ /\ ~Takes(o, e)
           /\ orders' = [orders EXCEPT ![o] = [Applied(o, e) EXCEPT !.st = "REJECTED"]]
           /\ log' = log
           /\ call' = [next EXCEPT !.todo = <<>>]
  /\ UNCHANGED <<mode, registered, orphans, unresolved, torn, clock>>

\* The result is returned with its fills and the order is registered.
Return ==
  /\ call.pc = "applying" /\ call.todo = <<>>
  /\ registered' = registered \cup {call.oid}
  /\ call' = NoCall("idle")
  /\ UNCHANGED <<mode, orders, orphans, unresolved, log, torn, clock>>

-----------------------------------------------------------------------------
(* cancel(order) and replace(order): both cancel the order, by different
   intermediate states *)

\* The pending state is skipped where the FSM does not allow it.
RequestCancel(o, pending) ==
  /\ call.pc = "idle" /\ o \in registered
  /\ orders[o].st \notin TerminalStates
  /\ call' = CallAt("cancelling", o, clock)
  /\ IF CanTransition(orders[o].st, pending)
       THEN /\ orders' = [orders EXCEPT ![o].st = pending]
            /\ Persist(o, pending, 0, 0, clock)
       ELSE UNCHANGED <<orders, log>>
  /\ UNCHANGED <<mode, registered, orphans, unresolved, torn, clock>>

\* A venue that refuses, and an acknowledgement the FSM does not allow, change
\* nothing.
CancelAnswered ==
  /\ call.pc = "cancelling"
  /\ \E answer \in CancelAnswers :
       IF answer = "CANCELLED" /\ CanTransition(orders[call.oid].st, "CANCELLED")
         THEN /\ orders' = [orders EXCEPT ![call.oid].st = "CANCELLED"]
              /\ Persist(call.oid, "CANCELLED", 0, 0, call.ts)
         ELSE UNCHANGED <<orders, log>>
  /\ call' = NoCall("idle")
  /\ UNCHANGED <<mode, registered, orphans, unresolved, torn, clock>>

-----------------------------------------------------------------------------
(* The specification *)

\* One step of the call in progress.
EngineStep ==
  \/ PersistRefusal \/ Validate \/ Submit \/ SubmitRaises
  \/ ApplyNext \/ Return \/ CancelAnswered \/ Reconcile

Request ==
  \E o \in Order :
    \/ \E req \in Qty : \/ RefuseAtGate(o, req) \/ RefuseAtPricing(o, req)
                        \/ DryRun(o, req) \/ Accept(o, req)
    \/ \E pending \in {"CANCEL_PENDING", "REPLACE_PENDING"} : RequestCancel(o, pending)

Restart == ColdStart \/ LoadFails \/ LoadClean \/ LoadWithOrphans \/ RegisterRaises

Next == Request \/ EngineStep \/ Restart \/ Crash \/ CrashInAppend \/ Tick

Spec == Init /\ [][Next]_vars

\* A call that has begun goes on: Python runs it to its end unless the process dies.
FairSpec == Spec /\ WF_vars(EngineStep)

-----------------------------------------------------------------------------
(* Properties *)

\* Type invariant of the engine, of the call in progress and of the log.
TypeOK ==
  /\ mode \in Modes
  /\ orders \in [Order -> OrderType]
  /\ registered \subseteq Order
  /\ call \in CallType
  /\ orphans \subseteq Order /\ unresolved \subseteq Order
  /\ log \in Seq(Record)
  /\ torn \in BOOLEAN
  /\ clock \in Nat

\* The log replays: whatever crashes and recoveries wrote it, each order's records
\* start with CREATED and follow the FSM, so load() can refuse only a torn line.
LogReplays == \A o \in Logged : Replays(o)

\* Between calls, an order the engine tracks is what a restart would rebuild from
\* the log: state, size and filled quantity (register, restore and persist agree).
MemoryIsWhatReplayGives ==
  call.pc \in {"idle", "blocked"} =>
    \A o \in registered \cap Logged : orders[o] = Restored(o)

\* Under any adapter that keeps its contract, the tracked state of an order is the
\* one the log gives, even where the exchange reports a fill the FSM refuses.
StateIsWhatReplayGives ==
  call.pc \in {"idle", "blocked"} =>
    \A o \in registered \cap Logged : orders[o].st = Restored(o).st

\* The durable record never says more than the process knew: fills it holds were
\* applied, and an order it closes is closed in memory, unless by a refusal: one that
\* comes too late is recorded of an order that rests, partly filled, in memory.  Holds
\* when appends fail, and in whatever order and number an adapter reports events, as
\* long as it reports fills on the fill kinds only: one carried on another kind is
\* not applied, but persisted and added up by replay.
LogNotAheadOfMemory ==
  \A o \in Logged :
    orders[o].st # "NONE" =>
      /\ LoggedFill(o) <= orders[o].filled
      /\ Restored(o).st \in TerminalStates \ {"REJECTED"} => orders[o].st \in TerminalStates

\* No order is filled beyond its size, and FILLED is recorded exactly for the
\* orders filled in full, across partial fills, cancels and reconciliation; an order
\* refused for its size of zero or less has no fill and is not FILLED.
FilledWithinSize ==
  \A o \in Logged :
    LET size == log[FirstOf(o)].req
    IN IF size > 0
         THEN /\ LoggedFill(o) <= size
              /\ Restored(o).st = "FILLED" <=> LoggedFill(o) = size
         ELSE LoggedFill(o) = 0 /\ Restored(o).st # "FILLED"

\* Paper orders rest nowhere: between calls no tracked order is at the venue, not
\* even one a crash left there, once recovery has loaded the log.
NothingRestsAtPaperVenue ==
  call.pc = "idle" => \A o \in registered : orders[o].st \notin AtVenue

\* Nothing is recorded for an order after the log has closed it, in the same
\* process or in a later one.
ClosedInLogIsFinal ==
  [][ \A o \in Logged : Restored(o).st \in TerminalStates
                          => RecordsOf(o)' = RecordsOf(o) ]_vars

\* The documented promise of PaperVenueAdapter.reconcile_order: an order open after
\* a restart becomes STALE, so that no recorded order stays open between calls.
RestoredOrdersAreClosed ==
  call.pc = "idle" =>
    \A o \in registered \cap Logged : orders[o].st \in TerminalStates

\* An order a crash left at the paper venue is closed in the log by the recovery
\* that finds it, unless the process dies again.
OrphansAreClosed ==
  \A o \in Order :
    call.pc = "reconciling" /\ o \in orphans /\ orders[o].st \in AtVenue
      ~> \/ call.pc = "down"
         \/ o \in Logged /\ Restored(o).st \in TerminalStates

\* The log implements the ledger.
NewestOf(o) == CHOOSE i \in RecordsOf(o) : \A j \in RecordsOf(o) : j <= i
LedgerState == [o \in Order |-> IF o \in Logged THEN log[NewestOf(o)].to ELSE "NONE"]

Ledger == INSTANCE OrderLedger WITH ledger <- LedgerState

LogIsALedger == Ledger!Spec

=============================================================================
