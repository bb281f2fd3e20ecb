------------------------- MODULE PaperSessionProofs -------------------------
(***************************************************************************)
(* Proofs about the paper-live session: every step of it is a step of the  *)
(* order lifecycle engine, so that what is proved of the engine holds in a *)
(* session; and what its two stores, the log and the portfolio file, hold  *)
(* of each other and of the tracker.                                       *)
(***************************************************************************)
EXTENDS PaperSession, OrderMemoryProofs

-----------------------------------------------------------------------------
(* The session drives the engine *)

LEMMA SessionStepRunsEngine == [SessionNext]_allVars => [Next]_vars
<1> SUFFICES ASSUME [SessionNext]_allVars PROVE [Next]_vars
  OBVIOUS
<1>1. CASE EngineInCycle \/ ReturnAndBook \/ ReconcileInStart
  BY <1>1 DEF EngineInCycle, ReturnAndBook, ReconcileInStart, Next, EngineStep
<1>2. CASE RequestInCycle
  BY <1>2 DEF RequestInCycle, Next, Request
<1>3. CASE StartClean \/ StartRecovering
  BY <1>3 DEF StartClean, StartRecovering, Next, Restart
<1>4. CASE Die \/ ClockTick
  BY <1>4 DEF Die, ClockTick, Next
<1>5. CASE \/ EndPipeline \/ TcaRaises \/ SaveAfterFills \/ BeginCycle \/ ReachMaxCycles
           \/ Pause \/ Resume \/ Stop \/ UNCHANGED allVars
  <2>1. UNCHANGED vars
    BY <1>5 DEF EndPipeline, TcaRaises, SaveAfterFills, BeginCycle, ReachMaxCycles,
       Pause, Resume, Stop, allVars
  <2> QED BY <2>1
<1> QED BY <1>1, <1>2, <1>3, <1>4, <1>5 DEF SessionNext, SessionStep

\* The session implements the engine's specification: whatever it does in cycles,
\* starts and stops, orders, calls and log move as OrderLifecycle says, and all that is
\* proved there holds of a session.
THEOREM SessionRunsEngine == SessionSpec => Spec
<1>1. SessionInit => Init
  BY DEF SessionInit
<1> QED BY <1>1, SessionStepRunsEngine, PTL DEF SessionSpec, Spec

\* Reconciliation goes on, or ends as the orders left unresolved say.
LEMMA ReconcileGoesOn ==
  ASSUME TypeInv, Reconcile
  PROVE  /\ call.pc = "reconciling" /\ torn' = torn
         /\ \/ call'.pc = "reconciling"
            \/ call'.pc \in {"idle", "blocked"} /\ (call'.pc = "idle" => unresolved' = {})
<1>1. call \in CallType
  BY DEF TypeInv, TypeOK
<1>2. ASSUME NEW o \in Order, AskVenue(o) \/ AskRaises(o)
      PROVE  torn' = torn /\ call.pc = "reconciling" /\ call'.pc = "reconciling"
  <2>1. torn' = torn
    BY <1>2 DEF AskVenue, AskRaises
  <2> QED BY <1>2, <2>1, AskMoves
<1>3. CASE ReconcileNext
  BY <1>1, <1>3 DEF ReconcileNext, CallType
<1>4. CASE FinishReconcile
  <2>1. /\ call.pc = "reconciling" /\ torn' = torn /\ unresolved' = unresolved
        /\ call' = NoCall(StartOutcome(unresolved))
    BY <1>4 DEF FinishReconcile
  <2>2. StartOutcome(unresolved) = IF unresolved = {} THEN "idle" ELSE "blocked"
    BY DEF StartOutcome
  <2> QED BY <2>1, <2>2, CallMoves
<1> QED BY <1>2, <1>3, <1>4 DEF Reconcile

-----------------------------------------------------------------------------
(* What is booked of a cycle's fills *)

\* What can be booked of the fills is a sequence of them, and no more than all.
LEMMA BookableWithin ==
  ASSUME NEW fills \in Seq(Nat)
  PROVE  Bookable(fills) \in Seq(Nat) /\ Total(Bookable(fills)) <= Total(fills)
<1> DEFINE Good == {n \in DOMAIN fills : \A i \in 1..n : fills[i] # 0}
           k == Cardinality(Good)
           part == SubSeq(fills, 1, k)
<1>1. DOMAIN fills = 1..Len(fills) /\ Len(fills) \in Nat
  BY LenProperties
<1>2. k \in 0..Len(fills)
  <2>1. IsFiniteSet(1..Len(fills)) /\ Cardinality(1..Len(fills)) = Len(fills)
    <3>1. /\ IsFiniteSet(1..Len(fills))
          /\ Cardinality(1..Len(fills)) = IF 1 > Len(fills) THEN 0 ELSE Len(fills) - 1 + 1
      BY <1>1, FS_Interval
    <3> QED BY <1>1, <3>1
  <2>2. Good \in SUBSET (1..Len(fills))
    BY <1>1
  <2>3. IsFiniteSet(Good) /\ Cardinality(Good) <= Len(fills)
    BY <2>1, <2>2, FS_Subset
  <2> HIDE DEF Good
  <2> QED BY <1>1, <2>3, FS_CardinalityType
<1> HIDE DEF k
<1>3. /\ part \in Seq(Nat) /\ DOMAIN part = 1..k
      /\ \A i \in 1..k : i \in DOMAIN fills /\ part[i] = fills[i]
  <2>1. \A i \in 1..k : i \in 1..Len(fills) /\ fills[i] \in Nat
    BY <1>1, <1>2, ElementOfSeq
  <2>2. /\ part \in Seq(Nat) /\ Len(part) = (IF 1 <= k THEN k - 1 + 1 ELSE 0)
        /\ \A i \in 1..(k - 1 + 1) : part[i] = fills[1 + i - 1]
    BY <1>2, <2>1, SubSeqProperties
  <2>3. Len(part) = k /\ DOMAIN part = 1..Len(part)
    BY <1>2, <2>2, LenProperties
  <2>4. \A i \in 1..k : part[i] = fills[i]
    BY <1>2, <2>2
  <2> QED BY <1>1, <2>1, <2>2, <2>3, <2>4
<1> HIDE DEF part
<1>4. UnitsOf(part) \in SUBSET UnitsOf(fills)
  BY <1>3 DEF UnitsOf
<1>5. Cardinality(UnitsOf(part)) <= Cardinality(UnitsOf(fills))
  BY <1>4, UnitsFinite, FS_Subset
<1>6. part = Bookable(fills)
  BY DEF part, k, Bookable
<1> QED BY <1>3, <1>5, <1>6, TotalType

-----------------------------------------------------------------------------
(* What the tracker, the portfolio file and the log hold of each other *)

\* The saved portfolio, or the empty one when there is no file.
Saved == IF snapshot = NoSnapshot THEN Nothing ELSE snapshot

\* A cycle runs in RUNNING only, and a session recovers with a portfolio file and a log
\* that has no broken line.
ModeOfSession ==
  /\ cycle # "none" => session = "RUNNING"
  /\ session = "RECOVERING" => snapshot # NoSnapshot /\ ~torn

\* A running or paused session has booked what the portfolio file has.
KeepsSaved ==
  session \in {"RUNNING", "PAUSED"} /\ snapshot # NoSnapshot =>
    \A o \in Order : snapshot[o] <= booked[o]

\* No fill was booked since the portfolio was last saved, or since the start.
NothingNew == cycle = "none" \/ (cycle = "pipeline" /\ counted = 0)

\* Where each cycle is saved and none was cut short, the portfolio file is the tracker's
\* until the cycle's first fill.
SavedEachCycle ==
  SavesEachCycle /\ ~cutShort /\ NothingNew =>
    /\ snapshot = NoSnapshot => booked = Nothing
    /\ snapshot # NoSnapshot /\ session \in {"RUNNING", "PAUSED"} => booked = snapshot

\* Deployments in which a session that leaves RUNNING or PAUSED has saved.
SavesAtEnd ==
  /\ "on_stop" \in config /\ "save_fails" \notin config
  /\ "limit" \in config => "every_fill" \in config /\ ~cutShort

SavedAtEnd ==
  SavesAtEnd /\ session \notin {"RUNNING", "PAUSED"} => \A o \in Order : booked[o] <= Saved[o]

StoreInv == SessionTypeOK /\ ModeOfSession /\ KeepsSaved /\ SavedEachCycle /\ SavedAtEnd

\* While a call applies what the venue answered, the fills it has so far are in the
\* log on top of what the tracker has booked; before that it has none.
FillsLogged ==
  /\ call.pc \in {"created", "validated"} => call.fills = <<>>
  /\ call.pc = "applying" =>
       booked[call.oid] + Total(call.fills) <= LoggedFill(call.oid)

LEMMA InitStores == SessionInit => StoreInv
<1> SUFFICES ASSUME SessionInit PROVE StoreInv
  OBVIOUS
<1>1. booked = Nothing /\ Nothing \in [Order -> Nat] /\ snapshot = NoSnapshot
  BY DEF SessionInit, Nothing
<1>2. \A o \in Order : booked[o] <= Saved[o]
  BY <1>1 DEF Saved, Nothing
<1> QED BY <1>1, <1>2 DEF SessionInit, StoreInv, SessionTypeOK, ModeOfSession, KeepsSaved,
           SavedEachCycle, SavedAtEnd

\* The tracker is a portfolio, and no portfolio is the absence of one.
LEMMA BookedIsPortfolio ==
  ASSUME SessionTypeOK
  PROVE  /\ booked \in [Order -> Nat] /\ booked # NoSnapshot
         /\ snapshot # NoSnapshot => snapshot \in [Order -> Nat]
         /\ Saved \in [Order -> Nat]
         /\ \A o \in Order : Nothing[o] = 0 /\ booked[o] \in Nat /\ Saved[o] \in Nat
<1>1. /\ booked \in [Order -> Nat] /\ NoSnapshot \notin [Order -> Nat]
      /\ snapshot = NoSnapshot \/ snapshot \in [Order -> Nat]
      /\ Nothing \in [Order -> Nat] /\ \A o \in Order : Nothing[o] = 0
  BY SessionAssumption DEF SessionTypeOK, Nothing
<1>2. Saved \in [Order -> Nat]
  BY <1>1 DEF Saved
<1> HIDE DEF Nothing, Saved
<1> QED BY <1>1, <1>2

\* Steps that touch neither the tracker nor the portfolio file.
LEMMA SameStores ==
  ASSUME StoreInv, booked' = booked, snapshot' = snapshot, config' = config
  PROVE  Saved' = Saved /\ (SavesEachCycle' <=> SavesEachCycle)
BY DEF Saved, SavesEachCycle

\* The engine's part of a cycle, and the clock.
LEMMA StoresInEngine ==
  ASSUME StoreInv, UNCHANGED svars, torn' = torn
  PROVE  StoreInv'
<1>1. /\ config' = config /\ session' = session /\ cycle' = cycle /\ counted' = counted
      /\ booked' = booked /\ snapshot' = snapshot /\ cutShort' = cutShort
  BY DEF svars
<1>2. Saved' = Saved /\ (SavesEachCycle' <=> SavesEachCycle)
  BY <1>1, SameStores
<1>3. SessionTypeOK' /\ ModeOfSession' /\ KeepsSaved'
  BY <1>1 DEF StoreInv, SessionTypeOK, ModeOfSession, KeepsSaved
<1>4. SavedEachCycle'
  BY <1>1, <1>2 DEF StoreInv, SavedEachCycle, NothingNew, Nothing
<1>5. SavedAtEnd'
  BY <1>1, <1>2 DEF StoreInv, SavedAtEnd, SavesAtEnd
<1> QED BY <1>3, <1>4, <1>5 DEF StoreInv

\* Steps that move the mode or the cycle, and nothing else that is stored.
LEMMA StoresInCycle ==
  ASSUME StoreInv,
         BeginCycle \/ Pause \/ Resume \/ ReachMaxCycles \/ EndPipeline \/ TcaRaises
  PROVE  StoreInv'
<1>1. /\ config' = config /\ booked' = booked /\ snapshot' = snapshot /\ torn' = torn
      /\ session \in {"RUNNING", "PAUSED"}
      /\ session' \in {"RUNNING", "PAUSED", "STOPPED"}
  BY DEF BeginCycle, Pause, Resume, ReachMaxCycles, EndPipeline, TcaRaises, vars,
     StoreInv, ModeOfSession
<1>2. Saved' = Saved /\ (SavesEachCycle' <=> SavesEachCycle)
  BY <1>1, SameStores
<1>3. SessionTypeOK'
  <2>1. counted' \in Nat
    BY DEF BeginCycle, Pause, Resume, ReachMaxCycles, EndPipeline, TcaRaises,
       StoreInv, SessionTypeOK
  <2>2. cutShort' \in BOOLEAN
    <3>1. CASE TcaRaises
      <4>1. cutShort' = (cutShort \/ counted > 0)
        BY <3>1, Zenon DEF TcaRaises
      <4> QED BY <4>1, Zenon
    <3>2. CASE BeginCycle \/ Pause \/ Resume \/ ReachMaxCycles \/ EndPipeline
      BY <3>2 DEF BeginCycle, Pause, Resume, ReachMaxCycles, EndPipeline, StoreInv, SessionTypeOK
    <3> QED BY <3>1, <3>2
  <2>3. cycle' \in {"none", "pipeline", "persist"}
    BY DEF BeginCycle, Pause, Resume, ReachMaxCycles, EndPipeline, TcaRaises,
       StoreInv, SessionTypeOK
  <2> QED BY <1>1, <2>1, <2>2, <2>3 DEF StoreInv, SessionTypeOK
<1>4. ModeOfSession'
  BY <1>1 DEF BeginCycle, Pause, Resume, ReachMaxCycles, EndPipeline, TcaRaises,
     StoreInv, ModeOfSession
<1>5. KeepsSaved'
  BY <1>1 DEF StoreInv, KeepsSaved
<1>6. counted \in Nat /\ cutShort \in BOOLEAN
  BY DEF StoreInv, SessionTypeOK
<1>7. SavesEachCycle /\ ~cutShort' /\ NothingNew' => ~cutShort /\ NothingNew
  <2>1. CASE BeginCycle
    BY <2>1 DEF BeginCycle, NothingNew
  <2>2. CASE Pause \/ Resume \/ ReachMaxCycles
    BY <2>2 DEF Pause, Resume, ReachMaxCycles, NothingNew
  <2>3. CASE EndPipeline
    BY <1>6, <2>3 DEF EndPipeline, NothingNew, SavesEachCycle
  <2>4. CASE TcaRaises
    <3>1. cycle = "pipeline" /\ cutShort' = (cutShort \/ counted > 0)
      BY <2>4, Zenon DEF TcaRaises
    <3>2. ~cutShort' => ~cutShort /\ ~(counted > 0)
      BY <3>1, Zenon
    <3>3. ~(counted > 0) => counted = 0
      BY <1>6
    <3> QED BY <3>1, <3>2, <3>3 DEF NothingNew
  <2> QED BY <2>1, <2>2, <2>3, <2>4
<1>8. SavedEachCycle'
  BY <1>1, <1>2, <1>7 DEF StoreInv, SavedEachCycle, Nothing
<1>9. SavedAtEnd'
  <2> SUFFICES ASSUME SavesAtEnd', session' \notin {"RUNNING", "PAUSED"}, NEW o \in Order
               PROVE  booked[o] <= Saved[o]
    BY <1>1, <1>2 DEF SavedAtEnd
  <2>1. ReachMaxCycles
    BY <1>1 DEF BeginCycle, Pause, Resume, EndPipeline, TcaRaises
  <2>2. SavesEachCycle /\ ~cutShort /\ NothingNew
    BY <2>1 DEF ReachMaxCycles, SavesAtEnd, SavesEachCycle, NothingNew
  <2>3. booked = Saved
    BY <1>1, <2>2 DEF StoreInv, SavedEachCycle, Saved
  <2>4. booked[o] \in Nat
    BY BookedIsPortfolio DEF StoreInv
  <2> QED BY <2>3, <2>4
<1> QED BY <1>3, <1>4, <1>5, <1>8, <1>9 DEF StoreInv

\* A save, after a cycle or by stop().
LEMMA StoresAfterSave ==
  ASSUME StoreInv, SaveAfterFills \/ Stop
  PROVE  StoreInv'
<1>1. /\ config' = config /\ booked' = booked /\ torn' = torn /\ counted' = counted
      /\ cycle' = "none" /\ session' \in {"RUNNING", "STOPPED"}
      /\ session' = "RUNNING" => session = "RUNNING" /\ cycle = "persist" /\ Save
      /\ session' = "STOPPED" =>
           /\ cycle = "none"
           /\ \/ session \in {"RUNNING", "PAUSED"} /\ "on_stop" \in config /\ Save
              \/ session \in {"RUNNING", "PAUSED"} /\ "on_stop" \notin config /\ NoSave
              \/ session = "BLOCKED" /\ NoSave
  BY DEF SaveAfterFills, Stop, vars, StoreInv, ModeOfSession
<1>2. /\ booked \in [Order -> Nat] /\ booked # NoSnapshot
      /\ \A o \in Order : booked[o] \in Nat
  BY BookedIsPortfolio DEF StoreInv
<1>3. \/ snapshot' = booked /\ cutShort' = FALSE
      \/ /\ snapshot' = snapshot /\ cutShort' = cutShort
         /\ session' = "RUNNING" => "save_fails" \in config
         /\ session' = "STOPPED" =>
              \/ session = "BLOCKED" \/ "save_fails" \in config \/ "on_stop" \notin config
  BY <1>1 DEF Save, NoSave
<1>4. SessionTypeOK' /\ ModeOfSession'
  BY <1>1, <1>2, <1>3 DEF StoreInv, SessionTypeOK, ModeOfSession
<1>5. CASE snapshot' = booked /\ cutShort' = FALSE
  <2>1. Saved' = booked /\ snapshot' # NoSnapshot
    BY <1>2, <1>5 DEF Saved
  <2>2. KeepsSaved' /\ SavedEachCycle' /\ SavedAtEnd'
    BY <1>1, <1>2, <1>5, <2>1 DEF KeepsSaved, SavedEachCycle, SavedAtEnd
  <2> QED BY <1>4, <2>2 DEF StoreInv
<1>6. CASE /\ snapshot' = snapshot /\ cutShort' = cutShort
           /\ session' = "RUNNING" => "save_fails" \in config
           /\ session' = "STOPPED" =>
                \/ session = "BLOCKED" \/ "save_fails" \in config \/ "on_stop" \notin config
  <2>1. Saved' = Saved /\ (SavesEachCycle' <=> SavesEachCycle)
    BY <1>1, <1>6, SameStores
  <2>2. KeepsSaved'
    BY <1>1, <1>6 DEF StoreInv, KeepsSaved
  <2>3. SavedEachCycle'
    BY <1>1, <1>6, <2>1 DEF StoreInv, SavedEachCycle, NothingNew, SavesEachCycle, Nothing
  <2>4. SavedAtEnd'
    BY <1>1, <1>6, <2>1 DEF StoreInv, SavedAtEnd, SavesAtEnd
  <2> QED BY <1>4, <2>2, <2>3, <2>4 DEF StoreInv
<1> QED BY <1>3, <1>5, <1>6

\* A result is booked: the tracker only grows, by what the call's fills add up to at
\* most, and a cycle in which nothing was booked so far saw a fill or was cut short.
LEMMA BookingEffect ==
  ASSUME TypeInv, SessionTypeOK, ReturnAndBook
  PROVE  \E sum \in Nat :
           /\ call.oid \in Order /\ call.fills \in Seq(Nat) /\ sum <= Total(call.fills)
           /\ booked' = [booked EXCEPT ![call.oid] = @ + sum]
           /\ \/ /\ cutShort' = cutShort /\ counted' \in Nat /\ cycle' = cycle
                 /\ counted' = 0 => counted = 0 /\ sum = 0
              \/ cutShort' = TRUE /\ counted' = 0 /\ cycle' = "none"
<1> DEFINE fills == Bookable(call.fills)
<1>1. call.oid \in Order /\ call.fills \in Seq(Nat)
  BY DEF ReturnAndBook, Return, TypeInv, TypeOK, CallType, CallHasOrder, Busy
<1>2. fills \in Seq(Nat) /\ Total(fills) <= Total(call.fills) /\ Total(fills) \in Nat
  BY <1>1, BookableWithin, TotalType
<1>3. /\ booked' = [booked EXCEPT ![call.oid] = @ + Total(fills)]
      /\ \/ fills = call.fills /\ counted' = counted + Len(fills) /\ cycle' = cycle
         \/ fills # call.fills /\ counted' = 0 /\ cycle' = "none"
      /\ cutShort' = (cutShort \/ fills # call.fills)
  BY DEF ReturnAndBook
<1> HIDE DEF fills
<1>4. CASE fills = call.fills /\ counted' = counted + Len(fills) /\ cycle' = cycle
  <2>1. cutShort' = cutShort
    BY <1>3, <1>4 DEF SessionTypeOK
  <2>2. Len(fills) \in Nat /\ counted \in Nat /\ (fills = <<>> \/ Len(fills) # 0)
    BY <1>2, EmptySeq, LenProperties DEF SessionTypeOK
  <2>3. counted' = 0 => counted = 0 /\ Total(fills) = 0
    BY <1>4, <2>2, TotalOfNone
  <2>4. counted' \in Nat
    BY <1>4, <2>2
  <2> QED BY <1>1, <1>2, <1>3, <1>4, <2>1, <2>3, <2>4
<1>5. CASE fills # call.fills /\ counted' = 0 /\ cycle' = "none"
  <2>1. cutShort' = TRUE
    BY <1>3, <1>5, Zenon
  <2> QED BY <1>1, <1>2, <1>3, <1>5, <2>1
<1> QED BY <1>3, <1>4, <1>5

LEMMA StoresAfterBooking ==
  ASSUME TypeInv, StoreInv, ReturnAndBook
  PROVE  StoreInv'
<1> PICK sum \in Nat :
      /\ call.oid \in Order /\ call.fills \in Seq(Nat) /\ sum <= Total(call.fills)
      /\ booked' = [booked EXCEPT ![call.oid] = @ + sum]
      /\ \/ /\ cutShort' = cutShort /\ counted' \in Nat /\ cycle' = cycle
            /\ counted' = 0 => counted = 0 /\ sum = 0
         \/ cutShort' = TRUE /\ counted' = 0 /\ cycle' = "none"
  BY BookingEffect DEF StoreInv
<1>1. /\ config' = config /\ session' = session /\ snapshot' = snapshot /\ torn' = torn
      /\ cycle = "pipeline" /\ session = "RUNNING"
  BY DEF ReturnAndBook, Return, StoreInv, ModeOfSession
<1>2. /\ booked \in [Order -> Nat] /\ booked' \in [Order -> Nat]
      /\ \A o \in Order : booked[o] <= booked'[o] /\ booked[o] \in Nat /\ booked'[o] \in Nat
      /\ sum = 0 => booked' = booked
  BY DEF StoreInv, SessionTypeOK
<1>3. SessionTypeOK'
  <2>1. cutShort' \in BOOLEAN
    <3>1. cutShort \in BOOLEAN
      BY DEF StoreInv, SessionTypeOK
    <3> QED BY <3>1
  <2>2. counted' \in Nat /\ cycle' \in {"none", "pipeline"}
    BY <1>1
  <2> QED BY <1>1, <1>2, <2>1, <2>2 DEF StoreInv, SessionTypeOK
<1>4. ModeOfSession'
  BY <1>1 DEF ModeOfSession
<1>5. KeepsSaved'
  <2> SUFFICES ASSUME snapshot # NoSnapshot, NEW o \in Order PROVE snapshot[o] <= booked'[o]
    BY <1>1 DEF KeepsSaved
  <2>1. snapshot[o] <= booked[o] /\ snapshot[o] \in Nat
    BY <1>1, BookedIsPortfolio DEF StoreInv, KeepsSaved
  <2> QED BY <1>2, <2>1
<1>6. SavedEachCycle'
  <2> SUFFICES ASSUME SavesEachCycle, ~cutShort', NothingNew'
               PROVE  /\ snapshot = NoSnapshot => booked' = Nothing
                      /\ snapshot # NoSnapshot => booked' = snapshot
    BY <1>1 DEF SavedEachCycle, SavesEachCycle, Nothing
  <2>1. ~cutShort /\ counted' = 0 /\ counted = 0 /\ sum = 0
    BY <1>1 DEF NothingNew
  <2> QED BY <1>1, <1>2, <2>1 DEF StoreInv, SavedEachCycle, NothingNew
<1>7. SavedAtEnd'
  BY <1>1 DEF SavedAtEnd
<1> QED BY <1>3, <1>4, <1>5, <1>6, <1>7 DEF StoreInv

\* A start: the session comes from a mode in which no cycle runs.
LEMMA StoresAfterStart ==
  ASSUME TypeInv, StoreInv, StartClean \/ StartRecovering \/ ReconcileInStart
  PROVE  StoreInv'
<1>1. /\ config' = config /\ cycle' = cycle /\ counted' = counted /\ snapshot' = snapshot
      /\ cutShort' = cutShort /\ torn' = torn
      /\ session \notin {"RUNNING", "PAUSED"} /\ cycle = "none"
      /\ \/ booked' = booked /\ session' = "RUNNING" /\ snapshot = NoSnapshot
         \/ /\ snapshot # NoSnapshot /\ booked' = snapshot
            /\ session' \in {"RUNNING", "BLOCKED"}
         \/ /\ snapshot # NoSnapshot /\ booked' = booked /\ ~torn
            /\ session' = "RECOVERING"
         \/ snapshot # NoSnapshot /\ booked' = booked /\ session' = "BLOCKED"
  <2>1. CASE StartClean
    BY <2>1 DEF StartClean, MayStart, ColdStart, vars, StoreInv, ModeOfSession
  <2>2. CASE StartRecovering
    BY <2>2 DEF StartRecovering, MayStart, LoadFails, LoadClean, LoadWithOrphans,
       RegisterRestored, Loadable, StoreInv, ModeOfSession
  <2>3. CASE ReconcileInStart
    <3>1. /\ session = "RECOVERING" /\ cycle = "none" /\ snapshot # NoSnapshot /\ ~torn
      BY <2>3 DEF ReconcileInStart, StoreInv, ModeOfSession
    <3>2. torn' = torn /\ call'.pc \in {"reconciling", "idle", "blocked"}
      BY <2>3, ReconcileGoesOn DEF ReconcileInStart
    <3> QED BY <2>3, <3>1, <3>2 DEF ReconcileInStart
  <2> QED BY <2>1, <2>2, <2>3
<1>2. /\ booked \in [Order -> Nat] /\ (snapshot # NoSnapshot => snapshot \in [Order -> Nat])
      /\ \A o \in Order : booked[o] \in Nat /\ Saved[o] \in Nat
  BY BookedIsPortfolio DEF StoreInv
<1>3. Saved' = Saved /\ (snapshot # NoSnapshot => Saved = snapshot)
  BY <1>1 DEF Saved
<1>4. SessionTypeOK'
  BY <1>1, <1>2 DEF StoreInv, SessionTypeOK
<1>5. ModeOfSession'
  BY <1>1 DEF ModeOfSession
<1>6. KeepsSaved'
  BY <1>1, <1>2 DEF KeepsSaved
<1>7. SavedEachCycle'
  <2> SUFFICES ASSUME SavesEachCycle, ~cutShort
               PROVE  /\ snapshot = NoSnapshot => booked' = Nothing
                      /\ snapshot # NoSnapshot /\ session' \in {"RUNNING", "PAUSED"} =>
                           booked' = snapshot
    BY <1>1 DEF SavedEachCycle, SavesEachCycle, Nothing
  <2>1. snapshot = NoSnapshot => booked = Nothing
    BY <1>1 DEF StoreInv, SavedEachCycle, NothingNew
  <2> QED BY <1>1, <2>1
<1>8. SavedAtEnd'
  <2> SUFFICES ASSUME SavesAtEnd, NEW o \in Order, session' # "RUNNING"
               PROVE  booked'[o] <= Saved[o]
    BY <1>1, <1>3 DEF SavedAtEnd, SavesAtEnd
  <2>1. booked[o] <= Saved[o]
    BY <1>1 DEF StoreInv, SavedAtEnd
  <2> QED BY <1>1, <1>2, <1>3, <2>1
<1> QED BY <1>4, <1>5, <1>6, <1>7, <1>8 DEF StoreInv

LEMMA StoresAfterDeath ==
  ASSUME StoreInv, Die
  PROVE  StoreInv'
<1>1. /\ config' = config /\ snapshot' = snapshot /\ booked' = Nothing /\ cutShort' = FALSE
      /\ session' = "INITIALIZING" /\ cycle' = "none" /\ counted' = 0
  BY DEF Die
<1>2. /\ Nothing \in [Order -> Nat] /\ Saved' = Saved
      /\ \A o \in Order : Nothing[o] = 0 /\ Saved[o] \in Nat
  BY <1>1, BookedIsPortfolio DEF StoreInv, Saved, Nothing
<1>3. SessionTypeOK' /\ ModeOfSession' /\ KeepsSaved'
  BY <1>1, <1>2 DEF StoreInv, SessionTypeOK, ModeOfSession, KeepsSaved
<1>4. SavedEachCycle'
  BY <1>1 DEF SavedEachCycle, Nothing
<1>5. \A o \in Order : booked'[o] <= Saved'[o]
  BY <1>1, <1>2
<1> QED BY <1>3, <1>4, <1>5 DEF StoreInv, SavedAtEnd

LEMMA NextStores ==
  ASSUME TypeInv, StoreInv, [SessionNext]_allVars
  PROVE  StoreInv'
<1>1. CASE EngineInCycle
  BY <1>1, StoresInEngine DEF EngineInCycle, PersistRefusal, Validate, Submit, SubmitRaises,
     ApplyNext
<1>2. CASE RequestInCycle
  <2>1. torn' = torn
    BY <1>2 DEF RequestInCycle, RefuseAtGate, Accept, Create, RefuseAtPricing, DryRun
  <2> QED BY <1>2, <2>1, StoresInEngine DEF RequestInCycle
<1>3. CASE ClockTick \/ UNCHANGED allVars
  BY <1>3, StoresInEngine DEF ClockTick, Tick, allVars, vars
<1>4. CASE BeginCycle \/ Pause \/ Resume \/ ReachMaxCycles \/ EndPipeline \/ TcaRaises
  BY <1>4, StoresInCycle
<1>5. CASE SaveAfterFills \/ Stop
  BY <1>5, StoresAfterSave
<1>6. CASE ReturnAndBook
  BY <1>6, StoresAfterBooking
<1>7. CASE StartClean \/ StartRecovering \/ ReconcileInStart
  BY <1>7, StoresAfterStart
<1>8. CASE Die
  BY <1>8, StoresAfterDeath
<1> QED BY <1>1, <1>2, <1>3, <1>4, <1>5, <1>6, <1>7, <1>8 DEF SessionNext, SessionStep

LEMMA StoresHold == SessionSpec => [](TypeInv /\ StoreInv)
<1>1. SessionInit => TypeInv /\ StoreInv
  BY InitType, InitStores DEF SessionInit
<1>2. TypeInv /\ StoreInv /\ [SessionNext]_allVars => (TypeInv /\ StoreInv)'
  BY SessionStepRunsEngine, NextType, NextStores
<1> QED BY <1>1, <1>2, PTL DEF SessionSpec

\* Type correctness of the session, of its tracker and of its portfolio file.
THEOREM SessionTypes == SessionSpec => []SessionTypeOK
BY StoresHold, PTL DEF StoreInv

\* Between cycles the saved portfolio is the tracker's, wherever each cycle with fills is
\* saved and none was cut short: through starts, stops, recoveries and deaths, for any
\* adapter and any faults but one in registering restored orders.
THEOREM SnapshotStaysCurrent == SessionSpec => []SnapshotIsCurrent
<1>1. StoreInv => SnapshotIsCurrent
  BY DEF StoreInv, SavedEachCycle, NothingNew, SnapshotIsCurrent
<1> QED BY <1>1, StoresHold, PTL

\* A stopped session booked nothing that is not saved, in the deployments that save at
\* the end.
THEOREM StoppedSessionIsSaved == SessionSpec => []StoppedIsSaved
<1>1. StoreInv => StoppedIsSaved
  BY DEF StoreInv, SavedAtEnd, SavesAtEnd, Saved, StoppedIsSaved
<1> QED BY <1>1, StoresHold, PTL

\* No save drops a fill the portfolio file holds: every process that comes to save has
\* first taken over what the file had, or had no file to take over.
THEOREM SnapshotOnlyGrows == SessionSpec => SnapshotNeverForgets
<1> DEFINE Grows == snapshot # NoSnapshot =>
                      /\ snapshot' # NoSnapshot
                      /\ \A o \in Order : snapshot[o] <= snapshot'[o]
<1>1. ASSUME StoreInv, [SessionNext]_allVars PROVE Grows
  <2>1. /\ booked # NoSnapshot
        /\ snapshot # NoSnapshot => \A o \in Order : snapshot[o] \in Nat
    BY <1>1, BookedIsPortfolio DEF StoreInv
  <2>2. CASE snapshot' = snapshot
    BY <2>1, <2>2
  <2>3. CASE SaveAfterFills \/ Stop
    <3>1. \/ snapshot' = snapshot
          \/ snapshot' = booked /\ session \in {"RUNNING", "PAUSED"}
      BY <1>1, <2>3 DEF SaveAfterFills, Stop, Save, NoSave, StoreInv, ModeOfSession
    <3>2. CASE snapshot' = booked /\ session \in {"RUNNING", "PAUSED"}
      BY <1>1, <2>1, <3>2 DEF StoreInv, KeepsSaved
    <3> QED BY <2>2, <3>1, <3>2
  <2>4. SaveAfterFills \/ Stop \/ snapshot' = snapshot
    <3>1. CASE SessionStep
      BY <3>1 DEF SessionStep, EngineInCycle, ReturnAndBook, EndPipeline, TcaRaises,
         ReconcileInStart, svars
    <3>2. CASE \/ BeginCycle \/ RequestInCycle \/ ReachMaxCycles \/ Pause \/ Resume
               \/ StartClean \/ StartRecovering \/ Die \/ ClockTick \/ UNCHANGED allVars
      BY <3>2 DEF BeginCycle, RequestInCycle, ReachMaxCycles, Pause, Resume, StartClean,
         StartRecovering, Die, ClockTick, svars, allVars
    <3> QED BY <1>1, <3>1, <3>2 DEF SessionNext
  <2> QED BY <2>2, <2>3, <2>4
<1>2. StoreInv /\ [SessionNext]_allVars => [Grows]_allVars
  BY <1>1
<1>3. SessionSpec => [][Grows]_allVars
  BY <1>2, StoresHold, PTL DEF SessionSpec
<1> QED BY <1>3 DEF SnapshotNeverForgets

-----------------------------------------------------------------------------
(* With a log that keeps up with the engine *)

\* No step takes a fill out of the log.
LEMMA FillsGrow ==
  ASSUME LogInv, Faithful, [Next]_vars, NEW o \in Order
  PROVE  /\ LoggedFill(o) \in Nat /\ LoggedFill(o)' \in Nat
         /\ LoggedFill(o) <= LoggedFill(o)'
<1>1. LoggedFill(o) \in Nat /\ log \in Seq(Record)
  BY LoggedFillType DEF LogInv, TypeInv, TypeOK
<1>2. \/ log' = log
      \/ \E r \in Record : log' = Append(log, r)
  BY NextKeeps DEF StepKeeps, Writes
<1>3. CASE log' = log
  BY <1>1, <1>3, SameLogEffect
<1>4. ASSUME NEW r \in Record, log' = Append(log, r)
      PROVE  LoggedFill(o)' = LoggedFill(o) + (IF o = r.oid THEN r.qty ELSE 0) /\ r.qty \in Nat
  BY <1>1, <1>4, AppendAddsFill DEF Record
<1> QED BY <1>1, <1>2, <1>3, <1>4

\* Where a step of the session leaves the call, and its fills.
LEMMA NextFillsLogged ==
  ASSUME Faithful, LogInv, StoreInv, FillsLogged, PortfolioWithinLog, [SessionNext]_allVars
  PROVE  FillsLogged'
<1>0. /\ [Next]_vars /\ TypeInv /\ SessionTypeOK /\ booked \in [Order -> Nat]
      /\ call \in CallType /\ call.fills \in Seq(Nat)
      /\ call.pc \in {"created", "validated", "applying"} => call.oid \in Order
  BY SessionStepRunsEngine DEF LogInv, TypeInv, TypeOK, CallType, CallHasOrder, Busy,
     StoreInv, SessionTypeOK
<1>1. \A o \in Order : /\ LoggedFill(o) \in Nat /\ LoggedFill(o)' \in Nat
                       /\ LoggedFill(o) <= LoggedFill(o)'
  BY <1>0, FillsGrow
\* The call does not move, nor the tracker.
<1>2. ASSUME call' = call, booked' = booked PROVE FillsLogged'
  <2>1. /\ call'.pc \in {"created", "validated"} => call'.fills = <<>>
        /\ call'.pc = "applying" =>
             booked[call.oid] + Total(call.fills) <= LoggedFill(call.oid)
    BY <1>2 DEF FillsLogged
  <2> SUFFICES ASSUME call.pc = "applying"
               PROVE  booked[call.oid] + Total(call.fills) <= LoggedFill(call.oid)'
    BY <1>2, <2>1 DEF FillsLogged
  <2> PICK o \in Order : o = call.oid
    BY <1>0
  <2>2. LoggedFill(o) <= LoggedFill(o)' /\ booked[o] + Total(call.fills) <= LoggedFill(o)
    BY <1>1, <1>2, <2>1
  <2>3. booked[o] \in Nat /\ Total(call.fills) \in Nat
    BY <1>0, TotalType
  <2>4. booked[o] + Total(call.fills) <= LoggedFill(o)'
    BY <1>1, <2>2, <2>3
  <2>5. LoggedFill(call.oid)' = LoggedFill(o)'
    BY <1>2 DEF LoggedFill, RecordsOf
  <2> QED BY <2>4, <2>5
\* The call is not one that trades.
<1>3. ASSUME call'.pc \notin {"created", "validated", "applying"} PROVE FillsLogged'
  BY <1>3 DEF FillsLogged
<1>4. CASE RequestInCycle
  <2>1. \/ call' = call /\ booked' = booked
        \/ \E o \in Order : \E t : call' = CallAt("rejecting", o, t) \/ call' = CallAt("created", o, t)
    BY <1>4 DEF RequestInCycle, RefuseAtGate, RefuseAtPricing, DryRun, Accept, Create, svars
  <2>2. ASSUME NEW o, NEW t, call' = CallAt("rejecting", o, t) \/ call' = CallAt("created", o, t)
        PROVE  FillsLogged'
    <3>1. call'.pc \in {"rejecting", "created"} /\ call'.fills = <<>>
      BY <2>2 DEF CallAt
    <3> QED BY <3>1 DEF FillsLogged
  <2> QED BY <1>2, <2>1, <2>2
<1>5. CASE EngineInCycle
  <2>1. booked' = booked
    BY <1>5 DEF EngineInCycle, svars
  <2>2. CASE PersistRefusal \/ SubmitRaises
    BY <1>3, <2>2, CallMoves DEF PersistRefusal, SubmitRaises
  <2>3. CASE Validate
    <3>1. call.pc = "created" /\ call'.pc = "validated" /\ call'.fills = call.fills
      BY <1>0, <2>3 DEF Validate, CallType
    <3> QED BY <3>1 DEF FillsLogged
  <2>4. CASE Submit
    <3>1. /\ call.pc = "validated" /\ call'.pc = "applying" /\ call'.oid = call.oid
          /\ call'.fills = call.fills /\ log' = log
      BY <1>0, <2>4 DEF Submit, CallType
    <3> PICK o \in Order : o = call.oid
      BY <1>0, <3>1
    <3>2. Total(call.fills) = 0
      BY <3>1, TotalOfNone DEF FillsLogged
    <3>3. booked[o] <= LoggedFill(o) /\ booked[o] \in Nat
      BY <1>0 DEF PortfolioWithinLog
    <3>4. booked'[call'.oid] + Total(call'.fills) <= LoggedFill(o)
      BY <2>1, <3>1, <3>2, <3>3
    <3>5. LoggedFill(call.oid)' = LoggedFill(o)
      BY <3>1 DEF LoggedFill, RecordsOf
    <3> QED BY <3>1, <3>4, <3>5 DEF FillsLogged
  <2>5. CASE ApplyNext
    <3> DEFINE e == Head(call.todo)
               fills == IF e.to \in FillKinds /\ e.fill THEN Append(call.fills, e.qty) ELSE call.fills
    <3>1. /\ call.pc = "applying" /\ call.oid \in Order /\ call.todo \in Seq(Event)
          /\ call.todo # <<>> /\ e \in Event
      BY <1>0, <2>5, RestOfTodo DEF ApplyNext, CallType
    <3> PICK o \in Order, to \in OrderState, qty \in Nat : o = call.oid /\ to = e.to /\ qty = e.qty
      BY <3>1 DEF Event
    <3>2. Takes(o, e)
      <4>1. 1 \in 1..Len(call.todo) /\ e = call.todo[1]
        BY <3>1, RestOfTodo
      <4>2. Legal(orders[o].st, call.todo)
        BY <3>1 DEF LogInv, InCall
      <4> QED BY <4>1, <4>2 DEF Legal, Takes
    <3>3. /\ Persist(o, to, qty, 0, call.ts)
          /\ call' = [call EXCEPT !.todo = Tail(call.todo), !.fills = fills]
      BY <2>5, <3>2 DEF ApplyNext
    <3>4. call'.pc = "applying" /\ call'.oid = o /\ call'.fills = fills
      <4> HIDE DEF fills
      <4> QED BY <1>0, <3>1, <3>3 DEF CallType
    <3>5. LoggedFill(o)' = LoggedFill(o) + qty
      <4>1. Appends(o, to, qty, 0, call.ts)
        BY <3>3 DEF Faithful, Persist, Appends
      <4>2. call.ts \in Int
        BY <1>0 DEF CallType
      <4> QED BY <1>0, <4>1, <4>2, AppendEffect
    <3>6. Total(fills) <= Total(call.fills) + qty /\ Total(fills) \in Nat
      <4>1. Total(call.fills) \in Nat
        BY <1>0, TotalType
      <4>2. CASE e.to \in FillKinds /\ e.fill
        BY <1>0, <4>1, <4>2, TotalOfAppend
      <4>3. CASE ~(e.to \in FillKinds /\ e.fill)
        BY <4>1, <4>3
      <4> QED BY <4>2, <4>3
    <3>7. /\ booked[o] + Total(call.fills) <= LoggedFill(o) /\ booked[o] \in Nat
          /\ Total(call.fills) \in Nat /\ LoggedFill(o) \in Nat
      BY <1>0, <1>1, <3>1, TotalType DEF FillsLogged
    <3> HIDE DEF fills
    <3>8. booked'[o] + Total(call'.fills) <= LoggedFill(o)'
      BY <2>1, <3>4, <3>5, <3>6, <3>7
    <3>9. LoggedFill(call.oid)' = LoggedFill(o)'
      BY <3>4 DEF LoggedFill, RecordsOf
    <3> QED BY <3>4, <3>8, <3>9 DEF FillsLogged
  <2> QED BY <1>5, <2>2, <2>3, <2>4, <2>5 DEF EngineInCycle
<1>6. CASE ReturnAndBook
  BY <1>3, <1>6, CallMoves DEF ReturnAndBook, Return
<1>7. CASE StartClean \/ StartRecovering
  <2>1. \/ UNCHANGED call /\ booked' = booked
        \/ call'.pc \in {"idle", "blocked", "reconciling"}
    BY <1>7, CallMoves DEF StartClean, StartRecovering, ColdStart, LoadFails, LoadClean,
       LoadWithOrphans, vars
  <2> QED BY <1>2, <1>3, <2>1
<1>8. CASE ReconcileInStart
  <2>1. call'.pc \in {"reconciling", "idle", "blocked"}
    BY <1>0, <1>8, ReconcileGoesOn DEF ReconcileInStart
  <2> QED BY <1>3, <2>1
<1>9. CASE Die
  BY <1>3, <1>9, CallMoves DEF Die, Crash, CrashInAppend, LoseMemory
<1>10. CASE \/ ClockTick \/ EndPipeline \/ TcaRaises \/ SaveAfterFills \/ BeginCycle
            \/ ReachMaxCycles \/ Pause \/ Resume \/ Stop \/ UNCHANGED allVars
  <2>1. call' = call /\ booked' = booked
    BY <1>10 DEF ClockTick, Tick, EndPipeline, TcaRaises, SaveAfterFills, BeginCycle,
       ReachMaxCycles, Pause, Resume, Stop, vars, svars, allVars
  <2> QED BY <1>2, <2>1
<1> QED BY <1>4, <1>5, <1>6, <1>7, <1>8, <1>9, <1>10 DEF SessionNext, SessionStep

\* What a step does to the tracker and the portfolio file: the call's fills are booked,
\* the tracker is saved, the saved portfolio is taken over, or the tracker is lost.
LEMMA StoreMoves ==
  ASSUME TypeInv, StoreInv, [SessionNext]_allVars
  PROVE  \/ UNCHANGED <<booked, snapshot>>
         \/ snapshot' = booked /\ booked' = booked
         \/ snapshot # NoSnapshot /\ booked' = snapshot /\ snapshot' = snapshot
         \/ booked' = Nothing /\ snapshot' = snapshot
         \/ ReturnAndBook /\ snapshot' = snapshot
<1>1. CASE EngineInCycle \/ RequestInCycle \/ ClockTick \/ UNCHANGED allVars
  BY <1>1 DEF EngineInCycle, RequestInCycle, ClockTick, svars, allVars
<1>2. CASE BeginCycle \/ Pause \/ Resume \/ ReachMaxCycles \/ EndPipeline \/ TcaRaises
  BY <1>2 DEF BeginCycle, Pause, Resume, ReachMaxCycles, EndPipeline, TcaRaises
<1>3. CASE SaveAfterFills \/ Stop
  BY <1>3 DEF SaveAfterFills, Stop, Save, NoSave
<1>4. CASE StartClean \/ StartRecovering
  BY <1>4 DEF StartClean, StartRecovering
<1>5. CASE ReconcileInStart
  BY <1>5 DEF ReconcileInStart, StoreInv, ModeOfSession
<1>6. CASE Die
  BY <1>6 DEF Die
<1>7. CASE ReturnAndBook
  BY <1>7 DEF ReturnAndBook
<1> QED BY <1>1, <1>2, <1>3, <1>4, <1>5, <1>6, <1>7 DEF SessionNext, SessionStep

LEMMA NextPortfolio ==
  ASSUME Faithful, LogInv, StoreInv, FillsLogged, PortfolioWithinLog, [SessionNext]_allVars
  PROVE  PortfolioWithinLog'
<1>0. TypeInv /\ SessionTypeOK /\ [Next]_vars
  BY SessionStepRunsEngine DEF LogInv, StoreInv
<1> SUFFICES ASSUME NEW o \in Order
             PROVE  /\ booked'[o] <= LoggedFill(o)'
                    /\ snapshot' # NoSnapshot => snapshot'[o] <= LoggedFill(o)'
  BY DEF PortfolioWithinLog
<1>1. /\ LoggedFill(o) \in Nat /\ LoggedFill(o)' \in Nat /\ LoggedFill(o) <= LoggedFill(o)'
  BY <1>0, FillsGrow
<1>2. /\ booked \in [Order -> Nat] /\ booked[o] \in Nat /\ Nothing[o] = 0
      /\ snapshot # NoSnapshot => snapshot[o] \in Nat
  BY <1>0, BookedIsPortfolio
<1>3. /\ booked[o] <= LoggedFill(o)
      /\ snapshot # NoSnapshot => snapshot[o] <= LoggedFill(o)
  BY DEF PortfolioWithinLog
<1>4. /\ booked[o] <= LoggedFill(o)'
      /\ snapshot # NoSnapshot => snapshot[o] <= LoggedFill(o)'
  BY <1>1, <1>2, <1>3
<1>5. CASE ReturnAndBook /\ snapshot' = snapshot
  <2> PICK sum \in Nat :
        /\ call.oid \in Order /\ call.fills \in Seq(Nat) /\ sum <= Total(call.fills)
        /\ booked' = [booked EXCEPT ![call.oid] = @ + sum]
    BY <1>0, <1>5, BookingEffect
  <2>1. CASE o # call.oid
    <3>1. booked'[o] = booked[o]
      BY <1>2, <2>1
    <3> QED BY <1>4, <1>5, <3>1
  <2>2. CASE o = call.oid
    <3>1. booked'[o] = booked[o] + sum
      BY <1>2, <2>2
    <3>2. booked[o] + Total(call.fills) <= LoggedFill(o)
      BY <1>5, <2>2 DEF FillsLogged, ReturnAndBook, Return
    <3>3. Total(call.fills) \in Nat
      BY TotalType
    <3>4. booked[o] + sum <= LoggedFill(o)'
      BY <1>1, <1>2, <3>2, <3>3
    <3> QED BY <1>4, <1>5, <3>1, <3>4
  <2> QED BY <2>1, <2>2
<1>6. CASE UNCHANGED <<booked, snapshot>> \/ (snapshot' = booked /\ booked' = booked)
  BY <1>4, <1>6
<1>7. CASE snapshot # NoSnapshot /\ booked' = snapshot /\ snapshot' = snapshot
  BY <1>4, <1>7
<1>8. CASE booked' = Nothing /\ snapshot' = snapshot
  BY <1>1, <1>2, <1>4, <1>8
<1> QED BY <1>0, <1>5, <1>6, <1>7, <1>8, StoreMoves

\* Everything a session keeps of its log, its tracker and its portfolio file.
StoresAndLog == LogInv /\ StoreInv /\ FillsLogged /\ PortfolioWithinLog

LEMMA StoresAndLogHold == ASSUME Faithful PROVE SessionSpec => []StoresAndLog
<1>1. SessionInit => StoresAndLog
  <2> SUFFICES ASSUME SessionInit PROVE StoresAndLog
    OBVIOUS
  <2>1. Init /\ LogInv /\ StoreInv
    BY InitLog, InitStores DEF SessionInit
  <2>2. call.pc = "idle"
    BY <2>1, NoCallType DEF Init, PC
  <2>3. \A o \in Order : LoggedFill(o) \in Nat
    BY <2>1, LoggedFillType DEF LogInv, TypeInv, TypeOK
  <2>4. booked = Nothing /\ snapshot = NoSnapshot
    BY DEF SessionInit
  <2>5. PortfolioWithinLog
    BY <2>3, <2>4 DEF PortfolioWithinLog, Nothing
  <2> QED BY <2>1, <2>2, <2>5 DEF StoresAndLog, FillsLogged
<1>2. StoresAndLog /\ [SessionNext]_allVars => StoresAndLog'
  <2> SUFFICES ASSUME StoresAndLog, [SessionNext]_allVars PROVE StoresAndLog'
    OBVIOUS
  <2>1. LogInv'
    BY SessionStepRunsEngine, NextKeeps DEF StoresAndLog
  <2>2. StoreInv'
    BY NextStores DEF StoresAndLog, LogInv
  <2>3. FillsLogged' /\ PortfolioWithinLog'
    BY NextFillsLogged, NextPortfolio DEF StoresAndLog
  <2> QED BY <2>1, <2>2, <2>3 DEF StoresAndLog
<1> QED BY <1>1, <1>2, PTL DEF SessionSpec

\* The portfolio never runs ahead of the log, in the tracker or in its file: no fill is
\* booked that the log lost, and none twice, through every crash, restart and recovery.
THEOREM PortfolioNeverAheadOfLog == ASSUME Faithful PROVE SessionSpec => []PortfolioWithinLog
BY StoresAndLogHold, PTL DEF StoresAndLog

\* With a portfolio file, a session comes to run only over a log that loads, and with no
\* orphan left unresolved: what reconciliation itself writes never breaks the log.
THEOREM RecoversBeforeRunning == ASSUME Faithful PROVE SessionSpec => RunsOnlyAfterRecovery
<1> DEFINE Ready == session \notin {"RUNNING", "PAUSED"} /\ session' = "RUNNING"
                      /\ snapshot # NoSnapshot => Loadable /\ unresolved' = {}
<1>1. ASSUME StoresAndLog, [SessionNext]_allVars PROVE Ready
  <2> SUFFICES ASSUME session \notin {"RUNNING", "PAUSED"}, session' = "RUNNING",
                      snapshot # NoSnapshot
               PROVE  Loadable /\ unresolved' = {}
    OBVIOUS
  <2>1. TypeInv /\ Chained /\ ModeOfSession
    BY <1>1 DEF StoresAndLog, LogInv, StoreInv
  <2>2. StartRecovering \/ ReconcileInStart
    <3>1. CASE EngineInCycle \/ RequestInCycle \/ ClockTick \/ UNCHANGED allVars
      BY <3>1 DEF EngineInCycle, RequestInCycle, ClockTick, svars, allVars
    <3>2. CASE ReturnAndBook \/ EndPipeline \/ TcaRaises \/ SaveAfterFills
      BY <3>2 DEF ReturnAndBook, EndPipeline, TcaRaises, SaveAfterFills
    <3>3. CASE BeginCycle \/ Pause \/ Resume \/ ReachMaxCycles \/ Stop \/ StartClean \/ Die
      BY <3>3 DEF BeginCycle, Pause, Resume, ReachMaxCycles, Stop, StartClean, Die
    <3> QED BY <1>1, <3>1, <3>2, <3>3 DEF SessionNext, SessionStep
  <2>3. CASE StartRecovering
    BY <2>3 DEF StartRecovering, LoadClean
  <2>4. CASE ReconcileInStart
    <3>1. ~torn
      BY <2>1, <2>4 DEF ReconcileInStart, ModeOfSession
    <3>2. Loadable
      BY <2>1, <3>1, ChainedReplays DEF Loadable, LogReplays
    <3>3. call'.pc \in {"reconciling", "idle", "blocked"} /\ (call'.pc = "idle" => unresolved' = {})
      BY <2>1, <2>4, ReconcileGoesOn DEF ReconcileInStart
    <3>4. call'.pc = "idle"
      BY <2>4, <3>3 DEF ReconcileInStart
    <3> QED BY <3>2, <3>3, <3>4
  <2> QED BY <2>2, <2>3, <2>4
<1>2. StoresAndLog /\ [SessionNext]_allVars => [Ready]_allVars
  BY <1>1
<1>3. SessionSpec => [][Ready]_allVars
  BY <1>2, StoresAndLogHold, PTL DEF SessionSpec
<1> QED BY <1>3 DEF RunsOnlyAfterRecovery

=============================================================================
