------------------------ MODULE TradingGatesProofs ------------------------
(***************************************************************************)
(* The state engine and the gates, for all readings, holds, cool-downs,    *)
(* ages and lags: types, the way out of HALT, hysteresis, and the two      *)
(* properties of an entry.                                                 *)
(***************************************************************************)
EXTENDS TradingGates, TLAPS

-----------------------------------------------------------------------------
(* The ladder *)

\* Severities are the numbers 0 to 4, and tell the states apart.
LEMMA SeverityOrder ==
  /\ \A s \in State : Severity[s] \in 0..4
  /\ \A s \in State : Severity[s] <= 4 /\ (Severity[s] = 4 <=> s = "HALT")
  /\ \A s, t \in State : Severity[s] = Severity[t] => s = t
BY DEF State, Severity

\* Every reading has a target.
LEMMA TargetIsState == ASSUME NEW r \in Readings PROVE Target(r) \in State
<1>1. r.shs \in 0..7
  BY ReadingsAssumption DEF PossibleReadings, Band
<1>2. TargetFromShs(r.shs) \in State
  BY <1>1 DEF TargetFromShs, State
<1> QED
  BY <1>2 DEF Target, State

\* The floor that _try_deescalate puts under a lost feed is dead code: a maxed feed
\* signal already makes the target CRISIS.
THEOREM FloorIsDead == \A r \in Readings : ~Floored(r)
<1> SUFFICES ASSUME NEW r \in Readings, "s4" \in r.maxed
             PROVE IsAtLeast(Target(r), "DEFENSIVE")
  BY DEF Floored
<1>1. TargetFromShs(r.shs) \in State
  <2>1. r.shs \in 0..7
    BY ReadingsAssumption DEF PossibleReadings, Band
  <2> QED
    BY <2>1 DEF TargetFromShs, State
<1>2. Target(r) = "HALT" \/ Target(r) = "CRISIS" \/ IsAtLeast(Target(r), "CRISIS")
  BY <1>1 DEF Target
<1> QED
  BY <1>2, TargetIsState DEF IsAtLeast, Severity, State

-----------------------------------------------------------------------------
(* The state engine *)

\* Every evaluation whose score counts keeps the timer honest, and HALT has no timer.
HoldInv ==
  /\ StateTypeOK
  /\ TimerIsHonest
  /\ state = "HALT" => candidate = "none"

\* What an evaluation does to the history has the right type.
LEMMA HistoryTyped ==
  ASSUME StateTypeOK, Met \/ Unmet
  PROVE  meets' \in BOOLEAN /\ met' \in 0..MaxAge
<1>1. meets' \in BOOLEAN
  BY Zenon DEF Met, Unmet
<1>2. met' \in 0..MaxAge
  BY HoldAssumption DEF StateTypeOK, Met, Unmet
<1> QED
  BY <1>1, <1>2

LEMMA OlderIsAge ==
  \A age \in 0..MaxAge : Older(age) \in 0..MaxAge /\ Older(age) >= age
BY HoldAssumption DEF Older

LEMMA OlderKeepsOrder ==
  \A a, b \in 0..MaxAge : \A d \in Nat : a <= b + d => Older(a) <= Older(b) + d
BY HoldAssumption DEF Older

\* A lag is an age, and no more than MaxLag above any.
LEMMA LagIsAge ==
  /\ MaxLag \in Nat /\ 0..MaxLag \subseteq 0..MaxAge
  /\ \A d \in 0..MaxLag, age \in 0..MaxAge : d <= age + MaxLag
BY HoldAssumption

\* Entering any state starts afresh.
LEMMA EnterKeeps ==
  ASSUME HoldInv, NEW s \in State, Enter(s), UNCHANGED lag
  PROVE  HoldInv'
<1>1. approved' \in BOOLEAN
  BY Zenon DEF Enter
<1>2. meets' \in BOOLEAN /\ met' \in 0..MaxAge
  BY HistoryTyped DEF HoldInv, Enter
<1>3. state' \in State /\ candidate' = "none" /\ inState' \in 0..MaxAge /\ held' \in 0..MaxAge
  BY HoldAssumption, LagIsAge DEF Enter, HoldInv, StateTypeOK
<1>4. lag' \in 0..MaxLag
  BY DEF HoldInv, StateTypeOK
<1> QED
  BY <1>1, <1>2, <1>3, <1>4 DEF HoldInv, StateTypeOK, TimerIsHonest

LEMMA HoldInitially == Init => HoldInv
<1> SUFFICES ASSUME Init PROVE HoldInv
  OBVIOUS
<1>1. approved \in BOOLEAN /\ meets \in BOOLEAN
  BY Zenon DEF Init
<1>2. state \in State /\ candidate = "none"
      /\ inState \in 0..MaxAge /\ held \in 0..MaxAge /\ met \in 0..MaxAge
      /\ lag \in 0..MaxLag
  BY HoldAssumption DEF Init, State
<1> QED
  BY <1>1, <1>2 DEF HoldInv, StateTypeOK, TimerIsHonest

LEMMA EvaluateKeeps ==
  ASSUME HoldInv, NEW r \in Readings, Evaluate(r)
  PROVE  HoldInv'
<1> USE DEF HoldInv
<1>1. Target(r) \in State /\ UNCHANGED lag /\ lag' \in 0..MaxLag
  BY TargetIsState DEF Evaluate, StateTypeOK
<1>2. CASE Escalate(r)
  BY <1>1, <1>2, EnterKeeps DEF Escalate
<1>3. CASE BelowExit(r)
  <2>1. meets' \in BOOLEAN /\ met' \in 0..MaxAge
    BY <1>3, HistoryTyped DEF BelowExit
  <2>2. candidate' = "none"
    BY <1>3 DEF BelowExit
  <2>3. approved' \in BOOLEAN /\ state' \in State
    BY <1>3 DEF BelowExit, StateTypeOK
  <2>4. inState' \in 0..MaxAge /\ held' \in 0..MaxAge
    BY <1>3, <2>1, HoldAssumption DEF BelowExit, StateTypeOK
  <2> QED
    BY <1>1, <2>1, <2>2, <2>3, <2>4 DEF StateTypeOK, TimerIsHonest
<1>4. CASE HeldByOverride(r)
  BY <1>1, <1>4, HoldAssumption DEF HeldByOverride, Met, StateTypeOK, TimerIsHonest
<1>5. CASE ReleaseHalt(r)
  BY <1>1, <1>5, EnterKeeps DEF ReleaseHalt, State
<1>6. CASE StayInHalt(r)
  <2>1. meets' \in BOOLEAN /\ met' \in 0..MaxAge
    BY <1>6, HistoryTyped DEF StayInHalt
  <2>2. state' = "HALT" /\ candidate' = "none"
    BY <1>6 DEF StayInHalt
  <2>3. approved' \in BOOLEAN
    BY <1>6 DEF StayInHalt, StateTypeOK
  <2>4. inState' \in 0..MaxAge /\ held' \in 0..MaxAge
    BY <1>6, <2>1 DEF StayInHalt, StateTypeOK
  <2> QED
    BY <1>1, <2>1, <2>2, <2>3, <2>4 DEF StateTypeOK, TimerIsHonest, State
<1>7. CASE StartHold(r)
  <2>1. Severity[Target(r)] < Severity[state] /\ state # "HALT"
    BY <1>7 DEF StartHold, MayFall, Lower
  <2>2. meets' /\ meets' \in BOOLEAN /\ met' \in 0..MaxAge
    BY <1>7, HistoryTyped DEF StartHold, Met
  <2>3. held' = lag /\ state' = state /\ candidate' = Target(r) /\ UNCHANGED <<inState, approved>>
    BY <1>7 DEF StartHold
  <2>4. held' \in 0..MaxAge /\ held' <= met' + MaxLag
    <3>1. held' \in 0..MaxLag /\ met' \in 0..MaxAge
      BY <1>1, <2>2, <2>3
    <3> QED
      BY <3>1, LagIsAge
  <2> QED
    BY <1>1, <2>1, <2>2, <2>3, <2>4 DEF StateTypeOK, TimerIsHonest
<1>8. CASE KeepHolding(r)
  BY <1>1, <1>8, HoldAssumption DEF KeepHolding, Met, StateTypeOK, TimerIsHonest
<1>9. CASE Fall(r)
  BY <1>1, <1>9, EnterKeeps DEF Fall
<1> QED
  BY <1>2, <1>3, <1>4, <1>5, <1>6, <1>7, <1>8, <1>9 DEF Evaluate

LEMMA HoldKept == HoldInv /\ [Next]_ssvars => HoldInv'
<1> SUFFICES ASSUME HoldInv, [Next]_ssvars PROVE HoldInv'
  OBVIOUS
<1>1. CASE \E r \in Readings : Evaluate(r)
  BY <1>1, EvaluateKeeps
<1>2. CASE EvaluateRaises
  <2>1. CASE state = "HALT"
    BY <1>2, <2>1 DEF EvaluateRaises, HoldInv, StateTypeOK, TimerIsHonest, engine
  <2>2. CASE state # "HALT"
    BY <1>2, <2>2, EnterKeeps DEF EvaluateRaises, State
  <2> QED
    BY <2>1, <2>2
<1>3. CASE Approve \/ Revoke
  <2>1. approved' \in BOOLEAN
    BY <1>3, Zenon DEF Approve, Revoke
  <2>2. UNCHANGED <<state, inState, candidate, held, meets, met, lag>>
    BY <1>3 DEF Approve, Revoke
  <2> QED
    BY <2>1, <2>2 DEF HoldInv, StateTypeOK, TimerIsHonest
<1>4. CASE Tick
  <2>1. inState' \in 0..MaxAge /\ held' \in 0..MaxAge /\ met' \in 0..MaxAge
    BY <1>4, OlderIsAge DEF Tick, HoldInv, StateTypeOK
  <2>2. candidate # "none" => held' <= met' + MaxLag
    BY <1>4, OlderKeepsOrder, LagIsAge DEF Tick, HoldInv, StateTypeOK, TimerIsHonest
  <2>3. UNCHANGED <<state, candidate, approved, meets, lag>>
    BY <1>4 DEF Tick
  <2> QED
    BY <2>1, <2>2, <2>3 DEF HoldInv, StateTypeOK, TimerIsHonest
<1>5. CASE NextEvent
  BY <1>5 DEF NextEvent, HoldInv, StateTypeOK, TimerIsHonest, engine
<1>6. CASE UNCHANGED ssvars
  BY <1>6 DEF HoldInv, StateTypeOK, TimerIsHonest, ssvars, engine
<1> QED
  BY <1>1, <1>2, <1>3, <1>4, <1>5, <1>6 DEF Next

\* The state engine keeps its types, and its timer counts no time in which the exit
\* threshold was not met, but for the lag of an event's stamp.
THEOREM TimerStaysHonest == Spec => [](StateTypeOK /\ TimerIsHonest)
<1>1. HoldInv => StateTypeOK /\ TimerIsHonest
  BY DEF HoldInv
<1> QED
  BY <1>1, HoldInitially, HoldKept, PTL DEF Spec

-----------------------------------------------------------------------------
(* Out of HALT, and down the ladder *)

\* The steps that leave HALT.
LEMMA HaltStep ==
  ASSUME StateTypeOK, [Next]_ssvars, state = "HALT", state' # "HALT"
  PROVE  approved /\ state' = "CRISIS" /\ ~approved'
<1>1. ASSUME NEW r \in Readings, Evaluate(r) PROVE ReleaseHalt(r)
  <2>1. ~Escalate(r)
    BY TargetIsState, SeverityOrder DEF Escalate, Higher, State
  <2> QED
    BY <1>1, <2>1
       DEF Evaluate, BelowExit, HeldByOverride, StayInHalt, StartHold, KeepHolding, Fall, MayFall
<1>2. ~EvaluateRaises /\ ~Approve /\ ~Revoke /\ ~Tick /\ ~NextEvent /\ ~UNCHANGED ssvars
  BY DEF EvaluateRaises, Approve, Revoke, Tick, NextEvent, ssvars, engine
<1>3. PICK r \in Readings : ReleaseHalt(r)
  BY <1>1, <1>2 DEF Next
<1>4. approved /\ state' = "CRISIS"
  BY <1>3 DEF ReleaseHalt, Enter
<1>5. ~approved'
  BY <1>3, Zenon DEF ReleaseHalt, Enter
<1> QED
  BY <1>4, <1>5

\* HALT is left for CRISIS only, by an approval that is used up, whatever the readings.
THEOREM HaltHolds == Spec => HaltNeedsApproval
<1>1. HoldInv /\ [Next]_ssvars
      => [state = "HALT" /\ state' # "HALT" => approved /\ state' = "CRISIS" /\ ~approved']_ssvars
  BY HaltStep DEF HoldInv
<1> QED
  BY <1>1, HoldInitially, HoldKept, PTL DEF Spec, HaltNeedsApproval

\* The steps that go down from a state other than HALT.
LEMMA FallStep ==
  ASSUME HoldInv, [Next]_ssvars, state # "HALT", Severity[state'] < Severity[state]
  PROVE  meets /\ met + MaxLag >= Sustained[state] /\ inState >= MinInState[state]
<1>1. Severity[state] \in 0..4
  BY SeverityOrder DEF HoldInv, StateTypeOK
<1>2. state' # state
  BY <1>1
<1>3. ~EvaluateRaises
  BY <1>1 DEF EvaluateRaises, Enter, Severity, HoldInv, StateTypeOK, State
<1>4. ~Approve /\ ~Revoke /\ ~Tick /\ ~NextEvent /\ ~UNCHANGED ssvars
  BY <1>2 DEF Approve, Revoke, Tick, NextEvent, ssvars, engine
<1>5. ASSUME NEW r \in Readings, Evaluate(r) PROVE Fall(r)
  <2>1. ~Escalate(r)
    BY <1>1, TargetIsState, SeverityOrder DEF Escalate, Higher, Enter
  <2> QED
    BY <1>2, <1>5, <2>1
       DEF Evaluate, BelowExit, HeldByOverride, ReleaseHalt, StayInHalt, StartHold, KeepHolding
<1>6. PICK r \in Readings : Fall(r)
  BY <1>3, <1>4, <1>5 DEF Next
<1>7. HoldIsOver /\ candidate # "none"
  BY <1>6, TargetIsState DEF Fall, State
<1>8. meets /\ held <= met + MaxLag
  BY <1>7 DEF HoldInv, TimerIsHonest
<1>9. inState - lag >= MinInState[state] /\ held - lag >= Sustained[state]
  BY <1>7 DEF HoldIsOver, Elapsed
<1>10. /\ lag \in Nat /\ MaxLag \in Nat
       /\ inState \in Nat /\ held \in Nat /\ met \in Nat
       /\ MinInState[state] \in Nat /\ Sustained[state] \in Nat
  BY HoldAssumption DEF HoldInv, StateTypeOK
<1> QED
  BY <1>8, <1>9, <1>10

\* No state but HALT is left for a lower one before its hold, measured over every
\* evaluation since the exit threshold was first met, or MaxLag before.
THEOREM FallsHold == Spec => FallsAfterHold
<1>1. HoldInv /\ [Next]_ssvars
      => [state # "HALT" /\ Severity[state'] < Severity[state]
            => meets /\ met + MaxLag >= Sustained[state] /\ inState >= MinInState[state]]_ssvars
  BY FallStep
<1> QED
  BY <1>1, HoldInitially, HoldKept, PTL DEF Spec, FallsAfterHold

-----------------------------------------------------------------------------
(* The gates *)

\* A step of the gates is a step of the state engine, or leaves it alone.
LEMMA GatesStepIsStateStep == [GatesNext]_vars => [Next]_ssvars
<1> SUFFICES ASSUME [GatesNext]_vars PROVE [Next]_ssvars
  OBVIOUS
<1>1. ASSUME StateStage PROVE [Next]_ssvars
  BY <1>1, GatesAssumption DEF StateStage, Next
<1> QED
  BY <1>1 DEF GatesNext, Cycle, CycleRaises, GatesApprove, GatesRevoke, ClearCooldown,
              GetWell, GatesTick, GatesNextEvent, Next, vars, ssvars

\* What holds of the state engine holds of it inside the pipeline.
THEOREM GatesDriveTheStateEngine == GatesSpec => Spec
<1>1. GatesInit => Init
  BY DEF GatesInit
<1> QED
  BY <1>1, GatesStepIsStateStep, PTL DEF GatesSpec, Spec

\* What the deadline and the history have in common: the time that has passed since a
\* cycle of a level, and the time left, are short of that level's cool-down by no more
\* than the lag of that cycle's event.
CooldownCovers == \A l \in Blocking : since[l] + cooldown + MaxLag >= CooldownFor[l]

\* The same for HALT and the timers of CRISIS.
CrisisCovers ==
  /\ state = "HALT" => sinceHalt = 0
  /\ state = "CRISIS" /\ meets => met <= sinceHalt
  /\ state \notin {"CRISIS", "HALT"} => sinceHalt + MaxLag >= Sustained["CRISIS"]

\* And the step of an entry was clear of both.
EntryIsClear == traded => cooldown <= 0 /\ state \notin {"CRISIS", "HALT"}

GatesInv ==
  /\ HoldInv
  /\ GatesTypeOK
  /\ CooldownCovers
  /\ CrisisCovers
  /\ EntryIsClear

LEMMA GatesInitially == GatesInit => GatesInv
<1> SUFFICES ASSUME GatesInit PROVE GatesInv
  OBVIOUS
<1>1. HoldInv
  BY HoldInitially DEF GatesInit
<1>2. traded \in BOOLEAN /\ well \in BOOLEAN
  BY Zenon DEF GatesInit
<1>3. GatesTypeOK
  BY <1>1, <1>2, HoldAssumption, GatesAssumption DEF GatesInit, GatesTypeOK, HoldInv
<1>4. CooldownCovers
  BY HoldAssumption, GatesAssumption DEF GatesInit, CooldownCovers
<1>5. CrisisCovers
  BY HoldAssumption DEF GatesInit, Init, CrisisCovers, State
<1> QED
  BY <1>1, <1>3, <1>4, <1>5 DEF GatesInv, EntryIsClear, GatesInit

\* A notification never shortens the cool-down, and covers its own level.
LEMMA NotifiedCovers ==
  ASSUME cooldown \in (-MaxLag)..MaxAge, lag \in 0..MaxLag, NEW level \in Level
  PROVE  /\ Notified(level) \in (-MaxLag)..MaxAge
         /\ Notified(level) >= cooldown
         /\ level \in Blocking => Notified(level) + MaxLag >= CooldownFor[level]
         /\ level \notin Blocking => Notified(level) = cooldown
<1>1. MaxAge \in Nat /\ MaxLag \in 0..MaxAge
  BY HoldAssumption
<1>2. CASE level \in Blocking /\ CooldownFor[level] > 0
  <2>1. CooldownFor[level] \in 0..(MaxAge - MaxLag)
    BY <1>2, GatesAssumption
  <2>2. Notified(level) = IF cooldown > CooldownFor[level] - lag
                          THEN cooldown ELSE CooldownFor[level] - lag
    BY <1>2 DEF Notified, Larger
  <2> QED
    BY <1>1, <1>2, <2>1, <2>2
<1>3. CASE ~(level \in Blocking /\ CooldownFor[level] > 0)
  <2>1. Notified(level) = cooldown
    BY <1>3 DEF Notified
  <2>2. level \in Blocking => CooldownFor[level] = 0
    BY <1>1, <1>3, GatesAssumption
  <2> QED
    BY <1>1, <2>1, <2>2
<1> QED
  BY <1>2, <1>3

\* What stage 1 can do to the history.
LEMMA StageHistory ==
  ASSUME StateStage
  PROVE  \/ meets' = FALSE
         \/ state' = state /\ Met
         \/ UNCHANGED <<state, meets, met>>
<1>1. ASSUME NEW r \in Readings, Evaluate(r)
      PROVE  meets' = FALSE \/ (state' = state /\ Met)
  BY <1>1 DEF Evaluate, Escalate, BelowExit, HeldByOverride, ReleaseHalt, StayInHalt,
              StartHold, KeepHolding, Fall, Enter, Unmet
<1>2. ASSUME EvaluateRaises PROVE meets' = FALSE \/ UNCHANGED <<state, meets, met>>
  BY <1>2 DEF EvaluateRaises, Enter, Unmet, engine
<1> QED
  BY <1>1, <1>2, GatesAssumption DEF StateStage

LEMMA StageIsStateStep == StateStage => [Next]_ssvars
BY GatesAssumption DEF StateStage, Next

\* Stage 1 keeps the cover of CRISIS: HALT is left for CRISIS only, CRISIS for less
\* only after its hold, and its hold is no longer than the time since HALT.
LEMMA StageKeepsCrisisCover ==
  ASSUME GatesInv, StateStage, HaltSeen
  PROVE  CrisisCovers'
<1>1. HoldInv /\ HoldInv' /\ state \in State /\ state' \in State
  BY StageIsStateStep, HoldKept DEF GatesInv, HoldInv, StateTypeOK
<1>2. sinceHalt \in 0..MaxAge /\ met \in 0..MaxAge
  BY DEF GatesInv, GatesTypeOK, HoldInv, StateTypeOK
<1>3. CASE state' = "HALT"
  BY <1>3 DEF HaltSeen, CrisisCovers
<1>4. CASE state' = "CRISIS"
  <2>1. sinceHalt' = sinceHalt
    BY <1>4 DEF HaltSeen
  <2>2. ASSUME meets', state' = state, Met PROVE met' <= sinceHalt'
    BY <1>2, <1>4, <2>1, <2>2 DEF Met, GatesInv, CrisisCovers
  <2>3. ASSUME meets', UNCHANGED <<state, meets, met>> PROVE met' <= sinceHalt'
    BY <1>4, <2>1, <2>3 DEF GatesInv, CrisisCovers
  <2> QED
    BY <1>4, <2>2, <2>3, StageHistory DEF CrisisCovers
<1>5. CASE state' \notin {"CRISIS", "HALT"}
  <2>1. sinceHalt' = sinceHalt
    BY <1>5 DEF HaltSeen
  <2>2. state # "HALT"
    BY <1>1, <1>5, HaltStep, StageIsStateStep DEF HoldInv
  <2>3. CASE state = "CRISIS"
    <3>1. Severity[state'] < Severity[state]
      BY <1>1, <1>5, <2>3 DEF State, Severity
    <3>2. meets /\ met + MaxLag >= Sustained["CRISIS"]
      BY <1>1, <2>2, <2>3, <3>1, FallStep, StageIsStateStep
    <3>3. Sustained["CRISIS"] \in 0..MaxAge
      BY HoldAssumption DEF State
    <3>4. met <= sinceHalt
      BY <2>3, <3>2 DEF GatesInv, CrisisCovers
    <3>5. sinceHalt + MaxLag >= Sustained["CRISIS"]
      BY <1>2, <3>2, <3>3, <3>4, LagIsAge
    <3> QED
      BY <1>5, <2>1, <3>5 DEF CrisisCovers
  <2>4. CASE state # "CRISIS"
    BY <1>5, <2>1, <2>2, <2>4 DEF GatesInv, CrisisCovers
  <2> QED
    BY <2>3, <2>4
<1> QED
  BY <1>3, <1>4, <1>5

LEMMA CycleKeeps ==
  ASSUME GatesInv, Cycle
  PROVE  GatesInv'
<1>1. StateStage /\ HaltSeen
  BY DEF Cycle
<1>2. HoldInv' /\ CrisisCovers'
  BY <1>1, StageKeepsCrisisCover, StageIsStateStep, HoldKept DEF GatesInv
<1>3. PICK feed \in Feed, pass \in BOOLEAN, level \in Level :
        /\ traded' = (GuardAllows(state', feed, pass) /\ level \notin Blocking)
        /\ cooldown' = Notified(level)
        /\ since' = [l \in Blocking |-> IF l = level THEN 0 ELSE since[l]]
  <2>1. PICK feed \in Feed, pass \in BOOLEAN :
          \E level \in {KsLevel(state', feed)} \cup KsInputs :
             /\ traded' = (GuardAllows(state', feed, pass) /\ level \notin Blocking)
             /\ cooldown' = Notified(level)
             /\ since' = [l \in Blocking |-> IF l = level THEN 0 ELSE since[l]]
    BY DEF Cycle
  <2>2. {KsLevel(state', feed)} \cup KsInputs \subseteq Level
    BY GatesAssumption DEF KsLevel, Level
  <2> QED
    BY <2>1, <2>2
<1>4. /\ cooldown \in (-MaxLag)..MaxAge /\ since \in [Blocking -> 0..MaxAge]
      /\ lag \in 0..MaxLag /\ MaxLag \in Nat
  BY LagIsAge DEF GatesInv, GatesTypeOK, HoldInv, StateTypeOK
<1>5. cooldown' \in (-MaxLag)..MaxAge
  BY <1>3, <1>4, NotifiedCovers
<1>6. since' \in [Blocking -> 0..MaxAge]
  BY <1>3, <1>4, HoldAssumption
<1>7. traded' \in BOOLEAN
  BY <1>3, Zenon
<1>8. UNCHANGED <<warm, well>> /\ sinceHalt' \in 0..MaxAge
  BY <1>1, HoldAssumption DEF Cycle, HaltSeen, GatesInv, GatesTypeOK
<1>9. GatesTypeOK'
  BY <1>2, <1>5, <1>6, <1>7, <1>8 DEF GatesTypeOK, GatesInv, HoldInv
<1>10. CooldownCovers'
  <2> SUFFICES ASSUME NEW l \in Blocking
               PROVE  since'[l] + cooldown' + MaxLag >= CooldownFor[l]
    BY DEF CooldownCovers
  <2>1. since[l] + cooldown + MaxLag >= CooldownFor[l]
    BY DEF GatesInv, CooldownCovers
  <2>2. CooldownFor[l] \in Nat /\ since[l] \in Nat /\ MaxAge \in Nat
    BY <1>4, GatesAssumption, HoldAssumption
  <2>3. CASE l = level
    <3>1. since'[l] = 0 /\ cooldown' + MaxLag >= CooldownFor[l]
      BY <1>3, <1>4, <2>3, NotifiedCovers
    <3> QED
      BY <1>4, <1>5, <2>2, <3>1
  <2>4. CASE l # level
    <3>1. since'[l] = since[l] /\ cooldown' >= cooldown
      BY <1>3, <1>4, <2>4, NotifiedCovers
    <3> QED
      BY <1>4, <1>5, <2>1, <2>2, <3>1
  <2> QED
    BY <2>3, <2>4
<1>11. EntryIsClear'
  <2> SUFFICES ASSUME traded' PROVE cooldown' <= 0 /\ state' \notin {"CRISIS", "HALT"}
    BY DEF EntryIsClear
  <2>1. GuardAllows(state', feed, pass) /\ level \notin Blocking
    BY <1>3
  <2>2. cooldown' <= 0
    <3>1. cooldown' = cooldown /\ cooldown + lag <= 0
      BY <1>3, <1>4, <2>1, NotifiedCovers DEF GuardAllows
    <3> QED
      BY <1>4, <3>1, HoldAssumption
  <2>3. ~IsAtLeast(state', "DEFENSIVE")
    BY <2>1 DEF GuardAllows
  <2> QED
    BY <2>2, <2>3 DEF IsAtLeast, Severity
<1> QED
  BY <1>2, <1>9, <1>10, <1>11 DEF GatesInv

LEMMA GatesKept == GatesInv /\ [GatesNext]_vars => GatesInv'
<1> SUFFICES ASSUME GatesInv, [GatesNext]_vars PROVE GatesInv'
  OBVIOUS
<1>1. HoldInv'
  BY GatesStepIsStateStep, HoldKept DEF GatesInv
<1>2. CASE Cycle
  BY <1>2, CycleKeeps
<1>3. CASE CycleRaises
  <2>1. CrisisCovers'
    BY <1>3, StageKeepsCrisisCover DEF CycleRaises
  <2>2. sinceHalt' \in 0..MaxAge /\ traded' = FALSE
    BY <1>3, HoldAssumption DEF CycleRaises, HaltSeen, GatesInv, GatesTypeOK
  <2>3. traded' \in BOOLEAN
    BY <2>2, Zenon
  <2>4. UNCHANGED <<warm, cooldown, well, since>>
    BY <1>3 DEF CycleRaises
  <2> QED
    BY <1>1, <2>1, <2>2, <2>3, <2>4
       DEF GatesInv, GatesTypeOK, HoldInv, CooldownCovers, EntryIsClear
<1>4. CASE GatesApprove \/ GatesRevoke
  <2>1. traded' = FALSE /\ UNCHANGED <<warm, cooldown, well, since, sinceHalt, state, meets, met>>
    BY <1>4 DEF GatesApprove, GatesRevoke, Approve, Revoke
  <2>2. traded' \in BOOLEAN
    BY <2>1, Zenon
  <2> QED
    BY <1>1, <2>1, <2>2
       DEF GatesInv, GatesTypeOK, HoldInv, CooldownCovers, CrisisCovers, EntryIsClear
<1>5. CASE ClearCooldown
  <2>1. /\ traded' = FALSE /\ cooldown' = -MaxLag
        /\ since' = CooldownFor
        /\ UNCHANGED <<warm, well, sinceHalt, state, meets, met>>
    BY <1>5 DEF ClearCooldown, ssvars, engine
  <2>2. traded' \in BOOLEAN
    BY <2>1, Zenon
  <2>3. CooldownCovers'
    BY <2>1, HoldAssumption, GatesAssumption DEF CooldownCovers
  <2>4. GatesTypeOK'
    <3>1. CooldownFor \in [Blocking -> 0..MaxAge]
      <4>1. 0..(MaxAge - MaxLag) \subseteq 0..MaxAge
        BY HoldAssumption
      <4> QED
        BY <4>1, GatesAssumption
    <3>2. cooldown' \in (-MaxLag)..MaxAge
      BY <2>1, HoldAssumption
    <3> QED
      BY <1>1, <2>1, <2>2, <3>1, <3>2 DEF GatesInv, GatesTypeOK, HoldInv
  <2> QED
    BY <1>1, <2>1, <2>3, <2>4 DEF GatesInv, CrisisCovers, EntryIsClear
<1>6. CASE GetWell
  <2>1. /\ traded' = FALSE /\ well' = TRUE
        /\ UNCHANGED <<warm, cooldown, since, sinceHalt, state, meets, met>>
    BY <1>6 DEF GetWell, ssvars, engine
  <2>2. traded' \in BOOLEAN /\ well' \in BOOLEAN
    BY <2>1, Zenon
  <2> QED
    BY <1>1, <2>1, <2>2
       DEF GatesInv, GatesTypeOK, HoldInv, CooldownCovers, CrisisCovers, EntryIsClear
<1>7. CASE GatesTick
  <2>1. /\ traded' = FALSE /\ UNCHANGED <<well, state, meets>>
        /\ warm' = Older(warm)
        /\ cooldown' = IF cooldown > -MaxLag THEN cooldown - 1 ELSE cooldown
        /\ since' = [l \in Blocking |->
                      IF since[l] < CooldownFor[l] THEN since[l] + 1 ELSE since[l]]
        /\ sinceHalt' = IF state = "HALT" THEN 0 ELSE Older(sinceHalt)
        /\ met' = IF meets THEN Older(met) ELSE met
    BY <1>7 DEF GatesTick, Tick
  <2>2. traded' \in BOOLEAN
    BY <2>1, Zenon
  <2>3. /\ warm \in 0..MaxAge /\ cooldown \in (-MaxLag)..MaxAge /\ sinceHalt \in 0..MaxAge
        /\ since \in [Blocking -> 0..MaxAge] /\ met \in 0..MaxAge
    BY DEF GatesInv, GatesTypeOK, HoldInv, StateTypeOK
  <2>4. GatesTypeOK'
    <3>1. /\ warm' \in 0..MaxAge /\ cooldown' \in (-MaxLag)..MaxAge
          /\ sinceHalt' \in 0..MaxAge
      BY <2>1, <2>3, OlderIsAge, HoldAssumption
    <3>2. ASSUME NEW l \in Blocking PROVE since'[l] \in 0..MaxAge
      <4>1. since[l] \in 0..MaxAge /\ CooldownFor[l] \in 0..(MaxAge - MaxLag)
        BY <2>3, GatesAssumption
      <4>2. since'[l] = IF since[l] < CooldownFor[l] THEN since[l] + 1 ELSE since[l]
        BY <2>1
      <4> QED
        BY <4>1, <4>2, HoldAssumption
    <3>3. since' \in [Blocking -> 0..MaxAge]
      BY <2>1, <3>2
    <3> QED
      BY <1>1, <2>1, <2>2, <3>1, <3>3 DEF GatesInv, GatesTypeOK, HoldInv
  <2>5. CooldownCovers'
    <3> SUFFICES ASSUME NEW l \in Blocking
                 PROVE  since'[l] + cooldown' + MaxLag >= CooldownFor[l]
      BY DEF CooldownCovers
    <3>1. since[l] + cooldown + MaxLag >= CooldownFor[l]
      BY DEF GatesInv, CooldownCovers
    <3>2. /\ CooldownFor[l] \in Nat /\ since[l] \in Nat
          /\ cooldown \in Int /\ cooldown >= -MaxLag
          /\ MaxLag \in Nat
      BY <2>3, GatesAssumption, HoldAssumption
    <3>3. since'[l] = IF since[l] < CooldownFor[l] THEN since[l] + 1 ELSE since[l]
      BY <2>1
    <3>4. cooldown' \in Int /\ cooldown' >= cooldown - 1 /\ cooldown' >= -MaxLag
      BY <2>1, <3>2
    <3> QED
      BY <3>1, <3>2, <3>3, <3>4
  <2>6. CrisisCovers'
    <3>1. state = "CRISIS" /\ meets => Older(met) <= Older(sinceHalt)
      <4>1. ASSUME met <= sinceHalt PROVE Older(met) <= Older(sinceHalt)
        <5>1. Older(met) <= Older(sinceHalt) + 0
          BY <2>3, <4>1, OlderKeepsOrder
        <5> QED
          BY <2>3, <5>1, OlderIsAge
      <4> QED
        BY <4>1 DEF GatesInv, CrisisCovers
    <3>2. Older(sinceHalt) >= sinceHalt /\ Sustained["CRISIS"] \in 0..MaxAge
      BY <2>3, OlderIsAge, HoldAssumption DEF State
    <3>3. Older(sinceHalt) \in 0..MaxAge
      BY <2>3, OlderIsAge
    <3>4. state \notin {"CRISIS", "HALT"} => Older(sinceHalt) + MaxLag >= Sustained["CRISIS"]
      BY <2>3, <3>2, <3>3, LagIsAge DEF GatesInv, CrisisCovers
    <3> QED
      BY <2>1, <3>1, <3>4 DEF CrisisCovers
  <2> QED
    BY <1>1, <2>1, <2>4, <2>5, <2>6 DEF GatesInv, EntryIsClear
<1>8. CASE GatesNextEvent
  <2>1. traded' = FALSE /\ UNCHANGED <<warm, cooldown, well, since, sinceHalt, state, meets, met>>
    BY <1>8 DEF GatesNextEvent, NextEvent, engine
  <2>2. traded' \in BOOLEAN
    BY <2>1, Zenon
  <2> QED
    BY <1>1, <2>1, <2>2
       DEF GatesInv, GatesTypeOK, HoldInv, CooldownCovers, CrisisCovers, EntryIsClear
<1>9. CASE UNCHANGED vars
  BY <1>1, <1>9
     DEF GatesInv, GatesTypeOK, HoldInv, CooldownCovers, CrisisCovers, EntryIsClear,
         vars, gates, ssvars, engine
<1> QED
  BY <1>2, <1>3, <1>4, <1>5, <1>6, <1>7, <1>8, <1>9 DEF GatesNext

-----------------------------------------------------------------------------
(* What an entry can rely on *)

\* The gates keep their types: no timer or cool-down leaves its range.
THEOREM GatesTypeCorrect == GatesSpec => []GatesTypeOK
<1>1. GatesInv => GatesTypeOK
  BY DEF GatesInv
<1> QED
  BY <1>1, GatesInitially, GatesKept, PTL DEF GatesSpec

\* No entry within the cool-down of any earlier kill-switch event, less MaxLag, for
\* every table of durations, and for events of any levels in any order.
THEOREM EntriesWaitForCooldown == GatesSpec => []NoEntryInCooldown
<1>1. GatesInv => NoEntryInCooldown
  <2> SUFFICES ASSUME GatesInv, traded, NEW l \in Blocking
               PROVE  since[l] + MaxLag >= CooldownFor[l]
    BY DEF NoEntryInCooldown
  <2>1. cooldown <= 0 /\ since[l] + cooldown + MaxLag >= CooldownFor[l]
    BY DEF GatesInv, EntryIsClear, CooldownCovers
  <2>2. since[l] \in Nat /\ cooldown \in Int /\ MaxLag \in Nat /\ CooldownFor[l] \in Nat
    BY HoldAssumption, GatesAssumption DEF GatesInv, GatesTypeOK
  <2> QED
    BY <2>1, <2>2
<1> QED
  BY <1>1, GatesInitially, GatesKept, PTL DEF GatesSpec

\* No entry after HALT before the hold of CRISIS, less MaxLag, is over.
THEOREM EntriesWaitAfterHalt == GatesSpec => []NoEntrySoonAfterHalt
<1>1. GatesInv => NoEntrySoonAfterHalt
  BY DEF GatesInv, EntryIsClear, CrisisCovers, NoEntrySoonAfterHalt
<1> QED
  BY <1>1, GatesInitially, GatesKept, PTL DEF GatesSpec

=============================================================================
