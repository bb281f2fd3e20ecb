---------------------------- MODULE SystemState ----------------------------
(***************************************************************************)
(* The system state engine (crypto_core/state/engine.py): the composite    *)
(* health score and the maxed signals of each evaluation drive a ladder    *)
(* NORMAL < DEGRADED < DEFENSIVE < CRISIS < HALT.  It rises at once and    *)
(* falls after a hold; HALT is left by an operator's approval only.        *)
(*                                                                         *)
(* The score is abstracted to the bands between the thresholds it is       *)
(* compared with.                                                          *)
(*                                                                         *)
(* The engine's clock is the time stamp of the event it evaluates, which   *)
(* may step back from one event to the next: a stamp lags behind the       *)
(* exchange's clock by up to MaxLag.  A stamp that is kept is the age it   *)
(* has by the exchange's clock, in units, up to MaxAge.                    *)
(***************************************************************************)
EXTENDS Integers

CONSTANTS
  Readings,    \* the readings in use, of PossibleReadings
  MinInState,  \* DEESC_MIN_IN_STATE_S: the least time in a state
  Sustained,   \* DEESC_SUSTAINED_S: how long the exit threshold must be met
  MaxLag,      \* how far an event's stamp may lie behind the exchange's clock
  MaxAge       \* bound: an age counts up to here

State == {"NORMAL", "DEGRADED", "DEFENSIVE", "CRISIS", "HALT"}
Severity == [NORMAL |-> 0, DEGRADED |-> 1, DEFENSIVE |-> 2, CRISIS |-> 3, HALT |-> 4]
IsAtLeast(s, t) == Severity[s] >= Severity[t]

\* The score lies above the first .15, .35, .50, .60, .70, .80, .85 in order, so many
\* of them: every threshold the engine compares it with is one of these.
Band == 0..7

\* s1 is the kill switch, s4 the data feed.
Signal == {"s1", "s4", "other"}

\* A signal at 1 takes its weight from the score: .20 for s1, .10 for s4.
PossibleReadings ==
  {r \in [shs : Band, maxed : SUBSET Signal] :
     /\ "s1" \in r.maxed => r.shs <= 5
     /\ {"s1", "s4"} \subseteq r.maxed => r.shs <= 4}

ASSUME ReadingsAssumption == Readings \subseteq PossibleReadings
ASSUME HoldAssumption ==
  /\ MaxAge \in Nat /\ MaxLag \in 0..MaxAge
  /\ MinInState \in [State -> 0..(MaxAge - MaxLag)]
  /\ Sustained \in [State -> 0..(MaxAge - MaxLag)]

VARIABLES
  state,      \* _current_state
  inState,    \* age of _state_entered_ns
  candidate,  \* _deesc_candidate, "none" for None
  held,       \* age of _deesc_candidate_since_ns; 0 with no candidate
  approved,   \* _halt_manual_approved
  meets,      \* history: the last evaluation in this state was above its exit threshold
  met,        \* history: time since it was first met, at every evaluation since
  lag         \* how far the stamp of the next event lies behind the exchange's clock

engine == <<state, inState, candidate, held, approved, meets, met>>
ssvars == <<engine, lag>>

Init ==
  /\ state = "NORMAL" /\ inState = 0
  /\ candidate = "none" /\ held = 0
  /\ approved = FALSE
  /\ meets = FALSE /\ met = 0
  /\ lag = 0

-----------------------------------------------------------------------------
(* The target of a reading *)

TargetFromShs(shs) ==
  CASE shs >= 6 -> "NORMAL"
    [] shs \in {4, 5} -> "DEGRADED"
    [] shs \in {2, 3} -> "DEFENSIVE"
    [] shs = 1 -> "CRISIS"
    [] shs = 0 -> "HALT"

\* Overrides: a maxed kill switch means HALT, any maxed signal at least CRISIS.
Target(r) ==
  IF "s1" \in r.maxed THEN "HALT"
  ELSE IF r.maxed # {} /\ ~IsAtLeast(TargetFromShs(r.shs), "CRISIS") THEN "CRISIS"
  ELSE TargetFromShs(r.shs)

Higher(r) == Severity[Target(r)] > Severity[state]
Lower(r) == Severity[Target(r)] < Severity[state]

\* DEESC_EXIT_SHS, which a score has to exceed; NORMAL has a sentinel no score exceeds.
ExitBand == [NORMAL |-> 8, DEGRADED |-> 7, DEFENSIVE |-> 5, CRISIS |-> 3, HALT |-> 4]
AboveExit(r) == r.shs >= ExitBand[state]

\* The data feed is lost, and the target is below DEFENSIVE.  (Target never is.)
Floored(r) == "s4" \in r.maxed /\ ~IsAtLeast(Target(r), "DEFENSIVE")

-----------------------------------------------------------------------------
(* Evaluations *)

\* ts minus a stamp of this age: it may be negative.
Elapsed(age) == age - lag

\* The history: the exit threshold was met, or not, at this evaluation.
Met == meets' = TRUE /\ met' = IF meets THEN met ELSE 0
Unmet == meets' = FALSE /\ met' = 0

\* Mutant of Enter: the candidate and its timer survive the transition.
EnterKeepingTimer(s) ==
  /\ state' = s /\ inState' = lag
  /\ UNCHANGED <<candidate, held>>
  /\ approved' = (approved /\ s = "HALT")
  /\ Unmet

\* Mutant of Enter: an approval is not used up.
EnterKeepingApproval(s) ==
  /\ state' = s /\ inState' = lag
  /\ candidate' = "none" /\ held' = 0
  /\ UNCHANGED approved
  /\ Unmet

\* _do_transition: the approval is dropped on entering any state but HALT.
Enter(s) ==
  /\ state' = s /\ inState' = lag
  /\ candidate' = "none" /\ held' = 0
  /\ approved' = (approved /\ s = "HALT")
  /\ Unmet

Escalate(r) == Higher(r) /\ Enter(Target(r))

\* Mutant of BelowExit: a dip below the exit threshold does not reset the timer.
BelowExitKeepsTimer(r) ==
  /\ ~Higher(r) /\ (Lower(r) => state # "HALT") /\ ~AboveExit(r)
  /\ Unmet
  /\ UNCHANGED <<state, inState, candidate, held, approved>>

\* The state stays, with the score not above its exit threshold: the timer is reset,
\* whether the target is the state or lower.
BelowExit(r) ==
  /\ ~Higher(r) /\ (Lower(r) => state # "HALT") /\ ~AboveExit(r)
  /\ candidate' = "none" /\ held' = 0 /\ Unmet
  /\ UNCHANGED <<state, inState, approved>>

\* The target is the state, though the score is above its exit threshold: an override
\* holds the state, and the timer goes on.
HeldByOverride(r) ==
  /\ Target(r) = state /\ AboveExit(r)
  /\ Met
  /\ UNCHANGED <<state, inState, candidate, held, approved>>

\* Mutant of ReleaseHalt: an approved release goes to the target at once.
ReleaseHaltToTarget(r) ==
  /\ state = "HALT" /\ Lower(r) /\ approved /\ AboveExit(r)
  /\ Enter(Target(r))

\* HALT: approval and the score, and no timers.
ReleaseHalt(r) ==
  /\ state = "HALT" /\ Lower(r) /\ approved /\ AboveExit(r)
  /\ Enter("CRISIS")

StayInHalt(r) ==
  /\ state = "HALT" /\ Lower(r) /\ ~(approved /\ AboveExit(r))
  /\ IF AboveExit(r) THEN Met ELSE Unmet
  /\ UNCHANGED <<state, inState, candidate, held, approved>>

MayFall(r) == state # "HALT" /\ Lower(r) /\ AboveExit(r) /\ ~Floored(r)

\* Mutant of StartHold: the candidate is not stored, so the timer starts each time.
StartHoldForgotten(r) ==
  /\ MayFall(r) /\ candidate # Target(r)
  /\ held' = lag
  /\ Met
  /\ UNCHANGED <<state, inState, candidate, approved>>

\* A new candidate starts the timer.
StartHold(r) ==
  /\ MayFall(r) /\ candidate # Target(r)
  /\ candidate' = Target(r) /\ held' = lag
  /\ Met
  /\ UNCHANGED <<state, inState, approved>>

HoldIsOver == Elapsed(inState) >= MinInState[state] /\ Elapsed(held) >= Sustained[state]

KeepHolding(r) ==
  /\ MayFall(r) /\ candidate = Target(r) /\ ~HoldIsOver
  /\ Met
  /\ UNCHANGED <<state, inState, candidate, held, approved>>

\* The state falls to the candidate, which may be several steps down.
Fall(r) ==
  /\ MayFall(r) /\ candidate = Target(r) /\ HoldIsOver
  /\ Enter(candidate)

Evaluate(r) ==
  /\ \/ Escalate(r) \/ BelowExit(r) \/ HeldByOverride(r)
     \/ ReleaseHalt(r) \/ StayInHalt(r)
     \/ StartHold(r) \/ KeepHolding(r) \/ Fall(r)
  /\ UNCHANGED lag

\* evaluate raises: _force_halt.
EvaluateRaises ==
  /\ IF state # "HALT" THEN Enter("HALT") ELSE UNCHANGED engine
  /\ UNCHANGED lag

-----------------------------------------------------------------------------
(* The operator, and time.  Time is the exchange's clock, which does not step back;
   the stamps of the events do. *)

\* approve_halt_release, in any state.
Approve ==
  /\ approved' = TRUE
  /\ UNCHANGED <<state, inState, candidate, held, meets, met, lag>>

Revoke ==
  /\ approved' = FALSE
  /\ UNCHANGED <<state, inState, candidate, held, meets, met, lag>>

Older(age) == IF age < MaxAge THEN age + 1 ELSE age

Tick ==
  /\ inState' = Older(inState)
  /\ held' = IF candidate = "none" THEN held ELSE Older(held)
  /\ met' = IF meets THEN Older(met) ELSE met
  /\ UNCHANGED <<state, candidate, approved, meets, lag>>

\* The next event comes, of whatever feed, with a stamp before or after the last one.
NextEvent ==
  /\ lag' \in 0..MaxLag
  /\ UNCHANGED engine

Next ==
  (\E r \in Readings : Evaluate(r)) \/ EvaluateRaises \/ Approve \/ Revoke \/ Tick \/ NextEvent

Spec == Init /\ [][Next]_ssvars

-----------------------------------------------------------------------------
(* Properties *)

\* Type invariant: a candidate is a state less severe than the current one.
StateTypeOK ==
  /\ state \in State
  /\ inState \in 0..MaxAge /\ held \in 0..MaxAge /\ met \in 0..MaxAge
  /\ candidate = "none" \/ (candidate \in State /\ Severity[candidate] < Severity[state])
  /\ approved \in BOOLEAN /\ meets \in BOOLEAN /\ lag \in 0..MaxLag

\* The timer counts no time in which the exit threshold was not met, but for the lag of
\* the event that started it: a candidate has been held no longer than every evaluation
\* of this state has been above the threshold.
TimerIsHonest == candidate # "none" => meets /\ held <= met + MaxLag

\* HALT is left for CRISIS only, with an approval, which is used up: it takes another
\* one to leave the next HALT.
HaltNeedsApproval ==
  [][ state = "HALT" /\ state' # "HALT" => approved /\ state' = "CRISIS" /\ ~approved' ]_ssvars

\* Hysteresis: a state other than HALT is left for a lower one only when every
\* evaluation since the Sustained time ago, all of them in this state, found the score
\* above the exit threshold, whatever overrides and targets came between; stamps that
\* step back shorten this by no more than MaxLag.
FallsAfterHold ==
  [][ state # "HALT" /\ Severity[state'] < Severity[state]
        => meets /\ met + MaxLag >= Sustained[state] /\ inState >= MinInState[state] ]_ssvars

=============================================================================
