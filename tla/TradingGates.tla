---------------------------- MODULE TradingGates ----------------------------
(***************************************************************************)
(* What stands between a signal and an order: a pipeline cycle evaluates   *)
(* the system state, asks the guard, computes the kill-switch level, tells *)
(* the temporal scheduler, and asks the risk engine.  The guard reads the  *)
(* cool-down before the level of its own cycle is known, so the two gates  *)
(* cover for each other.                                                   *)
(*                                                                         *)
(* crypto_core/orchestrator/pipeline.py (stages 1 to 4), guard,            *)
(* risk/kill_switch.py, temporal/scheduler.py, risk/engine.py.  All the    *)
(* rules over a single input (book, limits, regime, edge, routing) are one *)
(* choice, and a time stamp is its age, or the time left to it, by the     *)
(* exchange's clock, as in SystemState: each cycle's time is the stamp of  *)
(* its event, which may step back.                                         *)
(***************************************************************************)
EXTENDS SystemState

CONSTANTS
  KsInputs,      \* levels a caller's ks_input may come to
  CooldownFor,   \* ks_cooldown_durations_ns, by level
  Warmup,        \* startup_warmup_ms
  GoodReadings   \* readings of a system that is well

Level == 0..4
Blocking == 2..4    \* KS_BLOCK_THRESHOLD and ks_cooldown_threshold are both 2

ASSUME GatesAssumption ==
  /\ KsInputs \subseteq Level
  /\ CooldownFor \in [Blocking -> 0..(MaxAge - MaxLag)]
  /\ Warmup \in 0..(MaxAge - MaxLag)
  /\ GoodReadings \subseteq Readings

VARIABLES
  warm,       \* time since engine_start_ns
  cooldown,   \* time left to _cooldown_until_ns, -MaxLag when it is long past
  traded,     \* the last step was a cycle that let an entry through
  well,       \* environment: from now on every input is good
  since,      \* history: by level, time since a cycle had it or the operator's reset,
              \* up to its cool-down
  sinceHalt   \* history: time since the state was last HALT

gates == <<warm, cooldown, traded, well, since, sinceHalt>>
vars == <<ssvars, gates>>

GatesInit ==
  /\ Init
  /\ warm = 0 /\ cooldown = -MaxLag
  /\ traded = FALSE /\ well = FALSE
  /\ since = CooldownFor
  /\ sinceHalt = MaxAge

-----------------------------------------------------------------------------
(* The gates.  A feed is live; connected but in recovery; or not connected. *)

Feed == {"live", "recovering", "down"}

Larger(a, b) == IF a > b THEN a ELSE b

\* KillSwitchEngine, with the input the orchestrator derives.  A feed in recovery
\* triggers nothing: no recovery state is called "recovering".
KsLevel(s, feed) ==
  CASE s = "HALT" -> 4
    [] s = "CRISIS" -> 3
    [] ~IsAtLeast(s, "CRISIS") /\ feed = "down" -> 2
    [] OTHER -> 0

\* NoTradeGuard: NT-D05, NT-X01, NT-T01, NT-T02; pass is the verdict of the others.
GuardAllows(s, feed, pass) ==
  /\ pass /\ feed = "live" /\ ~IsAtLeast(s, "DEFENSIVE")
  /\ Elapsed(warm) >= Warmup /\ cooldown + lag <= 0

\* Mutant of Notified: the last event sets the deadline, even an earlier one.
NotifiedLast(level) ==
  IF level \in Blocking /\ CooldownFor[level] > 0 THEN CooldownFor[level] - lag ELSE cooldown

\* notify_ks_event: the later of the two deadlines.
Notified(level) ==
  IF level \in Blocking /\ CooldownFor[level] > 0
  THEN Larger(cooldown, CooldownFor[level] - lag)
  ELSE cooldown

-----------------------------------------------------------------------------
(* Cycles *)

\* Stage 1 never raises: what evaluate does not survive is HALT.
StateStage == (\E r \in IF well THEN GoodReadings ELSE Readings : Evaluate(r))
              \/ (~well /\ EvaluateRaises)

HaltSeen == sinceHalt' = IF state' = "HALT" THEN 0 ELSE sinceHalt

\* The level is derived from the state and the feed, or a caller's.
Cycle ==
  /\ StateStage /\ HaltSeen
  /\ \E feed \in Feed, pass \in BOOLEAN :
       \E level \in {KsLevel(state', feed)} \cup KsInputs :
         /\ well => feed = "live" /\ pass /\ level = KsLevel(state', feed)
         /\ traded' = (GuardAllows(state', feed, pass) /\ level \notin Blocking)
         /\ cooldown' = Notified(level)
         /\ since' = [l \in Blocking |-> IF l = level THEN 0 ELSE since[l]]
  /\ UNCHANGED <<warm, well>>

\* A stage before notify_ks_event raises: the cycle blocks, and what stage 1 did stays.
CycleRaises ==
  /\ ~well
  /\ StateStage /\ HaltSeen
  /\ traded' = FALSE
  /\ UNCHANGED <<warm, cooldown, well, since>>

-----------------------------------------------------------------------------
(* The operator, the environment, and time *)

GatesApprove ==
  /\ Approve /\ traded' = FALSE
  /\ UNCHANGED <<warm, cooldown, well, since, sinceHalt>>

GatesRevoke ==
  /\ Revoke /\ traded' = FALSE
  /\ UNCHANGED <<warm, cooldown, well, since, sinceHalt>>

\* clear_cooldown: the operator answers for what came before.
ClearCooldown ==
  /\ cooldown' = -MaxLag /\ traded' = FALSE
  /\ since' = CooldownFor
  /\ UNCHANGED <<ssvars, warm, well, sinceHalt>>

GetWell ==
  /\ well' = TRUE /\ traded' = FALSE
  /\ UNCHANGED <<ssvars, warm, cooldown, since, sinceHalt>>

GatesTick ==
  /\ Tick
  /\ warm' = Older(warm)
  /\ cooldown' = IF cooldown > -MaxLag THEN cooldown - 1 ELSE cooldown
  /\ since' = [l \in Blocking |-> IF since[l] < CooldownFor[l] THEN since[l] + 1 ELSE since[l]]
  /\ sinceHalt' = IF state = "HALT" THEN 0 ELSE Older(sinceHalt)
  /\ traded' = FALSE
  /\ UNCHANGED well

GatesNextEvent ==
  /\ NextEvent /\ traded' = FALSE
  /\ UNCHANGED <<warm, cooldown, well, since, sinceHalt>>

GatesNext ==
  \/ Cycle \/ CycleRaises
  \/ GatesApprove \/ GatesRevoke \/ ClearCooldown \/ GetWell
  \/ GatesTick \/ GatesNextEvent

GatesSpec == GatesInit /\ [][GatesNext]_vars

\* Market events keep coming, each starts a cycle, and time passes.
FairGatesSpec == GatesSpec /\ WF_vars(Cycle) /\ WF_vars(GatesTick)

-----------------------------------------------------------------------------
(* Properties *)

\* Type invariant.
GatesTypeOK ==
  /\ StateTypeOK
  /\ warm \in 0..MaxAge /\ cooldown \in (-MaxLag)..MaxAge /\ sinceHalt \in 0..MaxAge
  /\ traded \in BOOLEAN /\ well \in BOOLEAN
  /\ since \in [Blocking -> 0..MaxAge]

\* An entry comes no sooner after a kill-switch event than that event's cool-down, or
\* MaxLag less where stamps step back, though a later event of a lower level came in
\* between, and though the guard does not know the level of its own cycle.
NoEntryInCooldown == traded => \A l \in Blocking : since[l] + MaxLag >= CooldownFor[l]

\* After HALT there is no entry for at least the hold of CRISIS, less MaxLag, approval
\* or not: the way out of HALT leads through CRISIS.
NoEntrySoonAfterHalt == traded => sinceHalt + MaxLag >= Sustained["CRISIS"]

\* Trading resumes: once every input is good, an entry comes, unless the system is in
\* HALT and the operator does not approve.
TradingResumes == well ~> traded \/ (state = "HALT" /\ ~approved)

=============================================================================
