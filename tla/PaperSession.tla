---------------------------- MODULE PaperSession ----------------------------
(***************************************************************************)
(* The paper-live session (crypto_core/session/engine.py) over the order   *)
(* lifecycle engine: cycles that trade and book their fills in the         *)
(* position tracker, the portfolio snapshot that is saved after them, and  *)
(* the recovery that starts a new process from two files written one after *)
(* the other: the execution log of OrderLifecycle and the snapshot.        *)
(*                                                                         *)
(* The tracker is abstracted to the filled quantity it has booked for each *)
(* order: what it nets and values does not matter to where a fill is lost  *)
(* or counted twice.  Operator calls come between cycles, from the thread  *)
(* that runs them; the threads around it are in PaperLiveService.          *)
(***************************************************************************)
EXTENDS OrderLifecycle

CONSTANTS
  NoSnapshot,       \* the portfolio file does not exist
  Configs           \* the deployments in use: sets of the words of ConfigWords

\* "every_fill", "on_stop": persist_every_fill, persist_on_stop of PaperSessionConfig;
\* "limit": max_cycles is set, so the session may reach it; "save_fails": a save of
\* the portfolio may raise (the error is logged); "tca_fails": an append of the TCA
\* loop may raise, which discards the cycle's result.
ConfigWords == {"every_fill", "on_stop", "limit", "save_fails", "tca_fails"}

\* Registering restored orders is a dictionary update in the adapter of a paper
\* session: it does not raise.
ASSUME SessionAssumption ==
  /\ Configs \subseteq SUBSET ConfigWords
  /\ NoSnapshot \notin [Order -> Nat]
  /\ Modes \subseteq {"paper", "dry_run"} /\ "register_error" \notin Faults

VARIABLES
  config,    \* the deployment: the same for every process
  session,   \* SessionMode
  cycle,     \* "none", "pipeline": orders are traded, "persist": portfolio to save
  counted,   \* fills in the pipeline's result so far
  booked,    \* the tracker: quantity booked for each order
  snapshot,  \* portfolio.json: what was booked when it was saved, or NoSnapshot
  cutShort   \* history: a cycle's result was discarded, and the tracker not saved since

svars == <<config, session, cycle, counted, booked, snapshot, cutShort>>
allVars == <<vars, svars>>

Nothing == [o \in Order |-> 0]

SessionInit ==
  /\ Init /\ config \in Configs
  /\ session = "INITIALIZING" /\ cycle = "none" /\ counted = 0
  /\ booked = Nothing /\ snapshot = NoSnapshot /\ cutShort = FALSE

\* _persist_portfolio: a temporary file moved over the old one, so all or nothing.
Save ==
  \/ snapshot' = booked /\ cutShort' = FALSE
  \/ "save_fails" \in config /\ UNCHANGED <<snapshot, cutShort>>

NoSave == UNCHANGED <<snapshot, cutShort>>

-----------------------------------------------------------------------------
(* Cycles *)

\* process_event in RUNNING; in every other mode the event is refused.
BeginCycle ==
  /\ session = "RUNNING" /\ cycle = "none"
  /\ cycle' = "pipeline" /\ counted' = 0
  /\ UNCHANGED <<vars, config, session, booked, snapshot, cutShort>>

\* Mutant of ReachMaxCycles: the limit fails the session.
ReachMaxCyclesFails ==
  /\ "limit" \in config
  /\ session = "RUNNING" /\ cycle = "none"
  /\ session' = "FAILED"
  /\ UNCHANGED <<vars, config, cycle, counted, booked, snapshot, cutShort>>

\* The cycle limit stops the session, and saves nothing.
ReachMaxCycles ==
  /\ "limit" \in config
  /\ session = "RUNNING" /\ cycle = "none"
  /\ session' = "STOPPED"
  /\ UNCHANGED <<vars, config, cycle, counted, booked, snapshot, cutShort>>

\* The pipeline hands a request to the engine.
RequestInCycle ==
  /\ cycle = "pipeline"
  /\ \E o \in Order, req \in Qty :
       RefuseAtGate(o, req) \/ RefuseAtPricing(o, req) \/ DryRun(o, req) \/ Accept(o, req)
  /\ UNCHANGED svars

EngineInCycle ==
  /\ cycle = "pipeline"
  /\ PersistRefusal \/ Validate \/ Submit \/ SubmitRaises \/ ApplyNext
  /\ UNCHANGED svars

\* The fills the tracker takes before one it refuses: a fill of quantity zero is no
\* synthetic fill (from_fill_event raises).
Bookable(fills) ==
  SubSeq(fills, 1, Cardinality({n \in DOMAIN fills : \A i \in 1..n : fills[i] # 0}))

\* The result of one request: its fills are booked one by one; if one raises, the
\* pipeline's result is the fail-closed one, without any lifecycle result.
ReturnAndBook ==
  /\ cycle = "pipeline" /\ Return
  /\ LET fills == Bookable(call.fills) IN
     /\ booked' = [booked EXCEPT ![call.oid] = @ + Total(fills)]
     /\ \/ fills = call.fills /\ counted' = counted + Len(fills) /\ cycle' = cycle
        \/ fills # call.fills /\ counted' = 0 /\ cycle' = "none"
     /\ cutShort' = (cutShort \/ fills # call.fills)
  /\ UNCHANGED <<config, session, snapshot>>

\* Mutant of EndPipeline: off by one in the number of fills to save after.
EndPipelineOffByOne ==
  /\ cycle = "pipeline" /\ call.pc = "idle"
  /\ cycle' = IF counted > 1 /\ "every_fill" \in config THEN "persist" ELSE "none"
  /\ UNCHANGED <<vars, config, session, counted, booked, snapshot, cutShort>>

EndPipeline ==
  /\ cycle = "pipeline" /\ call.pc = "idle"
  /\ cycle' = IF counted > 0 /\ "every_fill" \in config THEN "persist" ELSE "none"
  /\ UNCHANGED <<vars, config, session, counted, booked, snapshot, cutShort>>

\* on_price_update, after the requests: process() answers the fail-closed result.
TcaRaises ==
  /\ cycle = "pipeline" /\ call.pc = "idle" /\ "tca_fails" \in config
  /\ cycle' = "none" /\ cutShort' = (cutShort \/ counted > 0)
  /\ UNCHANGED <<vars, config, session, counted, booked, snapshot>>

SaveAfterFills ==
  /\ cycle = "persist"
  /\ Save
  /\ cycle' = "none"
  /\ UNCHANGED <<vars, config, session, counted, booked>>

-----------------------------------------------------------------------------
(* Operator calls *)

Pause ==
  /\ session = "RUNNING" /\ cycle = "none"
  /\ session' = "PAUSED"
  /\ UNCHANGED <<vars, config, cycle, counted, booked, snapshot, cutShort>>

Resume ==
  /\ session = "PAUSED"
  /\ session' = "RUNNING"
  /\ UNCHANGED <<vars, config, cycle, counted, booked, snapshot, cutShort>>

\* Mutant of Stop: the portfolio is saved in any mode.
StopSavesAlways ==
  /\ session \in {"RUNNING", "PAUSED", "BLOCKED"} /\ cycle = "none"
  /\ Save
  /\ session' = "STOPPED"
  /\ UNCHANGED <<vars, config, cycle, counted, booked>>

\* Mutant of Stop: a paused session is stopped without saving.
StopSavesRunning ==
  /\ session \in {"RUNNING", "PAUSED", "BLOCKED"} /\ cycle = "none"
  /\ IF session = "RUNNING" THEN Save ELSE NoSave
  /\ session' = "STOPPED"
  /\ UNCHANGED <<vars, config, cycle, counted, booked>>

\* stop() of a session that was started; only a running or paused session saves its portfolio.
Stop ==
  /\ session \in {"RUNNING", "PAUSED", "BLOCKED"} /\ cycle = "none"
  /\ IF session \in {"RUNNING", "PAUSED"} /\ "on_stop" \in config
       THEN Save ELSE NoSave
  /\ session' = "STOPPED"
  /\ UNCHANGED <<vars, config, cycle, counted, booked>>

\* start() by the runner, of a new process or after stop(); restart() from BLOCKED.
MayStart == session \in {"INITIALIZING", "STOPPED", "BLOCKED"}

\* _should_recover: without a portfolio file the log is not looked at.
StartClean ==
  /\ MayStart /\ snapshot = NoSnapshot
  /\ ColdStart \/ (call.pc # "down" /\ UNCHANGED vars)
  /\ session' = "RUNNING"
  /\ UNCHANGED <<config, cycle, counted, booked, snapshot, cutShort>>

\* Mutant of StartRecovering: the fills of the log are booked on top of the portfolio.
StartReplayingFills ==
  /\ MayStart /\ snapshot # NoSnapshot
  /\ \/ LoadFails /\ session' = "BLOCKED" /\ booked' = booked
     \/ LoadClean /\ session' = "RUNNING"
          /\ booked' = [o \in Order |-> snapshot[o] + LoggedFill(o)]
     \/ LoadWithOrphans /\ session' = "RECOVERING" /\ booked' = booked
  /\ UNCHANGED <<config, cycle, counted, snapshot, cutShort>>

\* start() with a portfolio file: recovery of both stores.  The engine's half is
\* in OrderLifecycle; the tracker is the saved one.
StartRecovering ==
  /\ MayStart /\ snapshot # NoSnapshot
  /\ \/ LoadFails /\ session' = "BLOCKED" /\ booked' = booked
     \/ LoadClean /\ session' = "RUNNING" /\ booked' = snapshot
     \/ LoadWithOrphans /\ session' = "RECOVERING" /\ booked' = booked
  /\ UNCHANGED <<config, cycle, counted, snapshot, cutShort>>

\* Unresolved orders block the session; the saved portfolio is taken either way.
ReconcileInStart ==
  /\ session = "RECOVERING"
  /\ Reconcile
  /\ booked' = IF call'.pc = "reconciling" THEN booked ELSE snapshot
  /\ session' = CASE call'.pc = "reconciling" -> "RECOVERING"
                  [] call'.pc = "idle" -> "RUNNING"
                  [] call'.pc = "blocked" -> "BLOCKED"
  /\ UNCHANGED <<config, cycle, counted, snapshot, cutShort>>

-----------------------------------------------------------------------------
(* Crash, and the specification *)

\* The process dies; a new one begins with a new tracker.
Die ==
  /\ Crash \/ CrashInAppend
  /\ session' = "INITIALIZING" /\ cycle' = "none" /\ counted' = 0
  /\ booked' = Nothing /\ cutShort' = FALSE
  /\ UNCHANGED <<config, snapshot>>

ClockTick == Tick /\ UNCHANGED svars

\* One step of a cycle or of a start that has begun.
SessionStep ==
  EngineInCycle \/ ReturnAndBook \/ EndPipeline \/ TcaRaises \/ SaveAfterFills \/ ReconcileInStart

SessionNext ==
  \/ SessionStep \/ BeginCycle \/ RequestInCycle \/ ReachMaxCycles
  \/ Pause \/ Resume \/ Stop \/ StartClean \/ StartRecovering
  \/ Die \/ ClockTick

SessionSpec == SessionInit /\ [][SessionNext]_allVars

\* A cycle or a start that has begun goes on, unless the process dies: the pipeline
\* has finitely many signals to trade in a cycle.
FairSessionSpec == SessionSpec /\ WF_allVars(SessionStep)

-----------------------------------------------------------------------------
(* Properties *)

\* Type invariant of the session.
SessionTypeOK ==
  /\ config \in Configs /\ cutShort \in BOOLEAN
  /\ session \in {"INITIALIZING", "RECOVERING", "RUNNING", "PAUSED", "BLOCKED", "STOPPED"}
  /\ cycle \in {"none", "pipeline", "persist"}
  /\ counted \in Nat
  /\ booked \in [Order -> Nat]
  /\ snapshot = NoSnapshot \/ snapshot \in [Order -> Nat]

\* The portfolio never runs ahead of the log: no fill is booked, or saved, that the
\* log does not hold, and none is booked twice, through any crash and recovery.
PortfolioWithinLog ==
  \A o \in Order :
    /\ booked[o] <= LoggedFill(o)
    /\ snapshot # NoSnapshot => snapshot[o] <= LoggedFill(o)

\* Where each cycle with fills is to be saved, and saves do not fail.
SavesEachCycle == "every_fill" \in config /\ "save_fails" \notin config

\* Between cycles the saved portfolio is the tracker's ("persisted after every
\* fill"), also after a recovery; only a cycle whose result was discarded breaks it,
\* until the next save.
SnapshotIsCurrent ==
  SavesEachCycle /\ ~cutShort /\ cycle = "none" /\ session \in {"RUNNING", "PAUSED"} =>
    IF snapshot = NoSnapshot THEN booked = Nothing ELSE booked = snapshot

\* stop() persists the final state: a stopped session booked nothing that is not
\* saved, also with no save before.  (The cycle limit stops a session without a save.)
StoppedIsSaved ==
  session = "STOPPED" /\ "on_stop" \in config /\ "save_fails" \notin config
    /\ ("limit" \in config => "every_fill" \in config /\ ~cutShort) =>
    \A o \in Order : booked[o] <= (IF snapshot = NoSnapshot THEN Nothing ELSE snapshot)[o]

\* What the portfolio file has, it keeps: no later save, from a recovered or a
\* restarted session, drops a fill it holds.
SnapshotNeverForgets ==
  [][ snapshot # NoSnapshot =>
        /\ snapshot' # NoSnapshot
        /\ \A o \in Order : snapshot[o] <= snapshot'[o] ]_allVars

\* With a portfolio file, a session comes to run only over a log that loads and with
\* every orphan answered for; otherwise it stays blocked.
RunsOnlyAfterRecovery ==
  [][ session \notin {"RUNNING", "PAUSED"} /\ session' = "RUNNING" /\ snapshot # NoSnapshot
        => Loadable /\ unresolved' = {} ]_allVars

\* A fill logged in a cycle reaches the portfolio file, unless the process dies first
\* or a fill that cannot be booked discards the cycle.
FillsReachSnapshot ==
  \A o \in Order :
    SavesEachCycle /\ call.pc = "applying" /\ call.oid = o /\ LoggedFill(o) > 0 ~>
      \/ session = "INITIALIZING" \/ cutShort
      \/ snapshot # NoSnapshot /\ snapshot[o] = LoggedFill(o)

\* The documented contract of RecoveryResult: success only if the two stores are
\* consistent, so a session running between cycles has booked what the log holds.
RunsOnConsistentStores ==
  session = "RUNNING" /\ cycle = "none" /\ snapshot # NoSnapshot =>
    \A o \in Order : booked[o] = LoggedFill(o)

=============================================================================
