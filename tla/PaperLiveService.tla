-------------------------- MODULE PaperLiveService --------------------------
(***************************************************************************)
(* The managed paper-live service (crypto_core/service): feed threads that *)
(* enqueue events in a bounded queue, consumer threads that take them to   *)
(* the runner, and the operator thread that starts, stops, pauses, resumes *)
(* and restarts the service.  The mode is shared and read and written      *)
(* under a lock that each of them takes for one access at a time, so the   *)
(* threads interleave between any two of these accesses.                   *)
(*                                                                         *)
(* Events are numbered in the order they enter the queue.                  *)
(***************************************************************************)
EXTENDS Naturals, Sequences, FiniteSets

CONSTANTS
  Feed,           \* feed callback threads
  QueueMax,       \* ServiceConfig.queue_max_size
  CriticalDepth,  \* depth from which queue_critical_pct is reached
  MaxEvents,      \* bound on the events enqueued in a behaviour
  MaxStarts       \* bound on the starts and restarts of a behaviour

ASSUME ServiceAssumption ==
  /\ QueueMax \in Nat \ {0} /\ CriticalDepth \in 1..QueueMax
  /\ MaxEvents \in Nat /\ MaxStarts \in Nat

\* Consumer threads, numbered by the start that creates them.
Consumer == 1..MaxStarts
NoThread == 0

VARIABLES
  orderly,   \* environment: no event takes longer than the 5 s that stop() waits, and
             \* start() is not called on a FAILED service, though it allows it
  mode,      \* ServiceMode
  stopFlag,  \* _consumer_stop
  alive,     \* _consumer_alive, the flag status() reports
  handle,    \* _consumer_thread
  running,   \* PaperLiveRunner._running
  session,   \* the mode of the session
  queue,     \* the events waiting
  entered,   \* number of events that entered the queue
  last,      \* the newest event handed to the runner
  consumer,  \* per thread: where it is, and the event it holds
  feed,      \* per feed thread: where enqueue_event is
  op,        \* the operator thread: where it is and in which call
  starts     \* starts so far

shared == <<mode, stopFlag, alive, handle, running, session, queue, entered, last>>
vars == <<orderly, shared, consumer, feed, op, starts>>

Live == {c \in Consumer : consumer[c].at \notin {"unborn", "gone"}}
InRunner == {c \in Consumer : consumer[c].at \in {"in_runner", "in_cycle"}}

\* A session that ended by itself under its service: a cycle raised, or max_cycles
\* was reached, whose mode is STOPPED too and which is told apart here.
SelfEnded == {"FAILED", "EXHAUSTED"}

Init ==
  /\ orderly \in BOOLEAN
  /\ mode = "CREATED" /\ stopFlag = FALSE /\ alive = FALSE /\ handle = NoThread
  /\ running = FALSE /\ session = "INITIALIZING"
  /\ queue = <<>> /\ entered = 0 /\ last = 0
  /\ consumer = [c \in Consumer |-> [at |-> "unborn", event |-> 0]]
  /\ feed = [f \in Feed |-> "idle"]
  /\ op = [at |-> "idle", call |-> "none"]
  /\ starts = 0

-----------------------------------------------------------------------------
(* Feed threads: enqueue_event *)

\* The mode is checked under the lock, before the event is put.
FeedEvent(f) ==
  /\ feed[f] = "idle" /\ entered < MaxEvents
  /\ mode \notin {"STOPPED", "STOPPING"}
  /\ feed' = [feed EXCEPT ![f] = "putting"]
  /\ UNCHANGED <<orderly, shared, consumer, op, starts>>

\* Mutant of Put: the queue has no bound.
PutUnbounded(f) ==
  /\ feed[f] = "putting"
  /\ queue' = Append(queue, entered + 1)
  /\ entered' = entered + 1
  /\ feed' = [feed EXCEPT ![f] = "idle"]
  /\ UNCHANGED <<orderly, mode, stopFlag, alive, handle, running, session, last, consumer, op, starts>>

Put(f) ==
  /\ feed[f] = "putting" /\ Len(queue) < QueueMax
  /\ queue' = Append(queue, entered + 1)
  /\ entered' = entered + 1
  /\ feed' = [feed EXCEPT ![f] = "idle"]
  /\ UNCHANGED <<orderly, mode, stopFlag, alive, handle, running, session, last, consumer, op, starts>>

\* The queue is full: the event is dropped.
Drop(f) ==
  /\ feed[f] = "putting" /\ Len(queue) >= QueueMax
  /\ feed' = [feed EXCEPT ![f] = "overflow"]
  /\ UNCHANGED <<orderly, shared, consumer, op, starts>>

ReportOverflow(f) ==
  /\ feed[f] = "overflow"
  /\ mode' = "FAILED"
  /\ feed' = [feed EXCEPT ![f] = "idle"]
  /\ UNCHANGED <<orderly, stopFlag, alive, handle, running, session, queue, entered, last,
                 consumer, op, starts>>

-----------------------------------------------------------------------------
(* Consumer threads: _consumer_loop *)

Goes(c, where) == consumer' = [consumer EXCEPT ![c] = [at |-> where, event |-> 0]]

EnterLoop(c) ==
  /\ consumer[c].at = "spawned"
  /\ alive' = TRUE
  /\ Goes(c, "loop")
  /\ UNCHANGED <<orderly, mode, stopFlag, handle, running, session, queue, entered, last, feed, op, starts>>

SeeStop(c) ==
  /\ consumer[c].at = "loop" /\ stopFlag
  /\ Goes(c, "leaving")
  /\ UNCHANGED <<orderly, shared, feed, op, starts>>

\* Mutant of Poll: the pressure is looked at before the event is taken, so that the
\* loop goes round without draining the queue.
PollBelowCritical(c) ==
  /\ consumer[c].at = "loop" /\ ~stopFlag /\ Len(queue) < CriticalDepth
  /\ Goes(c, "polling")
  /\ UNCHANGED <<orderly, shared, feed, op, starts>>

\* The flag was clear: the thread is in queue.get, for an event or a timeout.
Poll(c) ==
  /\ consumer[c].at = "loop" /\ ~stopFlag
  /\ Goes(c, "polling")
  /\ UNCHANGED <<orderly, shared, feed, op, starts>>

PollTimesOut(c) ==
  /\ consumer[c].at = "polling" /\ queue = <<>>
  /\ Goes(c, "loop")
  /\ UNCHANGED <<orderly, shared, feed, op, starts>>

\* Mutant of Get: the newest event is taken first.
GetNewest(c) ==
  /\ consumer[c].at = "polling" /\ queue # <<>>
  /\ consumer' = [consumer EXCEPT ![c] = [at |-> "got", event |-> queue[Len(queue)]]]
  /\ queue' = SubSeq(queue, 1, Len(queue) - 1)
  /\ UNCHANGED <<orderly, mode, stopFlag, alive, handle, running, session, entered, last, feed, op, starts>>

\* Mutant of Get: the event is read and left in the queue.
GetPeeks(c) ==
  /\ consumer[c].at = "polling" /\ queue # <<>>
  /\ consumer' = [consumer EXCEPT ![c] = [at |-> "got", event |-> Head(queue)]]
  /\ UNCHANGED <<orderly, mode, stopFlag, alive, handle, running, session, queue, entered, last, feed,
                 op, starts>>

Get(c) ==
  /\ consumer[c].at = "polling" /\ queue # <<>>
  /\ consumer' = [consumer EXCEPT ![c] = [at |-> "got", event |-> Head(queue)]]
  /\ queue' = Tail(queue)
  /\ UNCHANGED <<orderly, mode, stopFlag, alive, handle, running, session, entered, last, feed, op, starts>>

\* Refilled to the brim since the get: the service fails and the thread leaves.
FindOverflow(c) ==
  /\ consumer[c].at = "got" /\ Len(queue) >= QueueMax
  /\ mode' = "FAILED"
  /\ Goes(c, "leaving")
  /\ UNCHANGED <<orderly, stopFlag, alive, handle, running, session, queue, entered, last, feed, op, starts>>

\* Critical pressure: the event is consumed and not routed.
Shed(c) ==
  /\ consumer[c].at = "got" /\ Len(queue) \in CriticalDepth..(QueueMax - 1)
  /\ Goes(c, "loop")
  /\ UNCHANGED <<orderly, shared, feed, op, starts>>

\* Below it: the event goes to runner.on_event, which may take a while.
Deliver(c) ==
  /\ consumer[c].at = "got" /\ Len(queue) < CriticalDepth
  /\ consumer' = [consumer EXCEPT ![c].at = "in_runner"]
  /\ last' = consumer[c].event
  /\ UNCHANGED <<orderly, mode, stopFlag, alive, handle, running, session, queue, entered, feed, op, starts>>

\* The event fires no cycle, or the session does not run and refuses it.
Delivered(c) ==
  /\ consumer[c].at = "in_runner"
  /\ Goes(c, "loop")
  /\ UNCHANGED <<orderly, shared, feed, op, starts>>

\* The session is found running: it takes the event for a cycle.
BeginCycle(c) ==
  /\ consumer[c].at = "in_runner" /\ running /\ session = "RUNNING"
  /\ consumer' = [consumer EXCEPT ![c].at = "in_cycle"]
  /\ UNCHANGED <<orderly, shared, feed, op, starts>>

\* The cycle ends well, or max_cycles was reached or the cycle raises, which ends the
\* session, whatever the operator made of it meanwhile; the service is told nothing.
EndCycle(c) ==
  /\ consumer[c].at = "in_cycle"
  /\ session' \in {session} \cup SelfEnded
  /\ Goes(c, "loop")
  /\ UNCHANGED <<orderly, mode, stopFlag, alive, handle, running, queue, entered, last, feed, op, starts>>

\* on_event raises: only a RUNNING service becomes FAILED; the thread leaves anyway.
DeliveryRaises(c) ==
  /\ running
  /\ consumer[c].at = "in_runner"
  /\ mode' = IF mode = "RUNNING" THEN "FAILED" ELSE mode
  /\ Goes(c, "leaving")
  /\ UNCHANGED <<orderly, stopFlag, alive, handle, running, session, queue, entered, last, feed, op, starts>>

Leave(c) ==
  /\ consumer[c].at = "leaving"
  /\ alive' = FALSE
  /\ Goes(c, "gone")
  /\ UNCHANGED <<orderly, mode, stopFlag, handle, running, session, queue, entered, last, feed, op, starts>>

-----------------------------------------------------------------------------
(* The operator thread.  Its calls come one after the other; restart() is stop(),
   a clear of the queue, and start(). *)

At(where) == op.at = where
OpGoes(where) == op' = [op EXCEPT !.at = where]
Calls(name, where) == op' = [at |-> where, call |-> name]
OpDone == op' = [at |-> "idle", call |-> "none"]

\* start(), and the start inside restart(): from CREATED, FAILED or STOPPED.
BeginStart ==
  /\ \/ At("idle") /\ Calls("start", "starting")
     \/ At("restarting") /\ OpGoes("starting")
  /\ \/ mode \in {"CREATED", "STOPPED"}
     \/ mode = "FAILED" /\ (At("restarting") \/ ~orderly)
  /\ starts < MaxStarts
  /\ mode' = "STARTING"
  /\ starts' = starts + 1
  /\ UNCHANGED <<orderly, stopFlag, alive, handle, running, session, queue, entered, last, consumer, feed>>

\* The strict bootstrap, or runner.start(), fails: no consumer is created.
StartFails ==
  /\ At("starting")
  /\ mode' = "FAILED"
  /\ OpDone
  /\ UNCHANGED <<orderly, stopFlag, alive, handle, running, session, queue, entered, last,
                 consumer, feed, starts>>

\* runner.start(): nothing if the runner still runs, else the session starts: it
\* runs, or its recovery blocks it.
StartRunner ==
  /\ At("starting")
  /\ running' = TRUE
  /\ IF running THEN session' = session ELSE session' \in {"RUNNING", "BLOCKED"}
  /\ OpGoes("spawning")
  /\ UNCHANGED <<orderly, mode, stopFlag, alive, handle, queue, entered, last, consumer, feed, starts>>

\* The stop flag is cleared and a new consumer thread created, whatever became of
\* the one before.
SpawnConsumer ==
  /\ At("spawning")
  /\ stopFlag' = FALSE
  /\ Goes(starts, "spawned") /\ handle' = starts
  /\ OpGoes("started")
  /\ UNCHANGED <<orderly, mode, alive, running, session, queue, entered, last, feed, starts>>

EndStart ==
  /\ At("started")
  /\ mode' = "RUNNING"
  /\ OpDone
  /\ UNCHANGED <<orderly, stopFlag, alive, handle, running, session, queue, entered, last,
                 consumer, feed, starts>>

\* stop(), and the stop that begins restart(): nothing if STOPPED already.
BeginStop ==
  /\ At("idle")
  /\ mode # "STOPPED"
  /\ \/ Calls("stop", "signal")
     \/ starts < MaxStarts /\ Calls("restart", "signal")
  /\ mode' = "STOPPING"
  /\ UNCHANGED <<orderly, stopFlag, alive, handle, running, session, queue, entered, last,
                 consumer, feed, starts>>

RestartStopped ==
  /\ At("idle") /\ starts < MaxStarts /\ mode = "STOPPED"
  /\ Calls("restart", "clearing")
  /\ UNCHANGED <<orderly, shared, consumer, feed, starts>>

\* Mutant of SignalConsumer: the stop flag is not set.
SignalForgotten ==
  /\ At("signal")
  /\ OpGoes("joining")
  /\ UNCHANGED <<orderly, shared, consumer, feed, starts>>

SignalConsumer ==
  /\ At("signal")
  /\ stopFlag' = TRUE
  /\ OpGoes("joining")
  /\ UNCHANGED <<orderly, mode, alive, handle, running, session, queue, entered, last,
                 consumer, feed, starts>>

\* Mutant of Join: nothing waits for the thread to leave.
JoinWithoutWaiting ==
  /\ At("joining")
  /\ OpGoes("stopping")
  /\ UNCHANGED <<orderly, shared, consumer, feed, starts>>

\* The join of the newest thread returns when it is gone, or after its timeout.
Join ==
  /\ At("joining")
  /\ handle \notin Live \/ (~orderly /\ handle \in InRunner)
  /\ OpGoes("stopping")
  /\ UNCHANGED <<orderly, shared, consumer, feed, starts>>

\* Mutant of StopRunner: the runner keeps its running flag.
StopRunnerHalfway ==
  /\ At("stopping")
  /\ session' = IF running THEN "STOPPED" ELSE session
  /\ OpGoes("ending")
  /\ UNCHANGED <<orderly, mode, stopFlag, alive, handle, running, queue, entered, last, consumer, feed,
                 starts>>

\* runner.stop() stops the session, if the runner was started.
StopRunner ==
  /\ At("stopping")
  /\ running' = FALSE
  /\ session' = IF running THEN "STOPPED" ELSE session
  /\ OpGoes("ending")
  /\ UNCHANGED <<orderly, mode, stopFlag, alive, handle, queue, entered, last, consumer, feed, starts>>

EndStop ==
  /\ At("ending")
  /\ mode' = "STOPPED" /\ alive' = FALSE
  /\ IF op.call = "restart" THEN OpGoes("clearing") ELSE OpDone
  /\ UNCHANGED <<orderly, stopFlag, handle, running, session, queue, entered, last,
                 consumer, feed, starts>>

ClearQueue ==
  /\ At("clearing")
  /\ queue' = <<>>
  /\ OpGoes("resetting")
  /\ UNCHANGED <<orderly, mode, stopFlag, alive, handle, running, session, entered, last,
                 consumer, feed, starts>>

ResetMode ==
  /\ At("resetting")
  /\ mode' = "CREATED"
  /\ OpGoes("restarting")
  /\ UNCHANGED <<orderly, stopFlag, alive, handle, running, session, queue, entered, last,
                 consumer, feed, starts>>

\* pause() and resume() change the mode under the lock, and then the session, whose
\* mode they read and write without one.
BeginPause ==
  /\ At("idle") /\ mode = "RUNNING"
  /\ mode' = "PAUSED"
  /\ Calls("pause", "pausing")
  /\ UNCHANGED <<orderly, stopFlag, alive, handle, running, session, queue, entered, last,
                 consumer, feed, starts>>

BeginResume ==
  /\ At("idle") /\ mode = "PAUSED"
  /\ mode' = "RUNNING"
  /\ Calls("resume", "resuming")
  /\ UNCHANGED <<orderly, stopFlag, alive, handle, running, session, queue, entered, last,
                 consumer, feed, starts>>

\* Only a running session is paused, and only a paused one resumed.
SeeSession ==
  /\ \/ At("pausing") /\ IF session = "RUNNING" THEN OpGoes("holding") ELSE OpDone
     \/ At("resuming") /\ IF session = "PAUSED" THEN OpGoes("releasing") ELSE OpDone
  /\ UNCHANGED <<orderly, shared, consumer, feed, starts>>

TurnSession ==
  /\ \/ At("holding") /\ session' = "PAUSED"
     \/ At("releasing") /\ session' = "RUNNING"
  /\ OpDone
  /\ UNCHANGED <<orderly, mode, stopFlag, alive, handle, running, queue, entered, last,
                 consumer, feed, starts>>

-----------------------------------------------------------------------------
(* The specification *)

FeedStep(f) == FeedEvent(f) \/ Put(f) \/ Drop(f) \/ ReportOverflow(f)

ConsumerStep(c) ==
  \/ EnterLoop(c) \/ SeeStop(c) \/ Poll(c) \/ PollTimesOut(c) \/ Get(c)
  \/ FindOverflow(c) \/ Shed(c) \/ Deliver(c) \/ Delivered(c) \/ BeginCycle(c)
  \/ EndCycle(c) \/ DeliveryRaises(c) \/ Leave(c)

\* The steps of a call the operator has begun.
OpStep ==
  \/ At("restarting") /\ BeginStart
  \/ StartFails \/ StartRunner \/ SpawnConsumer \/ EndStart
  \/ SignalConsumer \/ Join \/ StopRunner \/ EndStop \/ ClearQueue \/ ResetMode
  \/ SeeSession \/ TurnSession

OpCall == At("idle") /\ (BeginStart \/ BeginStop \/ RestartStopped \/ BeginPause \/ BeginResume)

Next ==
  \/ \E f \in Feed : FeedStep(f)
  \/ \E c \in Consumer : ConsumerStep(c)
  \/ OpStep \/ OpCall

Spec == Init /\ [][Next]_vars

\* Threads are scheduled: a consumer and a call in progress do not stand still.  The
\* feeds and the operator's next call are the environment's.
FairSpec ==
  /\ Spec
  /\ \A c \in Consumer : WF_vars(ConsumerStep(c))
  /\ WF_vars(OpStep)

-----------------------------------------------------------------------------
(* Properties *)

\* Type invariant.
TypeOK ==
  /\ orderly \in BOOLEAN
  /\ mode \in {"CREATED", "STARTING", "RUNNING", "PAUSED", "STOPPING", "STOPPED", "FAILED"}
  /\ stopFlag \in BOOLEAN /\ alive \in BOOLEAN /\ running \in BOOLEAN
  /\ handle \in Consumer \cup {NoThread}
  /\ session \in {"INITIALIZING", "RUNNING", "BLOCKED", "PAUSED", "STOPPED"} \cup SelfEnded
  /\ Len(queue) <= QueueMax /\ \A i \in DOMAIN queue : queue[i] \in 1..entered
  /\ entered \in Nat /\ last \in 0..entered
  /\ consumer \in [Consumer -> [at : {"unborn", "spawned", "loop", "polling", "got",
                                     "in_runner", "in_cycle", "leaving", "gone"},
                               event : 0..entered]]
  /\ feed \in [Feed -> {"idle", "putting", "overflow"}]
  /\ starts \in 0..MaxStarts

\* The documented rule of the consumer loop: it is the only thread that calls
\* runner.on_event, and no two calls are in progress together.
OneCallerOfRunner == Cardinality(InRunner) <= 1

\* It holds where every consumer leaves in time and a FAILED service is not started:
\* through pauses, restarts, overflows and failed starts one thread is in the runner.
OneCallerIfOrderly == orderly => OneCallerOfRunner

\* Events reach the runner in the order they entered the queue, and none twice.
EventsInOrder ==
  [][ orderly /\ last' # last =>
        last' > last /\ \A i \in DOMAIN queue : last' # queue[i] ]_vars

\* No event is lost to, or seen by, two threads: one that a thread holds is held by
\* no other and has left the queue, however many threads there are.
EventHeldOnce ==
  \A c, d \in Live :
    consumer[c].event # 0 =>
      /\ c # d => consumer[c].event # consumer[d].event
      /\ \A i \in DOMAIN queue : queue[i] # consumer[c].event

\* When stop() has returned, no thread of the service touches the runner.
StoppedIsQuiet == orderly /\ mode = "STOPPED" /\ At("idle") => Live = {}

\* Between the operator's calls a session is what the service says of it, unless its
\* recovery blocked it or it ended by itself: a RUNNING service never stands over a
\* session left paused, stopped or unstarted, nor a PAUSED one over a session that runs.
SessionFollowsService ==
  orderly /\ At("idle") /\ mode \in {"RUNNING", "PAUSED"} =>
    session \in {mode, "BLOCKED"} \cup SelfEnded

\* While a thread of the service lives, status() reports a live consumer.
AliveIsReported ==
  orderly /\ At("idle") /\ handle \in Live /\ consumer[handle].at # "spawned" => alive

\* A call of the operator comes to its end: stop() waits for a consumer that leaves.
OperatorReturns == ~At("idle") ~> At("idle")

\* What waits in the queue of a service that keeps running, with its consumer, is
\* consumed.
QueueIsServed ==
  \A n \in 1..MaxEvents :
    (\E i \in DOMAIN queue : queue[i] = n)
      ~> (\A i \in DOMAIN queue : queue[i] # n) \/ handle \notin Live \/ stopFlag

=============================================================================
