----------------------- MODULE PaperLiveServiceProofs -----------------------
(***************************************************************************)
(* Proofs about the managed paper-live service: its queue hands every      *)
(* event over once and in order, and where every consumer leaves in time   *)
(* and a FAILED service is not started, at most one thread is alive.       *)
(*                                                                         *)
(* The inductive invariant has two parts beyond the types: what is known   *)
(* of the numbers of the events, wherever they are, and what is known of   *)
(* the threads at each place the operator's call may be at.                *)
(***************************************************************************)
EXTENDS PaperLiveService, FiniteSetTheorems, TLAPS

OpPC == {"idle", "starting", "spawning", "started", "signal", "joining", "stopping",
         "ending", "clearing", "resetting", "restarting", "pausing", "resuming",
         "holding", "releasing"}

\* The record of a thread.
ThreadType(n) ==
  [at : {"unborn", "spawned", "loop", "polling", "got", "in_runner", "in_cycle", "leaving", "gone"},
   event : 0..n]

OpType == [at : OpPC, call : {"none", "start", "stop", "restart", "pause", "resume"}]

TypeInv ==
  /\ TypeOK
  /\ queue \in Seq(Nat)
  /\ op \in OpType

\* The events in the queue are in the order they entered it, and newer than every
\* event a thread holds and than the newest one the runner was given.  A thread
\* holds an event only between taking it and the runner's return, and no two
\* threads hold the same one.
Increasing == \A i, j \in DOMAIN queue : i < j => queue[i] < queue[j]
LastBeforeQueue == \A i \in DOMAIN queue : last < queue[i]
HeldBeforeQueue ==
  \A c \in Consumer :
    consumer[c].event # 0 =>
      /\ consumer[c].at \in {"got", "in_runner", "in_cycle"}
      /\ \A i \in DOMAIN queue : consumer[c].event < queue[i]
HeldApart ==
  \A c, d \in Consumer :
    c # d /\ consumer[c].event # 0 => consumer[c].event # consumer[d].event

QueueInv == Increasing /\ LastBeforeQueue /\ HeldBeforeQueue /\ HeldApart

\* A created service has been started at least once by the time a thread is spawned.
Started == op.at \in {"starting", "spawning"} => starts # 0

\* What a mode says while the operator is in the middle of a call: nothing but the
\* call itself and a failure change it.
ModeOfCall ==
  /\ op.at \in {"starting", "spawning", "started"} => mode \in {"STARTING", "FAILED"}
  /\ op.at \in {"signal", "joining", "stopping", "ending"} => mode \in {"STOPPING", "FAILED"}
  /\ op.at \in {"clearing", "resetting"} => mode \in {"STOPPED", "FAILED"}
  /\ op.at = "restarting" => mode \in {"CREATED", "FAILED"}
  /\ op.at \in {"pausing", "holding"} => mode \in {"PAUSED", "FAILED"}
  /\ op.at \in {"resuming", "releasing"} => mode \in {"RUNNING", "FAILED"}
  /\ op.at = "idle" => mode \in {"CREATED", "RUNNING", "PAUSED", "STOPPED", "FAILED"}

\* Only the newest thread lives.
OnlyHandle == \A c \in Consumer : consumer[c].at \notin {"unborn", "gone"} => c = handle

\* Between the join of stop() and the next spawn, and in a service that was never
\* started, no thread lives and the runner does not run.
Quiet ==
  op.at \in {"stopping", "ending", "clearing", "resetting", "restarting", "starting",
             "spawning"} \/ mode \in {"CREATED", "STOPPED"}
    => \A c \in Consumer : consumer[c].at \in {"unborn", "gone"}
NotRunning ==
  op.at \in {"ending", "clearing", "resetting", "restarting", "starting"}
    \/ mode \in {"CREATED", "STOPPED"}
    => ~running

\* A session may end by itself at any time; else it follows the operator's calls.
SessionOfMode ==
  /\ op.at \in {"spawning", "started", "pausing", "holding"} =>
       session \in {"RUNNING", "BLOCKED"} \cup SelfEnded
  /\ op.at \in {"resuming", "releasing"} => session \in {"PAUSED", "BLOCKED"} \cup SelfEnded
  /\ op.at = "idle" /\ mode \in {"RUNNING", "PAUSED"} =>
       session \in {mode, "BLOCKED"} \cup SelfEnded

AliveWhileLooping ==
  \A c \in Consumer : consumer[c].at \notin {"unborn", "spawned", "gone"} => alive

GotIsNewer == \A c \in Consumer : consumer[c].at = "got" => last < consumer[c].event

OrderlyInv ==
  orderly => /\ OnlyHandle /\ Quiet /\ NotRunning
             /\ SessionOfMode /\ AliveWhileLooping /\ GotIsNewer

IInv == TypeInv /\ QueueInv /\ Started /\ ModeOfCall /\ OrderlyInv

-----------------------------------------------------------------------------
(* Lemmas on sequences of numbers, and initial states *)

\* What is left of a sequence when its head is taken.
LEMMA TailOfSeq ==
  ASSUME NEW s \in Seq(Nat), s # <<>>
  PROVE  /\ Head(s) = s[1] /\ 1 \in DOMAIN s
         /\ Tail(s) \in Seq(Nat) /\ Len(Tail(s)) = Len(s) - 1
         /\ \A i \in DOMAIN Tail(s) : i + 1 \in DOMAIN s /\ i \in Nat \ {0} /\ Tail(s)[i] = s[i + 1]
OBVIOUS

\* A sequence with one more element.
LEMMA AppendToSeq ==
  ASSUME NEW s \in Seq(Nat), NEW e \in Nat
  PROVE  /\ Append(s, e) \in Seq(Nat) /\ Len(Append(s, e)) = Len(s) + 1
         /\ \A i \in DOMAIN Append(s, e) :
              \/ i \in DOMAIN s /\ Append(s, e)[i] = s[i]
              \/ i = Len(s) + 1 /\ Append(s, e)[i] = e
         /\ DOMAIN s = 1..Len(s) /\ Len(s) \in Nat
OBVIOUS

LEMMA InitIInv == Init => IInv
<1> SUFFICES ASSUME Init PROVE IInv
  OBVIOUS
<1>1. TypeInv
  <2>1. /\ queue \in Seq(Nat) /\ Len(queue) = 0 /\ DOMAIN queue = {}
    BY DEF Init
  <2>2. /\ consumer \in [Consumer -> ThreadType(0)]
        /\ feed \in [Feed -> {"idle", "putting", "overflow"}]
        /\ op \in OpType
    BY DEF Init, ThreadType, OpType, OpPC
  <2>3. /\ orderly \in BOOLEAN /\ stopFlag \in BOOLEAN /\ alive \in BOOLEAN
        /\ running \in BOOLEAN
    BY Zenon DEF Init
  <2>4. entered = 0 /\ last = 0 /\ starts = 0
    BY DEF Init
  <2>5. /\ mode = "CREATED" /\ session = "INITIALIZING" /\ handle = NoThread
    BY DEF Init
  <2> QED
    BY <2>1, <2>2, <2>3, <2>4, <2>5, ServiceAssumption DEF TypeInv, TypeOK, ThreadType
<1>2. QueueInv
  BY DEF QueueInv, Increasing, LastBeforeQueue, HeldBeforeQueue, HeldApart, Init
<1>3. Started /\ ModeOfCall
  BY DEF Started, ModeOfCall, Init
<1>4. OrderlyInv
  BY DEF OrderlyInv, OnlyHandle, Quiet, NotRunning, SessionOfMode, AliveWhileLooping,
     GotIsNewer, Init
<1> QED
  BY <1>1, <1>2, <1>3, <1>4 DEF IInv

-----------------------------------------------------------------------------
(* Types *)

\* A thread that moves on with no event, or with one of the queue, has the type of
\* a thread; so has one that keeps its record while more events enter.
LEMMA ThreadTypes ==
  ASSUME TypeInv
  PROVE  /\ \A c \in Consumer, where \in {"spawned", "loop", "polling", "leaving", "gone"} :
              Goes(c, where) => consumer' \in [Consumer -> ThreadType(entered)]
         /\ \A c \in Consumer :
              [consumer EXCEPT ![c].at = "in_runner"] \in [Consumer -> ThreadType(entered)]
         /\ \A c \in Consumer :
              [consumer EXCEPT ![c].at = "in_cycle"] \in [Consumer -> ThreadType(entered)]
         /\ \A c \in Consumer, n \in 0..entered :
              [consumer EXCEPT ![c] = [at |-> "got", event |-> n]]
                \in [Consumer -> ThreadType(entered)]
         /\ consumer \in [Consumer -> ThreadType(entered + 1)]
<1>1. consumer \in [Consumer -> ThreadType(entered)] /\ entered \in Nat
  BY DEF TypeInv, TypeOK, ThreadType
<1>2. ThreadType(entered) \subseteq ThreadType(entered + 1)
  BY <1>1 DEF ThreadType
<1> QED
  BY <1>1, <1>2 DEF ThreadType, Goes

LEMMA FeedTypes ==
  ASSUME TypeInv, NEW f \in Feed, FeedStep(f)
  PROVE  TypeInv'
<1>1. CASE FeedEvent(f)
  BY <1>1 DEF TypeInv, TypeOK, FeedEvent, shared
<1>2. CASE Put(f)
  <2>1. /\ queue' \in Seq(Nat) /\ Len(queue') <= QueueMax /\ entered' \in Nat
        /\ \A i \in DOMAIN queue' : queue'[i] \in 1..entered'
    BY <1>2, AppendToSeq, ServiceAssumption DEF TypeInv, TypeOK, Put
  <2>2. consumer' \in [Consumer -> ThreadType(entered')]
    BY <1>2, ThreadTypes DEF Put
  <2>3. last' \in 0..entered'
    BY <1>2 DEF TypeInv, TypeOK, Put
  <2>4. feed' \in [Feed -> {"idle", "putting", "overflow"}]
    BY <1>2 DEF TypeInv, TypeOK, Put
  <2> QED
    BY <1>2, <2>1, <2>2, <2>3, <2>4 DEF TypeInv, TypeOK, Put, ThreadType
<1>3. CASE Drop(f)
  BY <1>3 DEF TypeInv, TypeOK, Drop, shared
<1>4. CASE ReportOverflow(f)
  BY <1>4 DEF TypeInv, TypeOK, ReportOverflow
<1> QED
  BY <1>1, <1>2, <1>3, <1>4 DEF FeedStep

LEMMA ConsumerTypes ==
  ASSUME TypeInv, NEW c \in Consumer, ConsumerStep(c)
  PROVE  TypeInv'
<1>1. CASE EnterLoop(c) \/ Leave(c)
  <2>1. consumer' \in [Consumer -> ThreadType(entered)]
    BY <1>1, ThreadTypes DEF EnterLoop, Leave
  <2> QED
    BY <1>1, <2>1 DEF TypeInv, TypeOK, EnterLoop, Leave, ThreadType
<1>2. CASE SeeStop(c) \/ Poll(c) \/ PollTimesOut(c) \/ Shed(c) \/ Delivered(c)
  <2>1. consumer' \in [Consumer -> ThreadType(entered)]
    BY <1>2, ThreadTypes DEF SeeStop, Poll, PollTimesOut, Shed, Delivered
  <2> QED
    BY <1>2, <2>1 DEF TypeInv, TypeOK, SeeStop, Poll, PollTimesOut, Shed, Delivered, shared,
       ThreadType
<1>3. CASE Get(c)
  <2>1. /\ queue' \in Seq(Nat) /\ Len(queue') <= QueueMax
        /\ \A i \in DOMAIN queue' : queue'[i] \in 1..entered
        /\ Head(queue) \in 0..entered
    <3>1. queue # <<>> /\ queue' = Tail(queue) /\ queue \in Seq(Nat)
      BY <1>3 DEF Get, TypeInv
    <3> QED
      BY <3>1, TailOfSeq, ServiceAssumption DEF TypeInv, TypeOK
  <2>2. consumer' \in [Consumer -> ThreadType(entered)]
    BY <1>3, <2>1, ThreadTypes DEF Get
  <2> QED
    BY <1>3, <2>1, <2>2 DEF TypeInv, TypeOK, Get, ThreadType
<1>4. CASE FindOverflow(c) \/ DeliveryRaises(c)
  <2>1. consumer' \in [Consumer -> ThreadType(entered)]
    BY <1>4, ThreadTypes DEF FindOverflow, DeliveryRaises
  <2> QED
    BY <1>4, <2>1 DEF TypeInv, TypeOK, FindOverflow, DeliveryRaises, ThreadType
<1>5. CASE Deliver(c)
  <2>1. consumer' \in [Consumer -> ThreadType(entered)]
    BY <1>5, ThreadTypes DEF Deliver
  <2>2. last' \in 0..entered
    BY <1>5 DEF TypeInv, TypeOK, Deliver
  <2> QED
    BY <1>5, <2>1, <2>2 DEF TypeInv, TypeOK, Deliver, ThreadType
<1>6. CASE BeginCycle(c)
  <2>1. consumer' \in [Consumer -> ThreadType(entered)]
    BY <1>6, ThreadTypes DEF BeginCycle
  <2> QED
    BY <1>6, <2>1 DEF TypeInv, TypeOK, BeginCycle, shared, ThreadType
<1>7. CASE EndCycle(c)
  <2>1. consumer' \in [Consumer -> ThreadType(entered)]
    BY <1>7, ThreadTypes DEF EndCycle
  <2> QED
    BY <1>7, <2>1 DEF TypeInv, TypeOK, EndCycle, ThreadType
<1> QED
  BY <1>1, <1>2, <1>3, <1>4, <1>5, <1>6, <1>7 DEF ConsumerStep

LEMMA OpMoves ==
  ASSUME TypeInv
  PROVE  /\ \A where \in OpPC : OpGoes(where) => op' \in OpType /\ op'.at = where
         /\ \A name \in {"start", "stop", "restart", "pause", "resume"}, where \in OpPC :
              Calls(name, where) => op' \in OpType /\ op'.at = where
         /\ OpDone => op' \in OpType /\ op'.at = "idle"
BY DEF TypeInv, OpType, OpGoes, Calls, OpDone, OpPC

LEMMA OpTypes ==
  ASSUME TypeInv, Started, OpStep \/ OpCall
  PROVE  TypeInv'
<1> USE DEF OpPC
<1>1. CASE BeginStart
  <2>1. op' \in OpType
    BY <1>1, OpMoves DEF BeginStart
  <2>2. starts' \in 0..MaxStarts
    BY <1>1, ServiceAssumption DEF TypeInv, TypeOK, BeginStart
  <2> QED
    BY <1>1, <2>1, <2>2 DEF TypeInv, TypeOK, BeginStart
<1>2. CASE StartFails \/ EndStart \/ BeginStop \/ BeginPause \/ BeginResume
  <2>1. op' \in OpType
    BY <1>2, OpMoves DEF StartFails, EndStart, BeginStop, BeginPause, BeginResume
  <2> QED
    BY <1>2, <2>1 DEF TypeInv, TypeOK, StartFails, EndStart, BeginStop, BeginPause, BeginResume
<1>3. CASE StartRunner \/ SignalConsumer
  <2>1. op' \in OpType
    BY <1>3, OpMoves DEF StartRunner, SignalConsumer
  <2> QED
    BY <1>3, <2>1 DEF TypeInv, TypeOK, StartRunner, SignalConsumer
<1>4. CASE StopRunner \/ TurnSession
  <2>1. op' \in OpType
    BY <1>4, OpMoves DEF StopRunner, TurnSession
  <2>2. /\ session' \in {session, "RUNNING", "PAUSED", "STOPPED"}
        /\ running' \in BOOLEAN
    BY <1>4 DEF StopRunner, TurnSession, TypeInv, TypeOK
  <2> QED
    BY <1>4, <2>1, <2>2 DEF TypeInv, TypeOK, StopRunner, TurnSession
<1>5. CASE SpawnConsumer
  <2>1. starts \in Consumer
    BY <1>5, ServiceAssumption DEF TypeInv, TypeOK, Started, SpawnConsumer, At, Consumer
  <2>2. consumer' \in [Consumer -> ThreadType(entered)]
    BY <1>5, <2>1, ThreadTypes DEF SpawnConsumer
  <2>3. op' \in OpType
    BY <1>5, OpMoves DEF SpawnConsumer
  <2> QED
    BY <1>5, <2>1, <2>2, <2>3 DEF TypeInv, TypeOK, SpawnConsumer, ThreadType
<1>6. CASE RestartStopped \/ Join \/ SeeSession
  <2>1. op' \in OpType
    BY <1>6, OpMoves DEF RestartStopped, Join, SeeSession
  <2> QED
    BY <1>6, <2>1 DEF TypeInv, TypeOK, RestartStopped, Join, SeeSession, shared
<1>7. CASE EndStop \/ ResetMode
  <2>1. op' \in OpType
    BY <1>7, OpMoves DEF EndStop, ResetMode
  <2> QED
    BY <1>7, <2>1 DEF TypeInv, TypeOK, EndStop, ResetMode
<1>8. CASE ClearQueue
  <2>1. op' \in OpType
    BY <1>8, OpMoves DEF ClearQueue
  <2>2. queue' = <<>> /\ <<>> \in Seq(Nat) /\ Len(<<>>) = 0 /\ DOMAIN <<>> = {}
    BY <1>8 DEF ClearQueue
  <2> QED
    BY <1>8, <2>1, <2>2, ServiceAssumption DEF TypeInv, TypeOK, ClearQueue
<1> QED
  BY <1>1, <1>2, <1>3, <1>4, <1>5, <1>6, <1>7, <1>8 DEF OpStep, OpCall

-----------------------------------------------------------------------------
(* The numbers of the events *)

\* A thread that moves on with no event leaves the order of the events alone.
LEMMA QueueKept ==
  ASSUME TypeInv, QueueInv, UNCHANGED <<queue, last>>,
         consumer' = consumer
           \/ \E c \in Consumer, where \in {"spawned", "loop", "polling", "leaving", "gone"} :
                Goes(c, where)
  PROVE  QueueInv'
<1>1. \A d \in Consumer : consumer'[d] = consumer[d] \/ consumer'[d].event = 0
  BY DEF Goes, TypeInv, TypeOK
<1>2. Increasing' /\ LastBeforeQueue'
  BY DEF QueueInv, Increasing, LastBeforeQueue
<1>3. HeldBeforeQueue'
  BY <1>1 DEF QueueInv, HeldBeforeQueue
<1>4. HeldApart'
  BY <1>1 DEF QueueInv, HeldApart
<1> QED
  BY <1>2, <1>3, <1>4 DEF QueueInv

LEMMA FeedQueue ==
  ASSUME TypeInv, QueueInv, NEW f \in Feed, FeedStep(f)
  PROVE  QueueInv'
<1>1. CASE FeedEvent(f) \/ Drop(f) \/ ReportOverflow(f)
  BY <1>1, QueueKept DEF FeedEvent, Drop, ReportOverflow, shared
<1>2. CASE Put(f)
  <2>1. /\ queue \in Seq(Nat) /\ entered \in Nat /\ last \in 0..entered
        /\ \A i \in DOMAIN queue : queue[i] \in 1..entered
        /\ \A c \in Consumer : consumer[c].event \in 0..entered
    BY DEF TypeInv, TypeOK
  <2>2. /\ queue' = Append(queue, entered + 1) /\ last' = last /\ consumer' = consumer
        /\ \A i \in DOMAIN queue' :
             \/ i \in DOMAIN queue /\ queue'[i] = queue[i]
             \/ i = Len(queue) + 1 /\ queue'[i] = entered + 1
        /\ DOMAIN queue = 1..Len(queue) /\ Len(queue) \in Nat
    BY <1>2, <2>1, AppendToSeq DEF Put
  <2>3. Increasing'
    <3> SUFFICES ASSUME NEW i \in DOMAIN queue', NEW j \in DOMAIN queue', i < j
                 PROVE  queue'[i] < queue'[j]
      BY DEF Increasing
    <3>1. i \in DOMAIN queue /\ queue'[i] = queue[i]
      BY <2>2
    <3>2. CASE j \in DOMAIN queue /\ queue'[j] = queue[j]
      BY <3>1, <3>2 DEF QueueInv, Increasing
    <3>3. CASE queue'[j] = entered + 1
      BY <3>1, <3>3, <2>1
    <3> QED
      BY <3>2, <3>3, <2>2
  <2>4. LastBeforeQueue'
    BY <2>1, <2>2 DEF QueueInv, LastBeforeQueue
  <2>5. HeldBeforeQueue'
    BY <2>1, <2>2 DEF QueueInv, HeldBeforeQueue
  <2>6. HeldApart'
    BY <2>2 DEF QueueInv, HeldApart
  <2> QED
    BY <2>3, <2>4, <2>5, <2>6 DEF QueueInv
<1> QED
  BY <1>1, <1>2 DEF FeedStep

LEMMA ConsumerQueue ==
  ASSUME TypeInv, QueueInv, NEW c \in Consumer, ConsumerStep(c)
  PROVE  QueueInv'
<1>1. CASE EnterLoop(c) \/ Leave(c) \/ FindOverflow(c) \/ DeliveryRaises(c) \/ EndCycle(c)
  BY <1>1, QueueKept DEF EnterLoop, Leave, FindOverflow, DeliveryRaises, EndCycle
<1>2. CASE SeeStop(c) \/ Poll(c) \/ PollTimesOut(c) \/ Shed(c) \/ Delivered(c)
  BY <1>2, QueueKept DEF SeeStop, Poll, PollTimesOut, Shed, Delivered, shared
<1>3. CASE Get(c)
  <2>1. /\ queue \in Seq(Nat) /\ queue # <<>> /\ queue' = Tail(queue) /\ last' = last
        /\ consumer' = [consumer EXCEPT ![c] = [at |-> "got", event |-> Head(queue)]]
    BY <1>3 DEF Get, TypeInv
  <2>2. /\ Head(queue) = queue[1] /\ 1 \in DOMAIN queue
        /\ \A i \in DOMAIN queue' :
             i + 1 \in DOMAIN queue /\ i \in Nat \ {0} /\ queue'[i] = queue[i + 1]
    BY <2>1, TailOfSeq
  <2>3. \A d \in Consumer :
          \/ d # c /\ consumer'[d] = consumer[d]
          \/ d = c /\ consumer'[d].at = "got" /\ consumer'[d].event = queue[1]
    BY <2>1, <2>2 DEF TypeInv, TypeOK
  <2>4. \A i \in DOMAIN queue' : queue[1] < queue'[i]
    <3> SUFFICES ASSUME NEW i \in DOMAIN queue' PROVE queue[1] < queue'[i]
      OBVIOUS
    <3>1. i + 1 \in DOMAIN queue /\ 1 < i + 1 /\ queue'[i] = queue[i + 1]
      BY <2>2
    <3> QED
      BY <3>1, <2>2 DEF QueueInv, Increasing
  <2>5. Increasing'
    <3> SUFFICES ASSUME NEW i \in DOMAIN queue', NEW j \in DOMAIN queue', i < j
                 PROVE  queue'[i] < queue'[j]
      BY DEF Increasing
    <3>1. i + 1 < j + 1 /\ i + 1 \in DOMAIN queue /\ j + 1 \in DOMAIN queue
      BY <2>2
    <3> QED
      BY <3>1, <2>2 DEF QueueInv, Increasing
  <2>6. LastBeforeQueue'
    BY <2>1, <2>2 DEF QueueInv, LastBeforeQueue
  <2>7. HeldBeforeQueue'
    <3> SUFFICES ASSUME NEW d \in Consumer, consumer'[d].event # 0
                 PROVE  /\ consumer'[d].at \in {"got", "in_runner", "in_cycle"}
                        /\ \A i \in DOMAIN queue' : consumer'[d].event < queue'[i]
      BY DEF HeldBeforeQueue
    <3>1. CASE d = c
      BY <3>1, <2>3, <2>4
    <3>2. CASE d # c
      BY <3>2, <2>2, <2>3 DEF QueueInv, HeldBeforeQueue
    <3> QED
      BY <3>1, <3>2
  <2>8. HeldApart'
    <3>1. \A d \in Consumer : consumer[d].event # 0 => consumer[d].event < queue[1]
      BY <2>2 DEF QueueInv, HeldBeforeQueue
    <3>2. queue[1] \in Nat /\ \A d \in Consumer : consumer[d].event \in Nat
      BY <2>1, <2>2 DEF TypeInv, TypeOK
    <3> SUFFICES ASSUME NEW d \in Consumer, NEW e \in Consumer, d # e, consumer'[d].event # 0
                 PROVE  consumer'[d].event # consumer'[e].event
      BY DEF HeldApart
    <3>3. CASE d = c
      BY <3>1, <3>2, <3>3, <2>3
    <3>4. CASE e = c
      BY <3>1, <3>2, <3>4, <2>3
    <3>5. CASE d # c /\ e # c
      BY <3>5, <2>3 DEF QueueInv, HeldApart
    <3> QED
      BY <3>3, <3>4, <3>5
  <2> QED
    BY <2>5, <2>6, <2>7, <2>8 DEF QueueInv
<1>4. CASE Deliver(c)
  <2>1. /\ queue' = queue /\ last' = consumer[c].event
        /\ consumer' = [consumer EXCEPT ![c].at = "in_runner"]
    BY <1>4 DEF Deliver
  <2>2. \A d \in Consumer :
          /\ consumer'[d].event = consumer[d].event
          /\ consumer'[d].at = consumer[d].at \/ consumer'[d].at = "in_runner"
    BY <2>1 DEF TypeInv, TypeOK
  <2>3. Increasing' /\ HeldBeforeQueue' /\ HeldApart'
    BY <2>1, <2>2 DEF QueueInv, Increasing, HeldBeforeQueue, HeldApart
  <2>4. LastBeforeQueue'
    <3>1. CASE consumer[c].event # 0
      BY <3>1, <2>1 DEF QueueInv, HeldBeforeQueue, LastBeforeQueue
    <3>2. CASE consumer[c].event = 0
      BY <3>2, <2>1 DEF TypeInv, TypeOK, LastBeforeQueue
    <3> QED
      BY <3>1, <3>2
  <2> QED
    BY <2>3, <2>4 DEF QueueInv
<1>5. CASE BeginCycle(c)
  <2>1. /\ UNCHANGED <<queue, last>>
        /\ \A d \in Consumer :
             /\ consumer'[d].event = consumer[d].event
             /\ consumer'[d].at = consumer[d].at \/ consumer'[d].at = "in_cycle"
    BY <1>5 DEF BeginCycle, shared, TypeInv, TypeOK
  <2> QED
    BY <2>1 DEF QueueInv, Increasing, LastBeforeQueue, HeldBeforeQueue, HeldApart
<1> QED
  BY <1>1, <1>2, <1>3, <1>4, <1>5 DEF ConsumerStep

LEMMA OpQueue ==
  ASSUME TypeInv, QueueInv, Started, OpStep \/ OpCall
  PROVE  QueueInv'
<1>1. CASE BeginStart \/ StartFails \/ StartRunner \/ EndStart \/ BeginStop \/ SignalConsumer
             \/ StopRunner \/ EndStop \/ ResetMode \/ BeginPause \/ BeginResume \/ TurnSession
  BY <1>1, QueueKept DEF BeginStart, StartFails, StartRunner, EndStart, BeginStop,
     SignalConsumer, StopRunner, EndStop, ResetMode, BeginPause, BeginResume, TurnSession
<1>2. CASE RestartStopped \/ Join \/ SeeSession
  BY <1>2, QueueKept DEF RestartStopped, Join, SeeSession, shared
<1>3. CASE SpawnConsumer
  <2>1. starts \in Consumer
    BY <1>3, ServiceAssumption DEF TypeInv, TypeOK, Started, SpawnConsumer, At, Consumer
  <2> QED
    BY <1>3, <2>1, QueueKept DEF SpawnConsumer
<1>4. CASE ClearQueue
  <2>1. queue' = <<>> /\ DOMAIN <<>> = {} /\ consumer' = consumer
    BY <1>4 DEF ClearQueue
  <2> QED
    BY <2>1 DEF QueueInv, Increasing, LastBeforeQueue, HeldBeforeQueue, HeldApart
<1> QED
  BY <1>1, <1>2, <1>3, <1>4 DEF OpStep, OpCall

-----------------------------------------------------------------------------
(* The mode during a call *)

LEMMA ModeKept ==
  ASSUME TypeInv, Started, ModeOfCall, UNCHANGED <<op, starts>>,
         mode' = mode \/ mode' = "FAILED"
  PROVE  Started' /\ ModeOfCall'
BY DEF Started, ModeOfCall

LEMMA OpMode ==
  ASSUME TypeInv, Started, ModeOfCall, OpStep \/ OpCall
  PROVE  Started' /\ ModeOfCall'
<1> USE DEF At, Started, ModeOfCall, OpPC
<1>1. CASE BeginStart
  <2>1. op'.at = "starting" /\ mode' = "STARTING" /\ starts' = starts + 1
    BY <1>1, OpMoves DEF BeginStart
  <2> QED
    BY <2>1 DEF TypeInv, TypeOK
<1>2. CASE StartFails \/ EndStart \/ TurnSession
  <2>1. op'.at = "idle" /\ starts' = starts
    BY <1>2, OpMoves DEF StartFails, EndStart, TurnSession
  <2>2. mode' \in {"PAUSED", "RUNNING", "FAILED"}
    BY <1>2 DEF StartFails, EndStart, TurnSession
  <2> QED
    BY <2>1, <2>2
<1>3. CASE StartRunner \/ SpawnConsumer
  <2>1. /\ op'.at \in {"spawning", "started"} /\ starts' = starts /\ mode' = mode /\ starts # 0
        /\ mode \in {"STARTING", "FAILED"}
    BY <1>3, OpMoves DEF StartRunner, SpawnConsumer
  <2> QED
    BY <2>1
<1>4. CASE BeginStop \/ SignalConsumer \/ Join \/ StopRunner
  <2>1. /\ op'.at \in {"signal", "joining", "stopping", "ending"} /\ starts' = starts
        /\ mode' \in {"STOPPING", "FAILED"}
    BY <1>4, OpMoves DEF BeginStop, SignalConsumer, Join, StopRunner, shared
  <2> QED
    BY <2>1
<1>5. CASE RestartStopped \/ EndStop \/ ClearQueue
  <2>1. /\ op'.at \in {"clearing", "resetting", "idle"} /\ starts' = starts
        /\ mode' = "STOPPED" \/ (op'.at = "resetting" /\ mode' \in {"STOPPED", "FAILED"})
    BY <1>5, OpMoves DEF RestartStopped, EndStop, ClearQueue, shared
  <2> QED
    BY <2>1
<1>6. CASE ResetMode
  <2>1. op'.at = "restarting" /\ mode' = "CREATED" /\ starts' = starts
    BY <1>6, OpMoves DEF ResetMode
  <2> QED
    BY <2>1
<1>7. CASE BeginPause \/ BeginResume
  <2>1. /\ starts' = starts
        /\ \/ op'.at = "pausing" /\ mode' = "PAUSED"
           \/ op'.at = "resuming" /\ mode' = "RUNNING"
    BY <1>7, OpMoves DEF BeginPause, BeginResume
  <2> QED
    BY <2>1
<1>8. CASE SeeSession
  <2>1. /\ starts' = starts /\ mode' = mode /\ mode \in {"PAUSED", "RUNNING", "FAILED"}
        /\ \/ op.at = "pausing" /\ op'.at \in {"holding", "idle"}
           \/ op.at = "resuming" /\ op'.at \in {"releasing", "idle"}
    BY <1>8, OpMoves DEF SeeSession, shared
  <2> QED
    BY <2>1
<1> QED
  BY <1>1, <1>2, <1>3, <1>4, <1>5, <1>6, <1>7, <1>8 DEF OpStep, OpCall

-----------------------------------------------------------------------------
(* The threads of an orderly service *)

\* A failure reported by a feed, or a consumer that leaves and reports one, and a
\* consumer that moves from one place of its loop to another, change nothing else
\* that the operator relies on.
LEMMA OrderlyKept ==
  ASSUME TypeInv, OrderlyInv,
         UNCHANGED <<orderly, alive, handle, running, last, op>>,
         mode' = mode \/ mode' = "FAILED",
         session' \in {session} \cup SelfEnded,
         consumer' = consumer
           \/ \E c \in Consumer, where \in {"loop", "polling", "leaving"} :
                /\ consumer[c].at \notin {"unborn", "spawned", "gone"}
                /\ Goes(c, where)
  PROVE  OrderlyInv'
<1> SUFFICES ASSUME orderly, OnlyHandle, Quiet, NotRunning, SessionOfMode, AliveWhileLooping,
                    GotIsNewer
             PROVE  /\ OnlyHandle' /\ Quiet' /\ NotRunning'
                    /\ SessionOfMode' /\ AliveWhileLooping' /\ GotIsNewer'
  BY DEF OrderlyInv
<1>1. \A d \in Consumer :
        \/ consumer'[d] = consumer[d]
        \/ /\ consumer[d].at \notin {"unborn", "spawned", "gone"}
           /\ consumer'[d].at \in {"loop", "polling", "leaving"}
  BY DEF Goes, TypeInv, TypeOK
<1>2. OnlyHandle' /\ Quiet' /\ AliveWhileLooping' /\ GotIsNewer'
  BY <1>1 DEF OnlyHandle, Quiet, AliveWhileLooping, GotIsNewer
<1>3. NotRunning' /\ SessionOfMode'
  BY DEF NotRunning, SessionOfMode
<1> QED
  BY <1>2, <1>3

LEMMA FeedOrderly ==
  ASSUME TypeInv, OrderlyInv, NEW f \in Feed, FeedStep(f)
  PROVE  OrderlyInv'
BY OrderlyKept DEF FeedStep, FeedEvent, Put, Drop, ReportOverflow, shared

LEMMA ConsumerOrderly ==
  ASSUME TypeInv, QueueInv, OrderlyInv, NEW c \in Consumer, ConsumerStep(c)
  PROVE  OrderlyInv'
<1>1. CASE FindOverflow(c) \/ DeliveryRaises(c) \/ EndCycle(c)
  BY <1>1, OrderlyKept DEF FindOverflow, DeliveryRaises, EndCycle
<1>2. CASE SeeStop(c) \/ Poll(c) \/ PollTimesOut(c) \/ Shed(c) \/ Delivered(c)
  BY <1>2, OrderlyKept DEF SeeStop, Poll, PollTimesOut, Shed, Delivered, shared
<1>3. CASE EnterLoop(c) \/ Leave(c) \/ Get(c) \/ Deliver(c) \/ BeginCycle(c)
  <2> SUFFICES ASSUME orderly, OnlyHandle, Quiet, NotRunning, SessionOfMode,
                      AliveWhileLooping, GotIsNewer
               PROVE  /\ OnlyHandle' /\ Quiet' /\ NotRunning'
                      /\ SessionOfMode' /\ AliveWhileLooping' /\ GotIsNewer'
    BY <1>3 DEF OrderlyInv, EnterLoop, Leave, Get, Deliver, BeginCycle, shared
  <2>1. /\ UNCHANGED <<mode, handle, running, session, op>>
        /\ consumer[c].at \notin {"unborn", "gone"}
    BY <1>3 DEF EnterLoop, Leave, Get, Deliver, BeginCycle, shared
  <2>2. \A d \in Consumer : d # c => /\ consumer'[d] = consumer[d]
                                     /\ consumer[d].at \in {"unborn", "gone"}
    BY <1>3, <2>1 DEF EnterLoop, Leave, Get, Deliver, BeginCycle, shared, Goes, TypeInv, TypeOK,
       OnlyHandle
  <2>3. OnlyHandle' /\ Quiet'
    BY <2>1, <2>2 DEF OnlyHandle, Quiet
  <2>4. NotRunning' /\ SessionOfMode'
    BY <2>1 DEF NotRunning, SessionOfMode
  <2>5. AliveWhileLooping' /\ GotIsNewer'
    <3>1. CASE EnterLoop(c)
      <4>1. alive' = TRUE /\ consumer'[c].at = "loop"
        BY <3>1 DEF EnterLoop, Goes, TypeInv, TypeOK
      <4> QED
        BY <4>1, <2>2 DEF AliveWhileLooping, GotIsNewer
    <3>2. CASE Leave(c)
      <4>1. consumer'[c].at = "gone"
        BY <3>2 DEF Leave, Goes, TypeInv, TypeOK
      <4> QED
        BY <4>1, <2>2 DEF AliveWhileLooping, GotIsNewer
    <3>3. CASE Get(c)
      <4>1. /\ queue \in Seq(Nat) /\ queue # <<>> /\ last' = last /\ alive' = alive
            /\ consumer[c].at = "polling"
            /\ consumer'[c].at = "got" /\ consumer'[c].event = Head(queue)
        BY <3>3 DEF Get, TypeInv, TypeOK
      <4>2. last < Head(queue)
        BY <4>1, TailOfSeq DEF QueueInv, LastBeforeQueue
      <4> QED
        BY <4>1, <4>2, <2>2 DEF AliveWhileLooping, GotIsNewer
    <3>4. CASE Deliver(c)
      <4>1. /\ consumer[c].at = "got" /\ alive' = alive /\ consumer'[c].at = "in_runner"
        BY <3>4 DEF Deliver, TypeInv, TypeOK
      <4> QED
        BY <4>1, <2>2 DEF AliveWhileLooping, GotIsNewer
    <3>5. CASE BeginCycle(c)
      <4>1. /\ consumer[c].at = "in_runner" /\ UNCHANGED <<alive, last>>
            /\ consumer'[c].at = "in_cycle"
        BY <3>5 DEF BeginCycle, shared, TypeInv, TypeOK
      <4> QED
        BY <4>1, <2>2 DEF AliveWhileLooping, GotIsNewer
    <3> QED
      BY <1>3, <3>1, <3>2, <3>3, <3>4, <3>5
  <2> QED
    BY <2>3, <2>4, <2>5
<1> QED
  BY <1>1, <1>2, <1>3 DEF ConsumerStep

LEMMA OpOrderly ==
  ASSUME TypeInv, Started, ModeOfCall, OrderlyInv, OpStep \/ OpCall
  PROVE  OrderlyInv'
<1> SUFFICES ASSUME orderly, OnlyHandle, Quiet, NotRunning, SessionOfMode,
                    AliveWhileLooping, GotIsNewer
             PROVE  OrderlyInv'
  BY DEF OrderlyInv, OpStep, OpCall, BeginStart, StartFails, StartRunner, SpawnConsumer, EndStart,
     BeginStop, RestartStopped, SignalConsumer, Join, StopRunner, EndStop, ClearQueue,
     ResetMode, BeginPause, BeginResume, SeeSession, TurnSession
<1> USE DEF At, OpPC
<1>1. CASE SpawnConsumer
  <2>1. /\ op.at = "spawning" /\ op'.at = "started" /\ starts \in Consumer /\ handle' = starts
        /\ UNCHANGED <<mode, alive, running, session, last>>
    BY <1>1, OpMoves, ServiceAssumption
       DEF TypeInv, TypeOK, Started, SpawnConsumer, Consumer
  <2>2. mode \in {"STARTING", "FAILED"}
    BY <2>1 DEF ModeOfCall
  <2>3. \A c \in Consumer :
          /\ consumer[c].at \in {"unborn", "gone"}
          /\ consumer'[c] = consumer[c] \/ (c = starts /\ consumer'[c].at = "spawned")
    <3>1. \A c \in Consumer : consumer[c].at \in {"unborn", "gone"}
      BY <2>1 DEF Quiet
    <3>2. consumer' = [consumer EXCEPT ![starts] = [at |-> "spawned", event |-> 0]]
      BY <1>1 DEF SpawnConsumer, Goes
    <3>3. consumer \in [Consumer -> ThreadType(entered)]
      BY DEF TypeInv, TypeOK, ThreadType
    <3>4. /\ \A c \in Consumer : c # starts => consumer'[c] = consumer[c]
          /\ consumer'[starts].at = "spawned"
      BY <3>2, <3>3, <2>1
    <3> QED
      BY <3>1, <3>4
  <2> QED
    BY <2>1, <2>2, <2>3 DEF OrderlyInv, OnlyHandle, Quiet, NotRunning, SessionOfMode,
       AliveWhileLooping, GotIsNewer
<1>2. CASE ~SpawnConsumer
  <2>1. UNCHANGED <<consumer, handle, last>>
    BY <1>2 DEF OpStep, OpCall, BeginStart, StartFails, StartRunner, EndStart,
       BeginStop, RestartStopped, SignalConsumer, Join, StopRunner, EndStop, ClearQueue,
       ResetMode, BeginPause, BeginResume, SeeSession, TurnSession, shared
  <2>2. OnlyHandle' /\ GotIsNewer'
    BY <2>1 DEF OnlyHandle, GotIsNewer
  <2>3. Quiet' /\ NotRunning' /\ SessionOfMode' /\ AliveWhileLooping'
    <3>1. CASE BeginStart
      <4>1. /\ op'.at = "starting" /\ mode' = "STARTING" /\ alive' = alive /\ running' = running
            /\ mode \in {"CREATED", "STOPPED"} \/ op.at = "restarting"
        BY <1>2, <3>1, OpMoves DEF BeginStart
      <4> QED
        BY <4>1, <2>1 DEF Quiet, NotRunning, SessionOfMode, AliveWhileLooping
    <3>2. CASE StartFails
      <4>1. op'.at = "idle" /\ mode' = "FAILED" /\ alive' = alive
        BY <3>2, OpMoves DEF StartFails
      <4> QED
        BY <4>1, <2>1 DEF Quiet, NotRunning, SessionOfMode, AliveWhileLooping
    <3>3. CASE StartRunner
      <4>1. /\ op.at = "starting" /\ op'.at = "spawning" /\ mode' = mode /\ alive' = alive
            /\ mode \in {"STARTING", "FAILED"}
        BY <3>3, OpMoves DEF StartRunner, ModeOfCall
      <4>2. ~running
        BY <4>1 DEF NotRunning
      <4>3. session' \in {"RUNNING", "BLOCKED"} \cup SelfEnded
        BY <3>3, <4>2 DEF StartRunner
      <4> QED
        BY <4>1, <4>3, <2>1 DEF Quiet, NotRunning, SessionOfMode, AliveWhileLooping
    <3>4. CASE EndStart
      <4>1. /\ op.at = "started" /\ op'.at = "idle" /\ mode' = "RUNNING"
            /\ alive' = alive /\ session' = session
        BY <3>4, OpMoves DEF EndStart
      <4> QED
        BY <4>1, <2>1 DEF Quiet, NotRunning, SessionOfMode, AliveWhileLooping
    <3>5. CASE BeginStop \/ SignalConsumer
      <4>1. /\ op'.at \in {"signal", "joining"} /\ mode' \in {"STOPPING", "FAILED"}
            /\ alive' = alive
        BY <3>5, OpMoves DEF BeginStop, SignalConsumer, ModeOfCall
      <4> QED
        BY <4>1, <2>1 DEF Quiet, NotRunning, SessionOfMode, AliveWhileLooping
    <3>6. CASE Join
      <4>1. /\ op'.at = "stopping" /\ mode' \in {"STOPPING", "FAILED"} /\ alive' = alive
            /\ handle \notin Live
        BY <3>6, OpMoves DEF Join, ModeOfCall, shared
      <4>2. \A c \in Consumer : consumer[c].at \in {"unborn", "gone"}
        BY <4>1 DEF OnlyHandle, Live
      <4> QED
        BY <4>1, <4>2, <2>1 DEF Quiet, NotRunning, SessionOfMode, AliveWhileLooping
    <3>7. CASE StopRunner
      <4>1. /\ op.at = "stopping" /\ op'.at = "ending" /\ mode' \in {"STOPPING", "FAILED"}
            /\ alive' = alive /\ running' = FALSE
        BY <3>7, OpMoves DEF StopRunner, ModeOfCall
      <4> QED
        BY <4>1, <2>1 DEF Quiet, NotRunning, SessionOfMode, AliveWhileLooping
    <3>8. CASE EndStop
      <4>1. /\ op.at = "ending" /\ op'.at \in {"clearing", "idle"} /\ mode' = "STOPPED"
            /\ running' = running
        BY <3>8, OpMoves DEF EndStop
      <4> QED
        BY <4>1, <2>1 DEF Quiet, NotRunning, SessionOfMode, AliveWhileLooping
    <3>9. CASE RestartStopped \/ ClearQueue \/ ResetMode
      <4>1. /\ op.at \in {"clearing", "resetting"} \/ mode = "STOPPED"
            /\ op'.at \in {"clearing", "resetting", "restarting"}
            /\ running' = running /\ alive' = alive
        BY <3>9, OpMoves DEF RestartStopped, ClearQueue, ResetMode, shared
      <4> QED
        BY <4>1, <2>1 DEF Quiet, NotRunning, SessionOfMode, AliveWhileLooping
    <3>10. CASE BeginPause \/ BeginResume
      <4>1. /\ op.at = "idle" /\ alive' = alive /\ session' = session
            /\ \/ mode = "RUNNING" /\ op'.at = "pausing" /\ mode' = "PAUSED"
               \/ mode = "PAUSED" /\ op'.at = "resuming" /\ mode' = "RUNNING"
        BY <3>10, OpMoves DEF BeginPause, BeginResume
      <4> QED
        BY <4>1, <2>1 DEF Quiet, NotRunning, SessionOfMode, AliveWhileLooping
    <3>11. CASE SeeSession
      <4>1. /\ UNCHANGED <<mode, session, alive>>
            /\ \/ /\ op.at = "pausing"
                  /\ op'.at = "holding" \/ (op'.at = "idle" /\ session # "RUNNING")
               \/ /\ op.at = "resuming"
                  /\ op'.at = "releasing" \/ (op'.at = "idle" /\ session # "PAUSED")
        BY <3>11, OpMoves DEF SeeSession, shared
      <4>2. /\ op.at = "pausing" => mode \in {"PAUSED", "FAILED"}
            /\ op.at = "resuming" => mode \in {"RUNNING", "FAILED"}
        BY DEF ModeOfCall
      <4> QED
        BY <4>1, <4>2, <2>1 DEF Quiet, NotRunning, SessionOfMode, AliveWhileLooping
    <3>12. CASE TurnSession
      <4>1. /\ op'.at = "idle" /\ UNCHANGED <<mode, alive>>
            /\ \/ mode \in {"PAUSED", "FAILED"} /\ session' = "PAUSED"
               \/ mode \in {"RUNNING", "FAILED"} /\ session' = "RUNNING"
        BY <3>12, OpMoves DEF TurnSession, ModeOfCall
      <4> QED
        BY <4>1, <2>1 DEF Quiet, NotRunning, SessionOfMode, AliveWhileLooping
    <3> QED
      BY <1>2, <3>1, <3>2, <3>3, <3>4, <3>5, <3>6, <3>7, <3>8, <3>9, <3>10, <3>11, <3>12
         DEF OpStep, OpCall
  <2> QED
    BY <2>2, <2>3 DEF OrderlyInv
<1> QED
  BY <1>1, <1>2

-----------------------------------------------------------------------------
(* The theorems *)

LEMMA StutterIInv == IInv /\ UNCHANGED vars => IInv'
BY DEF IInv, TypeInv, TypeOK, QueueInv, Increasing, LastBeforeQueue, HeldBeforeQueue, HeldApart,
   Started, ModeOfCall, OrderlyInv, OnlyHandle, Quiet, NotRunning, SessionOfMode,
   AliveWhileLooping, GotIsNewer, vars, shared

LEMMA NextIInv == IInv /\ [Next]_vars => IInv'
<1> SUFFICES ASSUME IInv, [Next]_vars PROVE IInv'
  OBVIOUS
<1> USE DEF IInv
<1>1. CASE \E f \in Feed : FeedStep(f)
  <2> PICK f \in Feed : FeedStep(f)
    BY <1>1
  <2>1. UNCHANGED <<op, starts>> /\ (mode' = mode \/ mode' = "FAILED")
    BY DEF FeedStep, FeedEvent, Put, Drop, ReportOverflow, shared
  <2> QED
    BY <2>1, FeedTypes, FeedQueue, ModeKept, FeedOrderly
<1>2. CASE \E c \in Consumer : ConsumerStep(c)
  <2> PICK c \in Consumer : ConsumerStep(c)
    BY <1>2
  <2>1. UNCHANGED <<op, starts>> /\ (mode' = mode \/ mode' = "FAILED")
    BY DEF ConsumerStep, EnterLoop, SeeStop, Poll, PollTimesOut, Get, FindOverflow, Shed,
       Deliver, Delivered, BeginCycle, EndCycle, DeliveryRaises, Leave, shared
  <2> QED
    BY <2>1, ConsumerTypes, ConsumerQueue, ModeKept, ConsumerOrderly
<1>3. CASE OpStep \/ OpCall
  BY <1>3, OpTypes, OpQueue, OpMode, OpOrderly
<1>4. CASE UNCHANGED vars
  BY <1>4, StutterIInv
<1> QED
  BY <1>1, <1>2, <1>3, <1>4 DEF Next

\* The inductive invariant, for any number of feeds, starts and events and any size
\* of the queue.
THEOREM ServiceInvariant == Spec => []IInv
BY InitIInv, NextIInv, PTL DEF Spec

\* Types of the service's variables.
THEOREM ServiceTypes == Spec => []TypeOK
<1>1. IInv => TypeOK
  BY DEF IInv, TypeInv
<1> QED
  BY <1>1, ServiceInvariant, PTL

\* However many threads a service has, orderly or not, an event is in the hands of
\* one of them at most, and no longer in the queue.
THEOREM EventsAreHeldOnce == Spec => []EventHeldOnce
<1>1. IInv => EventHeldOnce
  <2> SUFFICES ASSUME IInv, NEW c \in Live, NEW d \in Live, consumer[c].event # 0
               PROVE  /\ c # d => consumer[c].event # consumer[d].event
                      /\ \A i \in DOMAIN queue : queue[i] # consumer[c].event
    BY DEF EventHeldOnce
  <2>1. c \in Consumer /\ d \in Consumer
    BY DEF Live
  <2>2. \A i \in DOMAIN queue : consumer[c].event < queue[i]
    BY <2>1 DEF IInv, QueueInv, HeldBeforeQueue
  <2>3. consumer[c].event \in Nat /\ \A i \in DOMAIN queue : queue[i] \in Nat
    BY <2>1 DEF IInv, TypeInv, TypeOK
  <2> QED
    BY <2>1, <2>2, <2>3 DEF IInv, QueueInv, HeldApart
<1> QED
  BY <1>1, ServiceInvariant, PTL

\* The runner is given the events in the order in which they entered the queue, each
\* one once: what it is given next is newer than what it had, and has left the queue.
THEOREM EventsReachRunnerInOrder == Spec => EventsInOrder
<1>1. IInv /\ [Next]_vars =>
        [orderly /\ last' # last =>
           last' > last /\ \A i \in DOMAIN queue : last' # queue[i]]_vars
  <2> SUFFICES ASSUME IInv, Next, orderly, last' # last
               PROVE  last' > last /\ \A i \in DOMAIN queue : last' # queue[i]
    OBVIOUS
  <2>1. PICK c \in Consumer : Deliver(c)
    BY DEF Next, FeedStep, FeedEvent, Put, Drop, ReportOverflow, ConsumerStep, EnterLoop, SeeStop,
       Poll, PollTimesOut, Get, FindOverflow, Shed, Delivered, BeginCycle, EndCycle,
       DeliveryRaises, Leave,
       OpStep, OpCall, BeginStart, StartFails, StartRunner, SpawnConsumer, EndStart,
       BeginStop, RestartStopped, SignalConsumer, Join, StopRunner, EndStop, ClearQueue,
       ResetMode, BeginPause, BeginResume, SeeSession, TurnSession, shared
  <2>2. last' = consumer[c].event /\ consumer[c].at = "got"
    BY <2>1 DEF Deliver
  <2>3. last < consumer[c].event
    BY <2>2 DEF IInv, OrderlyInv, GotIsNewer
  <2>4. last \in Nat /\ consumer[c].event \in Nat /\ \A i \in DOMAIN queue : queue[i] \in Nat
    BY DEF IInv, TypeInv, TypeOK
  <2>5. \A i \in DOMAIN queue : consumer[c].event < queue[i]
    BY <2>3, <2>4 DEF IInv, QueueInv, HeldBeforeQueue
  <2> QED
    BY <2>2, <2>3, <2>4, <2>5
<1> QED
  BY <1>1, ServiceInvariant, PTL DEF Spec, EventsInOrder

\* In an orderly service no two calls of runner.on_event are in progress together.
THEOREM OneThreadCallsRunner == Spec => []OneCallerIfOrderly
<1>1. IInv => OneCallerIfOrderly
  <2> SUFFICES ASSUME IInv, orderly PROVE Cardinality(InRunner) <= 1
    BY DEF OneCallerIfOrderly, OneCallerOfRunner
  <2>1. InRunner \subseteq {handle}
    BY DEF InRunner, IInv, OrderlyInv, OnlyHandle
  <2>2. IsFiniteSet({handle}) /\ Cardinality({handle}) = 1
    BY FS_Singleton
  <2>3. IsFiniteSet(InRunner) /\ Cardinality(InRunner) <= Cardinality({handle})
    BY <2>1, <2>2, FS_Subset
  <2> QED
    BY <2>2, <2>3
<1> QED
  BY <1>1, ServiceInvariant, PTL

\* When an orderly stop() has returned, no thread of the service is left.
THEOREM StopLeavesNoThread == Spec => []StoppedIsQuiet
<1>1. IInv => StoppedIsQuiet
  BY DEF IInv, OrderlyInv, Quiet, StoppedIsQuiet, Live
<1> QED
  BY <1>1, ServiceInvariant, PTL

\* Between the operator's calls, an orderly service that is RUNNING or PAUSED has a
\* session in that mode, or one its recovery blocked or that ended by itself: no pause,
\* resume, stop, restart or failed start leaves the two apart, although pause() and
\* resume() read and write the session's mode without a lock.
THEOREM SessionFollowsItsService == Spec => []SessionFollowsService
<1>1. IInv => SessionFollowsService
  BY DEF IInv, OrderlyInv, SessionOfMode, SessionFollowsService, At
<1> QED
  BY <1>1, ServiceInvariant, PTL

\* status() reports the consumer of an orderly service as alive while it lives: the
\* flag an earlier thread clears when it leaves is never cleared under the newest.
THEOREM LiveConsumerIsReported == Spec => []AliveIsReported
<1>1. IInv => AliveIsReported
  BY DEF IInv, OrderlyInv, AliveWhileLooping, AliveIsReported, Live
<1> QED
  BY <1>1, ServiceInvariant, PTL

=============================================================================
