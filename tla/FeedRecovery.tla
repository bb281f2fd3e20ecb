---------------------------- MODULE FeedRecovery ----------------------------
(***************************************************************************)
(* One supervised market-data feed: the supervision thread                 *)
(* (crypto_core/data/ingestion/data_ingestor.py, start_feed_managed) runs  *)
(* the connection in a thread of its own and joins it; when it ends, the   *)
(* recovery manager (data/recovery/recovery_manager.py) reconnects and     *)
(* fetches a snapshot; an operator may stop the feed from another thread;  *)
(* the order book (data/processing/book_manager.py, runtime/assembler.py)  *)
(* takes what reaches it.                                                  *)
(*                                                                         *)
(* An update of the exchange is its sequence number, the book the set of   *)
(* the updates in it; a Binance delta, a range of numbers, is one update,  *)
(* and its snapshots end where a range does.  A step is one access to the  *)
(* state the threads share.                                                *)
(***************************************************************************)
EXTENDS Naturals, Sequences, FiniteSets

CONSTANTS
  MaxUpdate,    \* bound: the exchange's sequence numbers
  MaxAttempts   \* attempts that fit into _MAX_RECOVERY_SECONDS with the backoff

ASSUME FeedAssumption == MaxUpdate \in Nat /\ MaxAttempts \in Nat \ {0}

Connection == {"disconnected", "connecting", "connected", "reconnecting", "failed"}
Recovery == {"idle", "snapshotting", "replaying", "validating", "ready", "failed"}

VARIABLES
  conn, rec,    \* FeedState.connection_state, recovery_state
  shut,         \* the shutdown event
  sup,          \* supervision thread: what it does next
  attempts,     \* failed attempts of the current recovery
  fetched,      \* sequence number of the snapshot in hand
  ws,           \* "new": not connected yet; "up"; "down": connect() has returned
  wire,         \* messages sent to the client and not yet received
  op,           \* the operator's call
  book,         \* has_snapshot, last_update_id, and the updates in the levels
  published,    \* exchange: the sequence numbers of this symbol so far
  newest,       \* exchange: the last of them
  greets,       \* exchange: sends a snapshot on subscription, and has gaps in its
                \* numbers (Bybit), or neither (Binance)
  well          \* environment: from now on nothing fails and nobody stops the feed

feedState == <<conn, rec>>
threads == <<shut, sup, attempts, fetched, ws, op>>
exchange == <<published, newest, greets, well>>
vars == <<feedState, threads, exchange, wire, book>>

UpTo(n) == {u \in published : u <= n}

Msg == [kind : {"snapshot", "delta"}, id : 0..MaxUpdate]

Init ==
  /\ conn = "disconnected" /\ rec = "idle"
  /\ shut = FALSE /\ sup = "check" /\ attempts = 0 /\ fetched = 0
  /\ ws = "down" /\ wire = <<>>
  /\ op = "idle"
  /\ book = [has |-> FALSE, last |-> 0, content |-> {}]
  /\ published = {} /\ newest = 0 /\ greets \in BOOLEAN /\ well = FALSE

-----------------------------------------------------------------------------
(* The book.  An event it rejects is logged and the assembler goes on.  BOOK_CROSSED
   and BOOK_CRC_MISMATCH are raised when the event is in the book already: the levels
   and last_update_id change as if it had been accepted. *)

\* Mutant of ApplySnapshot: only the first one is taken.
ApplyFirstSnapshot(u) ==
  IF book.has THEN book ELSE [has |-> TRUE, last |-> u, content |-> UpTo(u)]

ApplySnapshot(u) == [has |-> TRUE, last |-> u, content |-> UpTo(u)]

\* Mutant of ApplyDelta: a gap in the numbers is not looked for.
ApplyAnyDelta(u) ==
  IF book.has /\ u > book.last
  THEN [book EXCEPT !.last = u, !.content = @ \cup {u}]
  ELSE book

\* _apply_delta: BOOK_NO_SNAPSHOT and SEQ_GAP are raised before anything changes.
ApplyDelta(u) ==
  IF book.has /\ u = book.last + 1
  THEN [book EXCEPT !.last = u, !.content = @ \cup {u}]
  ELSE book

-----------------------------------------------------------------------------
(* The supervision thread *)

CheckShutdown ==
  /\ sup = "check"
  /\ sup' = IF shut THEN "done" ELSE "arm"
  /\ UNCHANGED <<feedState, shut, attempts, fetched, ws, op, exchange, wire, book>>

\* The feed is READY from here on, whatever the recovery came to.
Arm ==
  /\ sup = "arm"
  /\ conn' = "connected" /\ rec' = "ready"
  /\ ws' = "new" /\ sup' = "join"
  /\ UNCHANGED <<shut, attempts, fetched, op, exchange, wire, book>>

\* Mutant of Joined: the thread is not waited for.
JoinedAtOnce ==
  /\ sup = "join" /\ ws # "new"
  /\ sup' = IF shut \/ conn \in {"failed", "disconnected"} \/ rec = "failed"
            THEN "done" ELSE "lost"
  /\ UNCHANGED <<feedState, shut, attempts, fetched, ws, op, exchange, wire, book>>

\* The connection thread has ended: a stop or a lost connection.
Joined ==
  /\ sup = "join" /\ ws = "down"
  /\ sup' = IF shut \/ conn \in {"failed", "disconnected"} \/ rec = "failed"
            THEN "done" ELSE "lost"
  /\ UNCHANGED <<feedState, shut, attempts, fetched, ws, op, exchange, wire, book>>

OnDisconnect ==
  /\ sup = "lost"
  /\ conn' = "reconnecting" /\ rec' = "idle"
  /\ attempts' = 0 /\ sup' = "retry"
  /\ UNCHANGED <<shut, fetched, ws, op, exchange, wire, book>>

\* The time is up: not before one attempt.
Exhausted ==
  /\ sup = "retry" /\ attempts > 0
  /\ well => attempts = MaxAttempts
  /\ conn' = "failed" /\ rec' = "failed"
  /\ sup' = "check"
  /\ UNCHANGED <<shut, attempts, fetched, ws, op, exchange, wire, book>>

\* Mutant of Attempt: no end to the attempts.
AttemptForEver ==
  /\ sup = "retry"
  /\ conn' = "connecting" /\ sup' = "reconnect"
  /\ UNCHANGED <<rec, shut, attempts, fetched, ws, op, exchange, wire, book>>

\* An attempt, after its backoff.
Attempt ==
  /\ sup = "retry" /\ attempts < MaxAttempts
  /\ conn' = "connecting" /\ sup' = "reconnect"
  /\ UNCHANGED <<rec, shut, attempts, fetched, ws, op, exchange, wire, book>>

\* on_connect makes a new client, which the next round of supervision will connect.
Reconnected ==
  /\ sup = "reconnect"
  /\ conn' = "connected" /\ rec' = "snapshotting" /\ sup' = "fetch"
  /\ UNCHANGED <<shut, attempts, fetched, ws, op, exchange, wire, book>>

\* on_connect or the snapshot request raises.
AttemptFails ==
  /\ sup \in {"reconnect", "fetch"} /\ ~well
  /\ attempts' = attempts + 1 /\ sup' = "retry"
  /\ UNCHANGED <<feedState, shut, fetched, ws, op, exchange, wire, book>>

\* The client is not connected yet, so the delta buffer is empty when it is drained.
Fetch ==
  /\ sup = "fetch"
  /\ fetched' = newest /\ sup' = "emit"
  /\ UNCHANGED <<feedState, shut, attempts, ws, op, exchange, wire, book>>

\* on_event(snapshot), on_snapshot_received.
EmitSnapshot ==
  /\ sup = "emit"
  /\ book' = ApplySnapshot(fetched)
  /\ rec' = "replaying" /\ sup' = "validate"
  /\ UNCHANGED <<conn, shut, attempts, fetched, ws, op, exchange, wire>>

\* on_stream_caught_up, on_validation_passed: nothing is validated.
CaughtUp ==
  /\ sup = "validate" /\ rec = "replaying"
  /\ rec' = "validating"
  /\ UNCHANGED <<conn, threads, exchange, wire, book>>

Validated ==
  /\ sup = "validate" /\ rec = "validating"
  /\ rec' = "ready" /\ sup' = "check"
  /\ UNCHANGED <<conn, shut, attempts, fetched, ws, op, exchange, wire, book>>

-----------------------------------------------------------------------------
(* The connection thread and the exchange *)

ConnectSucceeds ==
  /\ ws = "new"
  /\ ws' = "up"
  /\ wire' = IF greets THEN <<[kind |-> "snapshot", id |-> newest]>> ELSE <<>>
  /\ UNCHANGED <<feedState, shut, sup, attempts, fetched, op, exchange, book>>

ConnectFails ==
  /\ ws = "new" /\ ~well
  /\ ws' = "down"
  /\ UNCHANGED <<feedState, shut, sup, attempts, fetched, op, exchange, wire, book>>

\* What is on the way when the connection drops is lost.
Drop ==
  /\ ws = "up" /\ ~well
  /\ ws' = "down" /\ wire' = <<>>
  /\ UNCHANGED <<feedState, shut, sup, attempts, fetched, op, exchange, book>>

\* on_raw_message: forwarded in IDLE and READY, dropped in the other states.
Receive ==
  /\ ws = "up" /\ wire # <<>>
  /\ wire' = Tail(wire)
  /\ book' = CASE rec \notin {"idle", "ready"} -> book
               [] rec \in {"idle", "ready"} /\ Head(wire).kind = "snapshot"
                    -> ApplySnapshot(Head(wire).id)
               [] OTHER -> ApplyDelta(Head(wire).id)
  /\ UNCHANGED <<feedState, threads, exchange>>

Publish(u) ==
  /\ u = newest + 1 \/ (greets /\ ~well /\ u = newest + 2)
  /\ published' = published \cup {u} /\ newest' = u
  /\ wire' = IF ws = "up" THEN Append(wire, [kind |-> "delta", id |-> u]) ELSE wire
  /\ UNCHANGED <<feedState, threads, greets, well, book>>

GetWell ==
  /\ ~well /\ op = "idle" /\ well' = TRUE
  /\ UNCHANGED <<feedState, threads, published, newest, greets, wire, book>>

-----------------------------------------------------------------------------
(* The operator: shutdown is the event and then stop_feed *)

Shutdown ==
  /\ op = "idle" /\ ~well
  /\ shut' = TRUE /\ op' = "mark"
  /\ UNCHANGED <<feedState, sup, attempts, fetched, ws, exchange, wire, book>>

StopFeed ==
  /\ op = "idle" /\ ~well
  /\ op' = "mark"
  /\ UNCHANGED <<feedState, shut, sup, attempts, fetched, ws, exchange, wire, book>>

MarkStopped ==
  /\ op = "mark"
  /\ conn' = "disconnected" /\ op' = "close"
  /\ UNCHANGED <<rec, shut, sup, attempts, fetched, ws, exchange, wire, book>>

\* Mutant of CloseClient: the client goes on.
CloseForgotten ==
  /\ op = "close"
  /\ op' = "idle"
  /\ UNCHANGED <<feedState, shut, sup, attempts, fetched, ws, exchange, wire, book>>

\* disconnect of a client that is not connected yet does nothing.
CloseClient ==
  /\ op = "close"
  /\ ws' = IF ws = "up" THEN "down" ELSE ws
  /\ wire' = IF ws = "up" THEN <<>> ELSE wire
  /\ op' = "idle"
  /\ UNCHANGED <<feedState, shut, sup, attempts, fetched, exchange, book>>

-----------------------------------------------------------------------------

Supervise ==
  \/ CheckShutdown \/ Arm \/ Joined \/ OnDisconnect
  \/ Exhausted \/ Attempt \/ Reconnected \/ AttemptFails
  \/ Fetch \/ EmitSnapshot \/ CaughtUp \/ Validated

Connect == ConnectSucceeds \/ ConnectFails

Operate == MarkStopped \/ CloseClient

Next ==
  \/ Supervise \/ Connect \/ Receive \/ Drop
  \/ Operate \/ Shutdown \/ StopFeed
  \/ \E u \in 1..MaxUpdate : Publish(u)
  \/ GetWell

Spec == Init /\ [][Next]_vars

\* Threads are scheduled, the attempts of a recovery fit into its time, a call of the
\* operator that has begun goes on, and what was sent over a connection arrives or the
\* connection drops.
FairSpec ==
  Spec /\ WF_vars(Supervise) /\ WF_vars(Connect) /\ WF_vars(Receive) /\ WF_vars(Operate)

-----------------------------------------------------------------------------
(* Properties *)

\* Type invariant.
FeedTypeOK ==
  /\ conn \in Connection /\ rec \in Recovery
  /\ shut \in BOOLEAN /\ attempts \in 0..MaxAttempts /\ fetched \in 0..MaxUpdate
  /\ sup \in {"check", "arm", "join", "lost", "retry", "reconnect", "fetch", "emit",
              "validate", "done"}
  /\ ws \in {"new", "up", "down"} /\ op \in {"idle", "mark", "close"}
  /\ wire \in Seq(Msg)
  /\ book \in [has : BOOLEAN, last : 0..MaxUpdate, content : SUBSET (1..MaxUpdate)]
  /\ published \in SUBSET (1..MaxUpdate) /\ newest \in 0..MaxUpdate
  /\ greets \in BOOLEAN /\ well \in BOOLEAN

\* The book is the exchange's book as of its last update, whatever was lost between
\* connections and while a snapshot was under way.
BookHasNoHole == book.has => book.content = UpTo(book.last)

\* Messages are received in READY only: the connection thread and the recovery never
\* overlap, which the delta buffer's lack of a lock relies on, so nothing is buffered.
UpMeansReady == ws = "up" => rec = "ready" /\ sup = "join"

\* Shutting down a connected feed ends its supervision.
ShutdownEnds == shut /\ ws = "up" /\ op = "mark" ~> sup = "done"

\* Once nothing fails, a supervised feed is connected and READY again, unless its
\* supervision ended or it is FAILED, as it may stay; and where the exchange greets with
\* a snapshot, the book has every update up to the next hole in the exchange's numbers
\* (_apply_delta takes none beyond one).
FeedComesBack ==
  well ~> \/ sup = "done" \/ rec = "failed"
          \/ /\ ws = "up" /\ rec = "ready"
             /\ greets => book.has /\ book.last + 1 \notin published

=============================================================================
