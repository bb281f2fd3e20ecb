------------------------- MODULE FeedRecoveryProofs -------------------------
(***************************************************************************)
(* The safety of a supervised feed, for any number of updates and of       *)
(* attempts: what a connection delivers is delivered in READY, and the     *)
(* book has no hole.                                                       *)
(***************************************************************************)
EXTENDS FeedRecovery, TLAPS

-----------------------------------------------------------------------------
(* The supervision thread waits for the connection thread, so the recovery and a
   connection never work on the state together. *)

\* A connection thread exists only while the supervision thread waits for it, and
\* that is after the feed was made READY.
Supervised ==
  /\ ws \in {"new", "up", "down"}
  /\ ws \in {"new", "up"} => sup = "join"
  /\ sup = "join" => rec = "ready"

\* Messages are received in READY only, whatever the operator, the exchange and the
\* failures of a recovery do.
THEOREM MessagesFindReady == Spec => []UpMeansReady
<1>1. Init => Supervised
  BY DEF Init, Supervised
<1>2. Supervised /\ [Next]_vars => Supervised'
  <2> SUFFICES ASSUME Supervised, [Next]_vars PROVE Supervised'
    OBVIOUS
  <2>1. CASE Supervise
    BY <2>1 DEF Supervised, Supervise, CheckShutdown, Arm, Joined, OnDisconnect, Exhausted,
       Attempt, Reconnected, AttemptFails, Fetch, EmitSnapshot, CaughtUp, Validated,
       feedState, threads
  <2>2. CASE Connect
    BY <2>2 DEF Supervised, Connect, ConnectSucceeds, ConnectFails, feedState
  <2>3. CASE Receive \/ Drop
    BY <2>3 DEF Supervised, Receive, Drop, feedState, threads
  <2>4. CASE Operate \/ Shutdown \/ StopFeed
    BY <2>4 DEF Supervised, Operate, MarkStopped, CloseClient, Shutdown, StopFeed, feedState
  <2>5. CASE (\E u \in 1..MaxUpdate : Publish(u)) \/ GetWell
    BY <2>5 DEF Supervised, Publish, GetWell, feedState, threads
  <2>6. CASE UNCHANGED vars
    BY <2>6 DEF Supervised, vars, feedState, threads
  <2> QED
    BY <2>1, <2>2, <2>3, <2>4, <2>5, <2>6 DEF Next
<1>3. Supervised => UpMeansReady
  BY DEF Supervised, UpMeansReady
<1> QED
  BY <1>1, <1>2, <1>3, PTL DEF Spec

-----------------------------------------------------------------------------
(* Types *)

\* What is left of a sequence when its head is taken.
LEMMA TailOfSeq ==
  ASSUME NEW S, NEW s \in Seq(S), s # <<>>
  PROVE  /\ Head(s) \in S /\ Head(s) = s[1] /\ 1 \in DOMAIN s
         /\ Tail(s) \in Seq(S)
         /\ \A i \in DOMAIN Tail(s) : i + 1 \in DOMAIN s /\ Tail(s)[i] = s[i + 1]
OBVIOUS

\* Sequences with nothing, and with one element.
LEMMA ShortSeqs ==
  ASSUME NEW S, NEW e \in S PROVE <<>> \in Seq(S) /\ <<e>> \in Seq(S)
OBVIOUS

\* The flags, which are true or false.
Flags == shut \in BOOLEAN /\ greets \in BOOLEAN /\ well \in BOOLEAN

\* The types of everything but the flags, the wire and the book.
ControlTypes ==
  /\ conn \in Connection /\ rec \in Recovery
  /\ attempts \in 0..MaxAttempts /\ fetched \in 0..MaxUpdate
  /\ sup \in {"check", "arm", "join", "lost", "retry", "reconnect", "fetch", "emit",
              "validate", "done"}
  /\ ws \in {"new", "up", "down"} /\ op \in {"idle", "mark", "close"}
  /\ published \in SUBSET (1..MaxUpdate) /\ newest \in 0..MaxUpdate

BookType == [has : BOOLEAN, last : 0..MaxUpdate, content : SUBSET (1..MaxUpdate)]

DataTypes == wire \in Seq(Msg) /\ book \in BookType

\* An attempt that is under way is not the last one that fits.
TypeInv ==
  /\ Flags /\ ControlTypes /\ DataTypes
  /\ sup \in {"reconnect", "fetch"} => attempts < MaxAttempts

\* The flags stay flags in every step.
LEMMA FlagsStayFlags ==
  ASSUME Flags, [Next]_vars PROVE Flags'
<1>1. CASE Supervise
  BY <1>1, Zenon DEF Flags, Supervise, CheckShutdown, Arm, Joined, OnDisconnect, Exhausted,
     Attempt, Reconnected, AttemptFails, Fetch, EmitSnapshot, CaughtUp, Validated, exchange, threads
<1>2. CASE Connect \/ Receive \/ Drop
  BY <1>2, Zenon DEF Flags, Connect, ConnectSucceeds, ConnectFails, Receive, Drop,
     exchange, threads
<1>3. CASE Operate \/ Shutdown \/ StopFeed
  BY <1>3, Zenon DEF Flags, Operate, MarkStopped, CloseClient, Shutdown, StopFeed, exchange
<1>4. CASE (\E u \in 1..MaxUpdate : Publish(u)) \/ GetWell
  BY <1>4, Zenon DEF Flags, Publish, GetWell, threads
<1>5. CASE UNCHANGED vars
  BY <1>5, Zenon DEF Flags, vars, exchange, threads
<1> QED
  BY <1>1, <1>2, <1>3, <1>4, <1>5, Zenon DEF Next

\* The control keeps its types in every step.
LEMMA ControlStaysTyped ==
  ASSUME TypeInv, [Next]_vars
  PROVE  ControlTypes' /\ (sup \in {"reconnect", "fetch"} => attempts < MaxAttempts)'
<1>0. ControlTypes /\ (sup \in {"reconnect", "fetch"} => attempts < MaxAttempts)
      /\ MaxAttempts \in Nat \ {0} /\ MaxUpdate \in Nat
  BY FeedAssumption DEF TypeInv
<1> USE <1>0 DEF ControlTypes, Connection, Recovery
<1>1. CASE CheckShutdown
  BY <1>1 DEF CheckShutdown, exchange, feedState
<1>2. CASE Arm
  BY <1>2 DEF Arm, exchange
<1>3. CASE Joined
  BY <1>3 DEF Joined, exchange, feedState
<1>4. CASE OnDisconnect
  BY <1>4 DEF OnDisconnect, exchange
<1>5. CASE Exhausted
  BY <1>5 DEF Exhausted, exchange
<1>6. CASE CaughtUp \/ Validated
  BY <1>6 DEF CaughtUp, Validated, exchange, threads
<1>7. CASE Attempt
  BY <1>7 DEF Attempt, exchange
<1>8. CASE Reconnected
  BY <1>8 DEF Reconnected, exchange
<1>9. CASE AttemptFails
  BY <1>9 DEF AttemptFails, exchange, feedState
<1>10. CASE Fetch
  BY <1>10 DEF Fetch, exchange, feedState
<1>11. CASE EmitSnapshot
  BY <1>11 DEF EmitSnapshot, exchange
<1>12. CASE Connect \/ Receive \/ Drop
  BY <1>12 DEF Connect, ConnectSucceeds, ConnectFails, Receive, Drop, exchange, feedState, threads
<1>13. CASE MarkStopped \/ CloseClient
  BY <1>13 DEF MarkStopped, CloseClient, exchange, feedState
<1>14. CASE Shutdown \/ StopFeed
  BY <1>14 DEF Shutdown, StopFeed, exchange, feedState
<1>15. CASE GetWell
  BY <1>15 DEF GetWell, feedState, threads
<1>16. ASSUME NEW u \in 1..MaxUpdate, Publish(u)
       PROVE  ControlTypes' /\ (sup \in {"reconnect", "fetch"} => attempts < MaxAttempts)'
  <2>1. published' = published \cup {u} /\ newest' = u
        /\ UNCHANGED <<conn, rec, attempts, fetched, sup, ws, op>>
    BY <1>16 DEF Publish, feedState, threads
  <2>2. published' \in SUBSET (1..MaxUpdate) /\ newest' \in 0..MaxUpdate
    BY <2>1
  <2> QED
    BY <2>1, <2>2
<1>17. CASE UNCHANGED vars
  BY <1>17 DEF vars, exchange, feedState, threads
<1> QED
  BY <1>1, <1>2, <1>3, <1>4, <1>5, <1>6, <1>7, <1>8, <1>9, <1>10, <1>11, <1>12, <1>13, <1>14,
     <1>15, <1>16, <1>17 DEF Next, Supervise, Operate

\* The book keeps its type, whatever it is given.
LEMMA BookStaysTyped ==
  ASSUME TypeInv, NEW u \in 0..MaxUpdate
  PROVE  ApplySnapshot(u) \in BookType /\ ApplyDelta(u) \in BookType
<1>1. UpTo(u) \in SUBSET (1..MaxUpdate)
  BY DEF UpTo, TypeInv, ControlTypes
<1>2. book.last \in Nat
  BY DEF TypeInv, DataTypes, BookType
<1>3. CASE u = book.last + 1
  <2>1. u \in 1..MaxUpdate
    BY <1>2, <1>3
  <2> QED
    BY <1>1, <2>1 DEF ApplySnapshot, ApplyDelta, TypeInv, DataTypes, BookType
<1>4. CASE u # book.last + 1
  BY <1>1, <1>4 DEF ApplySnapshot, ApplyDelta, TypeInv, DataTypes, BookType
<1> QED
  BY <1>3, <1>4

\* The wire and the book keep their types in every step.
LEMMA DataStaysTyped ==
  ASSUME TypeInv, [Next]_vars PROVE DataTypes'
<1>1. CASE EmitSnapshot
  <2>1. fetched \in 0..MaxUpdate /\ book' = ApplySnapshot(fetched) /\ wire' = wire
    BY <1>1 DEF EmitSnapshot, TypeInv, ControlTypes
  <2> QED
    BY <2>1, BookStaysTyped DEF TypeInv, DataTypes
<1>2. CASE Receive
  <2>1. wire \in Seq(Msg) /\ wire # <<>> /\ wire' = Tail(wire)
    BY <1>2 DEF Receive, TypeInv, DataTypes
  <2>2. Head(wire) \in Msg /\ Tail(wire) \in Seq(Msg)
    BY <2>1, TailOfSeq
  <2>3. Head(wire).id \in 0..MaxUpdate
    BY <2>2 DEF Msg
  <2>4. book' \in {book, ApplySnapshot(Head(wire).id), ApplyDelta(Head(wire).id)}
    BY <1>2, <2>2 DEF Receive, Msg
  <2> QED
    BY <2>1, <2>2, <2>3, <2>4, BookStaysTyped DEF TypeInv, DataTypes
<1>3. CASE ConnectSucceeds
  <2> DEFINE g == [kind |-> "snapshot", id |-> newest]
  <2>1. g \in Msg
    BY DEF Msg, TypeInv, ControlTypes
  <2>2. (wire' = <<>> \/ wire' = <<g>>) /\ book' = book
    BY <1>3 DEF ConnectSucceeds
  <2> HIDE DEF g
  <2>3. wire' \in Seq(Msg)
    BY <2>1, <2>2, ShortSeqs, Zenon
  <2> QED
    BY <2>2, <2>3 DEF TypeInv, DataTypes
<1>4. ASSUME NEW u \in 1..MaxUpdate, Publish(u) PROVE DataTypes'
  <2> DEFINE d == [kind |-> "delta", id |-> u]
  <2>1. d \in Msg
    BY FeedAssumption DEF Msg
  <2>2. wire' \in {wire, Append(wire, d)} /\ book' = book
    BY <1>4 DEF Publish
  <2> HIDE DEF d
  <2>3. wire' \in Seq(Msg)
    BY <2>1, <2>2 DEF TypeInv, DataTypes
  <2> QED
    BY <2>2, <2>3 DEF TypeInv, DataTypes
<1>5. CASE Drop \/ CloseClient
  <2>1. (wire' = wire \/ wire' = <<>>) /\ book' = book
    BY <1>5 DEF Drop, CloseClient
  <2>2. <<>> \in Seq(Msg)
    OBVIOUS
  <2>3. wire' \in Seq(Msg)
    BY <2>1, <2>2, Zenon DEF TypeInv, DataTypes
  <2> QED
    BY <2>1, <2>3 DEF TypeInv, DataTypes
<1>6. CASE CheckShutdown \/ Arm \/ Joined \/ OnDisconnect \/ Exhausted \/ Attempt
           \/ Reconnected \/ AttemptFails \/ Fetch \/ CaughtUp \/ Validated \/ ConnectFails
           \/ Shutdown \/ StopFeed \/ MarkStopped \/ GetWell \/ UNCHANGED vars
  BY <1>6 DEF CheckShutdown, Arm, Joined, OnDisconnect, Exhausted, Attempt, Reconnected,
     AttemptFails, Fetch, CaughtUp, Validated, ConnectFails, Shutdown, StopFeed, MarkStopped,
     GetWell, vars, TypeInv, DataTypes
<1> QED
  BY <1>1, <1>2, <1>3, <1>4, <1>5, <1>6 DEF Next, Supervise, Connect, Operate

\* The feed, the threads and the book stay well typed: no attempt is counted beyond the
\* ones that fit into the time of a recovery.
THEOREM FeedTypeCorrect == Spec => []FeedTypeOK
<1>1. Init => TypeInv
  <2> SUFFICES ASSUME Init PROVE TypeInv
    OBVIOUS
  <2>0. Flags
    BY Zenon DEF Init, Flags
  <2>1. ControlTypes /\ sup = "check"
    BY FeedAssumption DEF Init, ControlTypes, Connection, Recovery
  <2>2. wire \in Seq(Msg)
    BY DEF Init
  <2>3. book \in BookType
    BY FeedAssumption DEF Init, BookType
  <2> QED
    BY <2>0, <2>1, <2>2, <2>3 DEF TypeInv, DataTypes
<1>2. TypeInv /\ [Next]_vars => TypeInv'
  BY FlagsStayFlags, ControlStaysTyped, DataStaysTyped DEF TypeInv
<1>3. TypeInv => FeedTypeOK
  BY DEF TypeInv, Flags, ControlTypes, DataTypes, BookType, FeedTypeOK
<1> QED
  BY <1>1, <1>2, <1>3, PTL DEF Spec

-----------------------------------------------------------------------------
(* The book *)

\* Nothing is published behind the newest update: what is under way, what was fetched
\* and what the book has are not beyond it, and a delta is of a published update.
Ordered ==
  /\ newest \in Nat /\ fetched \in 0..newest
  /\ published \subseteq 1..newest
  /\ wire \in Seq([kind : {"snapshot", "delta"}, id : 0..newest])
  /\ \A i \in DOMAIN wire : wire[i].kind = "delta" => wire[i].id \in published
  /\ book \in [has : BOOLEAN, last : 0..newest, content : SUBSET Nat]

BookInv == Ordered /\ BookHasNoHole

\* A snapshot is the whole book as of its number.
LEMMA SnapshotIsWhole ==
  ASSUME NEW u \in 0..newest, newest \in Nat, published \subseteq 1..newest
  PROVE  /\ ApplySnapshot(u) \in [has : BOOLEAN, last : 0..newest, content : SUBSET Nat]
         /\ ApplySnapshot(u).content = UpTo(ApplySnapshot(u).last)
<1>1. published \subseteq Nat /\ UpTo(u) \subseteq published
  BY DEF UpTo
<1>2. UpTo(u) \in SUBSET Nat
  BY <1>1
<1> HIDE DEF UpTo
<1> QED
  BY <1>2 DEF ApplySnapshot

\* A delta that is taken is the next update; one that is refused changes nothing.
LEMMA DeltaExtends ==
  ASSUME BookInv, NEW u \in published
  PROVE  /\ ApplyDelta(u) \in [has : BOOLEAN, last : 0..newest, content : SUBSET Nat]
         /\ ApplyDelta(u).has => ApplyDelta(u).content = UpTo(ApplyDelta(u).last)
<1>1. CASE book.has /\ u = book.last + 1
  <2>1. ApplyDelta(u) = [has |-> book.has, last |-> u, content |-> book.content \cup {u}]
    BY <1>1 DEF ApplyDelta, BookInv, Ordered
  <2>2. UpTo(u) = UpTo(book.last) \cup {u}
    <3>1. published \subseteq Nat /\ book.last \in Nat
      BY DEF BookInv, Ordered
    <3>2. \A v \in published : v <= u <=> v <= book.last \/ v = u
      BY <1>1, <3>1
    <3> QED
      BY <3>2 DEF UpTo
  <2>3. u \in 0..newest /\ book.content \cup {u} \in SUBSET Nat /\ book.has \in BOOLEAN
    BY DEF BookInv, Ordered
  <2>4. book.content = UpTo(book.last)
    BY <1>1 DEF BookInv, BookHasNoHole
  <2> QED
    BY <2>1, <2>2, <2>3, <2>4
<1>2. CASE ~(book.has /\ u = book.last + 1)
  BY <1>2 DEF ApplyDelta, BookInv, Ordered, BookHasNoHole
<1> QED
  BY <1>1, <1>2

\* What is received is applied, or dropped.
LEMMA ReceiveKeepsBook ==
  ASSUME BookInv, Receive PROVE BookInv'
<1> DEFINE m == Head(wire)
       Sent == [kind : {"snapshot", "delta"}, id : 0..newest]
<1>0. wire \in Seq(Sent) /\ wire # <<>> /\ wire' = Tail(wire)
  BY DEF BookInv, Ordered, Receive
<1>1. m \in Sent /\ (m.kind = "delta" => m.id \in published)
  <2>1. m \in Sent /\ m = wire[1] /\ 1 \in DOMAIN wire
    BY <1>0, TailOfSeq
  <2> QED
    BY <2>1 DEF BookInv, Ordered
<1>2. wire' \in Seq(Sent)
      /\ \A i \in DOMAIN wire' : wire'[i].kind = "delta" => wire'[i].id \in published
  <2>1. wire' \in Seq(Sent)
        /\ \A i \in DOMAIN wire' : i + 1 \in DOMAIN wire /\ wire'[i] = wire[i + 1]
    BY <1>0, TailOfSeq
  <2> QED
    BY <2>1 DEF BookInv, Ordered
<1>3. UNCHANGED <<newest, published, fetched>>
  BY DEF Receive, exchange, threads
<1>4. book' \in {book, ApplySnapshot(m.id)} \/ (m.kind = "delta" /\ book' = ApplyDelta(m.id))
  BY <1>1 DEF Receive
<1>5. book' \in [has : BOOLEAN, last : 0..newest, content : SUBSET Nat]
      /\ (book'.has => book'.content = UpTo(book'.last))
  BY <1>1, <1>4, SnapshotIsWhole, DeltaExtends DEF BookInv, Ordered, BookHasNoHole
<1> QED
  BY <1>2, <1>3, <1>5 DEF BookInv, Ordered, BookHasNoHole, UpTo

\* A new update is beyond everything that the book may have.
LEMMA PublishKeepsBook ==
  ASSUME BookInv, NEW u \in 1..MaxUpdate, Publish(u), MaxUpdate \in Nat PROVE BookInv'
<1>1. u \in Nat /\ u > newest /\ newest' = u /\ published' = published \cup {u}
  BY DEF Publish, BookInv, Ordered
<1>2. UNCHANGED <<book, fetched>>
  BY DEF Publish, threads
<1> DEFINE Old == [kind : {"snapshot", "delta"}, id : 0..newest]
           New == [kind : {"snapshot", "delta"}, id : 0..u]
           m == [kind |-> "delta", id |-> u]
<1>3. wire \in Seq(New)
  <2>1. Old \subseteq New
    BY <1>1 DEF BookInv, Ordered
  <2>2. wire \in Seq(Old)
    BY DEF BookInv, Ordered
  <2> HIDE DEF Old, New
  <2> QED
    BY <2>1, <2>2
<1>4. m \in New
  BY <1>1
<1>5. wire' = wire \/ wire' = Append(wire, m)
  BY DEF Publish
<1>6. \A i \in DOMAIN wire : wire[i].kind = "delta" => wire[i].id \in published'
  BY <1>1 DEF BookInv, Ordered
<1>7. wire' \in Seq(New)
      /\ \A i \in DOMAIN wire' : wire'[i].kind = "delta" => wire'[i].id \in published'
  <2>1. m.kind = "delta" /\ m.id \in published'
    BY <1>1
  <2> HIDE DEF m, New
  <2> QED
    BY <1>3, <1>4, <1>5, <1>6, <2>1
<1>8. \A n \in 0..newest : UpTo(n)' = UpTo(n)
  BY <1>1 DEF UpTo, BookInv, Ordered
<1>9. Ordered'
  BY <1>1, <1>2, <1>7 DEF BookInv, Ordered
<1>10. BookHasNoHole'
  <2>1. book.last \in 0..newest
    BY DEF BookInv, Ordered
  <2>2. book.has => book.content = UpTo(book.last)'
    BY <1>2, <1>8, <2>1 DEF BookInv, BookHasNoHole, UpTo
  <2> QED
    BY <1>2, <2>2 DEF BookHasNoHole, UpTo
<1> QED
  BY <1>9, <1>10 DEF BookInv

\* The book is the exchange's book as of its last update: no update is missing in it,
\* whatever connections dropped, and whatever was lost with them.
THEOREM NoUpdateIsMissing == Spec => []BookHasNoHole
<1>1. Init => BookInv
  BY DEF Init, BookInv, Ordered, BookHasNoHole
<1>2. BookInv /\ [Next]_vars => BookInv'
  <2> SUFFICES ASSUME BookInv, [Next]_vars PROVE BookInv'
    OBVIOUS
  <2>1. CASE EmitSnapshot
    <3>1. book' = ApplySnapshot(fetched) /\ UNCHANGED <<newest, published, fetched, wire>>
      BY <2>1 DEF EmitSnapshot, exchange
    <3>2. newest \in Nat /\ fetched \in 0..newest /\ published \subseteq 1..newest
      BY DEF BookInv, Ordered
    <3>3. book' \in [has : BOOLEAN, last : 0..newest, content : SUBSET Nat]
          /\ book'.content = UpTo(book'.last)
      BY <3>1, <3>2, SnapshotIsWhole
    <3> QED
      BY <3>1, <3>3 DEF BookInv, Ordered, BookHasNoHole, UpTo
  <2>2. CASE Fetch
    BY <2>2 DEF Fetch, exchange, BookInv, Ordered, BookHasNoHole, UpTo
  <2>3. CASE CheckShutdown \/ Arm \/ Joined \/ OnDisconnect \/ Exhausted \/ Attempt
             \/ Reconnected \/ AttemptFails \/ CaughtUp \/ Validated
    BY <2>3 DEF CheckShutdown, Arm, Joined, OnDisconnect, Exhausted, Attempt, Reconnected,
       AttemptFails, CaughtUp, Validated, exchange, threads, BookInv, Ordered,
       BookHasNoHole, UpTo
  <2>4. CASE ConnectSucceeds
    <3> DEFINE m == [kind |-> "snapshot", id |-> newest]
    <3>1. m \in [kind : {"snapshot", "delta"}, id : 0..newest] /\ m.kind # "delta"
      BY DEF BookInv, Ordered
    <3>2. wire' = <<m>> \/ wire' = <<>>
      BY <2>4 DEF ConnectSucceeds
    <3>3. wire' \in Seq([kind : {"snapshot", "delta"}, id : 0..newest])
          /\ \A i \in DOMAIN wire' : wire'[i].kind = "delta" => wire'[i].id \in published
      <4>1. CASE wire' = <<>>
        BY <4>1
      <4>2. CASE wire' = <<m>>
        <5>1. DOMAIN wire' = {1} /\ wire'[1] = m
          BY <4>2
        <5> HIDE DEF m
        <5> QED
          BY <3>1, <4>2, <5>1
      <4> QED
        BY <3>2, <4>1, <4>2
    <3> QED
      BY <2>4, <3>3 DEF ConnectSucceeds, exchange, BookInv, Ordered, BookHasNoHole, UpTo
  <2>5. CASE Drop \/ CloseClient
    <3>1. wire' \in {wire, <<>>} /\ UNCHANGED <<newest, published, fetched, book>>
      BY <2>5 DEF Drop, CloseClient, exchange
    <3>2. wire' \in Seq([kind : {"snapshot", "delta"}, id : 0..newest])
          /\ \A i \in DOMAIN wire' : wire'[i].kind = "delta" => wire'[i].id \in published
      <4>1. CASE wire' = <<>>
        BY <4>1
      <4>2. CASE wire' = wire
        BY <4>2 DEF BookInv, Ordered
      <4> QED
        BY <3>1, <4>1, <4>2
    <3> QED
      BY <3>1, <3>2 DEF BookInv, Ordered, BookHasNoHole, UpTo
  <2>6. CASE ConnectFails \/ Shutdown \/ StopFeed \/ MarkStopped \/ GetWell
    BY <2>6 DEF ConnectFails, Shutdown, StopFeed, MarkStopped, GetWell, exchange, threads,
       BookInv, Ordered, BookHasNoHole, UpTo
  <2>7. CASE Receive
    BY <2>7, ReceiveKeepsBook
  <2>8. CASE \E u \in 1..MaxUpdate : Publish(u)
    BY <2>8, PublishKeepsBook, FeedAssumption
  <2>9. CASE UNCHANGED vars
    BY <2>9 DEF vars, exchange, threads, BookInv, Ordered, BookHasNoHole, UpTo
  <2> QED
    BY <2>1, <2>2, <2>3, <2>4, <2>5, <2>6, <2>7, <2>8, <2>9 DEF Next, Supervise, Connect, Operate
<1>3. BookInv => BookHasNoHole
  BY DEF BookInv
<1> QED
  BY <1>1, <1>2, <1>3, PTL DEF Spec

=============================================================================
