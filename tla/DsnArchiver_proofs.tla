------------------------- MODULE DsnArchiver_proofs -------------------------
(***************************************************************************)
(* Proofs about the DSN archiver, for every value of the constants that    *)
(* satisfies the module's assumptions.                                     *)
(***************************************************************************)
EXTENDS DsnArchiver, SequenceTheorems, TLAPS

USE PiecesInSegmentAssumption, MaxSegmentIndexAssumption, BoundsAssumption,
    NoneAssumption, PieceIndexModulusAssumption,
    PutOutcomesAssumption

(* The key a task puts lies in the DHT's index range. *)
LEMMA KeyInRange ==
  ASSUME NEW seg \in Segments, NEW pos \in Positions
  PROVE  PieceKey(seg, pos) \in PieceIndices
BY DEF PieceKey, FirstPieceIndex, PieceIndices, Segments, Positions

(* Without a wrap, the key of a piece splits back into its segment and    *)
(* position.                                                              *)
LEMMA PieceAtKey ==
  ASSUME NoKeyWrap, NEW seg \in Segments, NEW pos \in Positions
  PROVE  PieceAt(PieceKey(seg, pos)) = Piece(seg, pos)
<1> DEFINE N == PiecesInSegment
           M == PieceIndexModulus
<1>1. seg * N + pos < M
  <2>1. seg * N + pos < (MaxSegmentIndex + 1) * N
    BY DEF Segments, Positions
  <2>2. QED
    BY <2>1 DEF NoKeyWrap, Segments, Positions
<1>2. PieceKey(seg, pos) = seg * N + pos
  <2>1. (seg * N) % M = seg * N
    BY <1>1 DEF Segments, Positions
  <2>2. QED
    BY <1>1, <2>1 DEF PieceKey, FirstPieceIndex, Segments, Positions
<1>3. (seg * N + pos) \div N = seg
  BY DEF Segments, Positions
<1>4. (seg * N + pos) % N = pos
  BY DEF Segments, Positions
<1>5. QED
  BY <1>2, <1>3, <1>4 DEF PieceAt

(* Type correctness: TypeOK is an inductive invariant of the archiver. *)
THEOREM TypeCorrect == Spec => []TypeOK
<1>1. Init => TypeOK
  BY DEF Init, TypeOK, PieceIndices, Pieces, NoPiece
<1>2. TypeOK /\ [Next]_vars => TypeOK'
  <2> SUFFICES ASSUME TypeOK, [Next]_vars PROVE TypeOK'
    OBVIOUS
  <2>1. CASE ArchiveSegment
    BY <2>1 DEF ArchiveSegment, TypeOK, Segments
  <2>2. CASE RenotifySegment
    BY <2>2 DEF RenotifySegment, TypeOK, Segments
  <2>3. CASE Restart
    BY <2>3 DEF Restart, TypeOK
  <2>4. CASE SkipSegment
    BY <2>4 DEF SkipSegment, TypeOK
  <2>5. CASE PublishSegment
    <3>1. Head(stream) \in Segments /\ Tail(stream) \in Seq(Segments)
      BY <2>5, HeadTailProperties DEF PublishSegment, TypeOK
    <3>2. [segment |-> Head(stream), position |-> 0] \in Task
      BY <3>1 DEF Task
    <3>3. tasks' \in Seq(Task)
      BY <2>5, <3>2, AppendProperties DEF PublishSegment, TypeOK
    <3>4. QED
      BY <2>5, <3>1, <3>3 DEF PublishSegment, TypeOK
  <2>6. ASSUME NEW t \in TaskIds, PutValue(t) PROVE TypeOK'
    <3> DEFINE seg == tasks[t].segment
               pos == tasks[t].position
    <3>1. t \in 1 .. Len(tasks) /\ tasks[t] \in Task /\ pos < PiecesInSegment
      <4>1. t \in 1 .. Len(tasks) /\ tasks[t] \in Task
        BY <2>6, ElementOfSeq DEF PutValue, TypeOK
      <4>2. QED
        BY <2>6, <4>1 DEF PutValue, TaskDone, Task
    <3>2. seg \in Segments /\ pos \in Positions
      BY <3>1 DEF Task, Positions
    <3>3. Piece(seg, pos) \in Pieces
      BY <3>2 DEF Piece, Pieces
    <3>4. dht' \in [PieceIndices -> Pieces \cup {NoPiece}]
      BY <2>6, <3>2, <3>3, KeyInRange DEF PutValue, TypeOK
    <3>5. tasks' \in Seq(Task)
      <4>1. tasks' = [tasks EXCEPT ![t] = [tasks[t] EXCEPT !.position = pos + 1]]
        BY <2>6 DEF PutValue
      <4>2. [tasks[t] EXCEPT !.position = pos + 1] \in Task
        BY <3>1 DEF Task
      <4>3. QED
        BY <3>1, <4>1, <4>2, ExceptSeq DEF TypeOK
    <3>6. QED
      BY <2>6, <3>4, <3>5 DEF PutValue, TypeOK
  <2>7. CASE UNCHANGED vars
    BY <2>7 DEF vars, TypeOK
  <2>8. QED
    BY <2>1, <2>2, <2>3, <2>4, <2>5, <2>6, <2>7
       DEF Next, Environment, ReceiveNotification
<1>3. QED
  BY <1>1, <1>2, PTL DEF Spec

(* DHT consistency holds in every reachable state: each put stores the    *)
(* piece whose index is the key, so no interleaving of tasks, failures or *)
(* restarts stores a piece under another piece's index, as long as no    *)
(* u64 piece index wraps (NoKeyWrap; the run dsn_key_wrap shows the      *)
(* violation when one does).                                              *)
THEOREM DhtConsistency == NoKeyWrap => (Spec => []DhtConsistent)
<1> SUFFICES ASSUME NoKeyWrap PROVE Spec => []DhtConsistent
  OBVIOUS
<1>1. Init => DhtConsistent
  BY DEF Init, DhtConsistent
<1>2. TypeOK /\ DhtConsistent /\ [Next]_vars => DhtConsistent'
  <2> SUFFICES ASSUME TypeOK, DhtConsistent, [Next]_vars PROVE DhtConsistent'
    OBVIOUS
  <2>1. ASSUME NEW t \in TaskIds, PutValue(t) PROVE DhtConsistent'
    <3> DEFINE seg == tasks[t].segment
               pos == tasks[t].position
               key == PieceKey(seg, pos)
    <3>1. seg \in Segments /\ pos \in Positions
      <4>1. t \in 1 .. Len(tasks) /\ tasks[t] \in Task
        BY <2>1, ElementOfSeq DEF PutValue, TypeOK
      <4>2. pos < PiecesInSegment
        BY <2>1, <4>1 DEF PutValue, TaskDone, Task
      <4>3. QED
        BY <4>1, <4>2 DEF Task, Positions
    <3>2. key \in PieceIndices /\ PieceAt(key) = Piece(seg, pos)
      BY <3>1, KeyInRange, PieceAtKey DEF Segments
    <3>3. dht' = dht \/ dht' = [dht EXCEPT ![key] = Piece(seg, pos)]
      BY <2>1 DEF PutValue
    <3>4. QED
      BY <3>2, <3>3 DEF DhtConsistent, TypeOK
  <2>2. CASE ~\E t \in TaskIds : PutValue(t)
    <3>1. dht' = dht
      BY <2>2 DEF Next, Environment, ReceiveNotification, ArchiveSegment,
                  RenotifySegment, Restart, SkipSegment, PublishSegment, vars
    <3>2. QED
      BY <3>1 DEF DhtConsistent
  <2>3. QED
    BY <2>1, <2>2
<1>3. QED
  BY <1>1, <1>2, TypeCorrect, PTL DEF Spec
-----------------------------------------------------------------------------
(* Why a run never hands one segment to two tasks.  The upstream archives  *)
(* segments in index order and only repeats its newest one, so the stream  *)
(* is non-decreasing and never runs ahead of `archived`; the loop sets     *)
(* last_published_segment_index to the segment of the task it spawned last *)
(* and never sees a smaller segment after it, so a segment that passes the *)
(* repeat check is larger than every segment spawned before.  A restart   *)
(* empties the stream, the tasks and the index together.                  *)
TasksOrdered ==
  \A i, j \in DOMAIN tasks : i < j => tasks[i].segment < tasks[j].segment
LastIsNewestTask ==
  lastPublished = IF tasks = <<>> THEN None ELSE tasks[Len(tasks)].segment
StreamOrdered ==
  \A i, j \in DOMAIN stream : i < j => stream[i] <= stream[j]
StreamBelowArchived == \A i \in DOMAIN stream : stream[i] < archived
LastBelowStream ==
  lastPublished # None =>
    /\ lastPublished < archived
    /\ \A i \in DOMAIN stream : lastPublished <= stream[i]

PublicationInv ==
  /\ TasksOrdered /\ LastIsNewestTask /\ StreamOrdered
  /\ StreamBelowArchived /\ LastBelowStream

(* Appending an element no smaller than every element keeps a sequence of *)
(* numbers non-decreasing.                                                 *)
LEMMA AppendOrdered ==
  ASSUME NEW S, S \subseteq Nat, NEW sq \in Seq(S), NEW e \in S,
         \A i, j \in DOMAIN sq : i < j => sq[i] <= sq[j],
         \A i \in DOMAIN sq : sq[i] <= e
  PROVE  /\ \A i, j \in DOMAIN Append(sq, e) :
              i < j => Append(sq, e)[i] <= Append(sq, e)[j]
         /\ DOMAIN Append(sq, e) = 1 .. Len(sq) + 1
<1>1. /\ Append(sq, e) \in Seq(S)
      /\ Len(Append(sq, e)) = Len(sq) + 1
      /\ \A i \in 1 .. Len(sq) : Append(sq, e)[i] = sq[i]
      /\ Append(sq, e)[Len(sq) + 1] = e
  BY AppendProperties
<1>2. DOMAIN Append(sq, e) = 1 .. Len(sq) + 1 /\ DOMAIN sq = 1 .. Len(sq)
  BY <1>1, LenProperties
<1>3. QED
  BY <1>1, <1>2

(* The tail of a non-decreasing sequence is non-decreasing, and its        *)
(* elements are no smaller than the head.                                  *)
LEMMA TailOrdered ==
  ASSUME NEW S, S \subseteq Nat, NEW sq \in Seq(S), sq # <<>>,
         \A i, j \in DOMAIN sq : i < j => sq[i] <= sq[j]
  PROVE  /\ \A i, j \in DOMAIN Tail(sq) : i < j => Tail(sq)[i] <= Tail(sq)[j]
         /\ \A i \in DOMAIN Tail(sq) : Head(sq) <= Tail(sq)[i]
         /\ \A i \in DOMAIN Tail(sq) : \E k \in DOMAIN sq : Tail(sq)[i] = sq[k]
         /\ Head(sq) = sq[1] /\ 1 \in DOMAIN sq
<1>1. /\ Tail(sq) \in Seq(S)
      /\ Len(Tail(sq)) = Len(sq) - 1
      /\ \A i \in 1 .. Len(Tail(sq)) : Tail(sq)[i] = sq[i + 1]
  BY HeadTailProperties
<1>2. /\ DOMAIN Tail(sq) = 1 .. Len(sq) - 1
      /\ DOMAIN sq = 1 .. Len(sq)
      /\ Len(sq) \in Nat \ {0}
  BY <1>1, LenProperties, EmptySeq
<1>3. Head(sq) = sq[1]
  OBVIOUS
<1>4. \A i, j \in DOMAIN Tail(sq) : i < j => Tail(sq)[i] <= Tail(sq)[j]
  <2> SUFFICES ASSUME NEW i \in DOMAIN Tail(sq), NEW j \in DOMAIN Tail(sq), i < j
               PROVE  Tail(sq)[i] <= Tail(sq)[j]
    OBVIOUS
  <2>1. i + 1 \in DOMAIN sq /\ j + 1 \in DOMAIN sq /\ i + 1 < j + 1
    BY <1>2
  <2>2. QED
    BY <1>1, <1>2, <2>1
<1>5. \A i \in DOMAIN Tail(sq) : Head(sq) <= Tail(sq)[i]
  <2> SUFFICES ASSUME NEW i \in DOMAIN Tail(sq) PROVE Head(sq) <= Tail(sq)[i]
    OBVIOUS
  <2>1. 1 \in DOMAIN sq /\ i + 1 \in DOMAIN sq /\ 1 < i + 1
    BY <1>2
  <2>2. QED
    BY <1>1, <1>2, <1>3, <2>1
<1>6. \A i \in DOMAIN Tail(sq) : \E k \in DOMAIN sq : Tail(sq)[i] = sq[k]
  <2> SUFFICES ASSUME NEW i \in DOMAIN Tail(sq)
               PROVE  \E k \in DOMAIN sq : Tail(sq)[i] = sq[k]
    OBVIOUS
  <2>1. i + 1 \in DOMAIN sq /\ Tail(sq)[i] = sq[i + 1]
    BY <1>1, <1>2
  <2>2. QED
    BY <2>1
<1>7. QED
  BY <1>2, <1>3, <1>4, <1>5, <1>6

LEMMA PublicationInvInit == Init => PublicationInv
BY DEF Init, PublicationInv, TasksOrdered, LastIsNewestTask, StreamOrdered,
       StreamBelowArchived, LastBelowStream

LEMMA PublicationInvNext ==
  TypeOK /\ PublicationInv /\ [Next]_vars => PublicationInv'
<1> SUFFICES ASSUME TypeOK, PublicationInv, [Next]_vars PROVE PublicationInv'
  OBVIOUS
<1>0. /\ Segments \subseteq Nat
      /\ stream \in Seq(Segments) /\ DOMAIN stream = 1 .. Len(stream)
      /\ Len(stream) \in Nat /\ Len(tasks) \in Nat
      /\ tasks \in Seq(Task) /\ DOMAIN tasks = 1 .. Len(tasks)
      /\ archived \in 0 .. MaxSegmentIndex + 1
      /\ lastPublished \in Segments \cup {None}
  BY LenProperties DEF TypeOK, Segments
<1>0a. \A i \in DOMAIN stream : stream[i] \in Segments
  BY <1>0, ElementOfSeq
<1>a. /\ \A i, j \in DOMAIN stream : i < j => stream[i] <= stream[j]
      /\ \A i \in DOMAIN stream : stream[i] < archived
  BY DEF PublicationInv, StreamOrdered, StreamBelowArchived
\* The stream after appending an element e no smaller than its elements.
<1>b. ASSUME NEW e \in Segments, \A i \in DOMAIN stream : stream[i] <= e
      PROVE  /\ \A i, j \in DOMAIN Append(stream, e) :
                   i < j => Append(stream, e)[i] <= Append(stream, e)[j]
             /\ DOMAIN Append(stream, e) = 1 .. Len(stream) + 1
             /\ \A i \in 1 .. Len(stream) : Append(stream, e)[i] = stream[i]
             /\ Append(stream, e)[Len(stream) + 1] = e
  <2>1. /\ \A i, j \in DOMAIN Append(stream, e) :
              i < j => Append(stream, e)[i] <= Append(stream, e)[j]
        /\ DOMAIN Append(stream, e) = 1 .. Len(stream) + 1
    BY <1>0, <1>a, <1>b, AppendOrdered, Zenon
  <2>2. /\ \A i \in 1 .. Len(stream) : Append(stream, e)[i] = stream[i]
        /\ Append(stream, e)[Len(stream) + 1] = e
    BY <1>0, AppendProperties
  <2>3. QED
    BY <2>1, <2>2
\* The stream after removing its head.
<1>c. ASSUME stream # <<>>
      PROVE  /\ \A i, j \in DOMAIN Tail(stream) : i < j => Tail(stream)[i] <= Tail(stream)[j]
             /\ \A i \in DOMAIN Tail(stream) : Head(stream) <= Tail(stream)[i]
             /\ \A i \in DOMAIN Tail(stream) :
                  \E k \in DOMAIN stream : Tail(stream)[i] = stream[k]
             /\ Head(stream) = stream[1] /\ 1 \in DOMAIN stream
  BY <1>0, <1>a, <1>c, TailOrdered, Zenon
<1>1. CASE ArchiveSegment
  <2>1. /\ archived \in Segments
        /\ stream' = Append(stream, archived) /\ archived' = archived + 1
        /\ UNCHANGED <<tasks, lastPublished>>
    BY <1>0, <1>1 DEF ArchiveSegment, Segments
  <2>2. \A i \in DOMAIN stream : stream[i] <= archived
    BY <1>0, <1>0a, <1>a DEF Segments
  <2>3. /\ \A i, j \in DOMAIN stream' : i < j => stream'[i] <= stream'[j]
        /\ DOMAIN stream' = 1 .. Len(stream) + 1
        /\ \A i \in 1 .. Len(stream) : stream'[i] = stream[i]
        /\ stream'[Len(stream) + 1] = archived
    BY <1>b, <2>1, <2>2, Zenon
  <2>4. TasksOrdered' /\ LastIsNewestTask' /\ StreamOrdered'
    BY <2>1, <2>3 DEF PublicationInv, TasksOrdered, LastIsNewestTask, StreamOrdered
  <2>5. StreamBelowArchived'
    BY <1>0, <1>0a, <1>a, <2>1, <2>3 DEF StreamBelowArchived, Segments
  <2>6. LastBelowStream'
    <3> SUFFICES ASSUME lastPublished # None
                 PROVE  /\ lastPublished < archived'
                        /\ \A i \in DOMAIN stream' : lastPublished <= stream'[i]
      BY <2>1 DEF LastBelowStream
    <3>1. lastPublished \in Segments /\ lastPublished < archived
          /\ \A i \in DOMAIN stream : lastPublished <= stream[i]
      BY <1>0 DEF PublicationInv, LastBelowStream
    <3>2. QED
      BY <1>0, <2>1, <2>3, <3>1 DEF Segments
  <2>7. QED
    BY <2>4, <2>5, <2>6 DEF PublicationInv
<1>2. CASE RenotifySegment
  <2>1. /\ archived - 1 \in Segments
        /\ stream' = Append(stream, archived - 1) /\ archived' = archived
        /\ UNCHANGED <<tasks, lastPublished>>
    BY <1>0, <1>2 DEF RenotifySegment, Segments
  <2>2. \A i \in DOMAIN stream : stream[i] <= archived - 1
    BY <1>0, <1>0a, <1>a DEF Segments
  <2>3. /\ \A i, j \in DOMAIN stream' : i < j => stream'[i] <= stream'[j]
        /\ DOMAIN stream' = 1 .. Len(stream) + 1
        /\ \A i \in 1 .. Len(stream) : stream'[i] = stream[i]
        /\ stream'[Len(stream) + 1] = archived - 1
    BY <1>b, <2>1, <2>2, Zenon
  <2>4. TasksOrdered' /\ LastIsNewestTask' /\ StreamOrdered'
    BY <2>1, <2>3 DEF PublicationInv, TasksOrdered, LastIsNewestTask, StreamOrdered
  <2>5. StreamBelowArchived'
    BY <1>0, <1>0a, <1>a, <2>1, <2>3 DEF StreamBelowArchived, Segments
  <2>6. LastBelowStream'
    <3> SUFFICES ASSUME lastPublished # None
                 PROVE  /\ lastPublished < archived'
                        /\ \A i \in DOMAIN stream' : lastPublished <= stream'[i]
      BY <2>1 DEF LastBelowStream
    <3>1. lastPublished \in Segments /\ lastPublished < archived
          /\ \A i \in DOMAIN stream : lastPublished <= stream[i]
      BY <1>0 DEF PublicationInv, LastBelowStream
    <3>2. QED
      BY <1>0, <2>1, <2>3, <3>1 DEF Segments
  <2>7. QED
    BY <2>4, <2>5, <2>6 DEF PublicationInv
<1>3. CASE Restart
  BY <1>3 DEF Restart, PublicationInv, TasksOrdered, LastIsNewestTask,
              StreamOrdered, StreamBelowArchived, LastBelowStream
<1>4. CASE SkipSegment
  <2>1. /\ stream # <<>> /\ stream' = Tail(stream)
        /\ UNCHANGED <<archived, tasks, lastPublished>>
    BY <1>4 DEF SkipSegment
  <2>2. QED
    BY <1>c, <2>1
       DEF PublicationInv, TasksOrdered, LastIsNewestTask, StreamOrdered,
           StreamBelowArchived, LastBelowStream
<1>5. CASE PublishSegment
  <2> DEFINE h == Head(stream)
             task == [segment |-> h, position |-> 0]
  <2>1. /\ stream # <<>> /\ lastPublished # h
        /\ stream' = Tail(stream) /\ tasks' = Append(tasks, task)
        /\ lastPublished' = h /\ archived' = archived
    BY <1>5 DEF PublishSegment
  <2>2. h \in Segments /\ h < archived
    <3>1. h = stream[1] /\ 1 \in DOMAIN stream
      BY <1>c, <2>1
    <3>2. QED
      BY <1>0a, <1>a, <3>1
  <2>3. task \in Task
    BY <2>2 DEF Task
  <2>4. /\ DOMAIN tasks' = 1 .. Len(tasks) + 1
        /\ \A i \in 1 .. Len(tasks) : tasks'[i] = tasks[i]
        /\ tasks'[Len(tasks) + 1] = task
        /\ tasks' # <<>> /\ Len(tasks') = Len(tasks) + 1
    <3>1. Append(tasks, task) \in Seq(Task)
          /\ Len(Append(tasks, task)) = Len(tasks) + 1
          /\ \A i \in 1 .. Len(tasks) : Append(tasks, task)[i] = tasks[i]
          /\ Append(tasks, task)[Len(tasks) + 1] = task
          /\ Append(tasks, task) # <<>>
      BY <1>0, <2>3, AppendProperties
    <3>2. DOMAIN Append(tasks, task) = 1 .. Len(tasks) + 1
      BY <3>1, LenProperties
    <3>3. QED
      BY <2>1, <3>1, <3>2
  <2>5. \A i \in 1 .. Len(tasks) : tasks[i].segment < h
    <3> SUFFICES ASSUME NEW i \in 1 .. Len(tasks) PROVE tasks[i].segment < h
      OBVIOUS
    <3>1. tasks # <<>>
      BY <1>0
    <3>2. lastPublished = tasks[Len(tasks)].segment
      BY <3>1 DEF PublicationInv, LastIsNewestTask
    <3>3. tasks[i] \in Task /\ tasks[Len(tasks)] \in Task /\ Len(tasks) \in Nat
      BY <1>0, ElementOfSeq, LenProperties
    <3>4. lastPublished \in Nat /\ tasks[i].segment \in Nat
      BY <3>2, <3>3 DEF Task, Segments
    <3>5. lastPublished <= h
      BY <1>c, <2>1, <3>4, NoneAssumption DEF PublicationInv, LastBelowStream
    <3>6. tasks[i].segment <= tasks[Len(tasks)].segment
      <4>1. CASE i = Len(tasks)
        BY <4>1, <3>4
      <4>2. CASE i # Len(tasks)
        <5>0. Len(tasks) \in Nat \ {0}
          BY <1>0, <3>1, EmptySeq
        <5>1. i < Len(tasks)
          BY <4>2, <5>0
        <5>a. Len(tasks) \in DOMAIN tasks /\ i \in DOMAIN tasks
          BY <1>0, <5>0
        <5>2. tasks[i].segment < tasks[Len(tasks)].segment
          BY <5>1, <5>a DEF PublicationInv, TasksOrdered
        <5>3. QED
          BY <3>2, <3>4, <5>2
      <4>3. QED
        BY <4>1, <4>2
    <3>7. QED
      BY <2>1, <2>2, <3>2, <3>4, <3>5, <3>6 DEF Segments
  <2>6. TasksOrdered'
    <3> SUFFICES ASSUME NEW i \in DOMAIN tasks', NEW j \in DOMAIN tasks', i < j
                 PROVE  tasks'[i].segment < tasks'[j].segment
      BY DEF TasksOrdered
    <3>1. CASE j = Len(tasks) + 1
      BY <2>4, <2>5, <3>1
    <3>2. CASE j # Len(tasks) + 1
      BY <1>0, <2>4, <3>2 DEF PublicationInv, TasksOrdered
    <3>3. QED
      BY <3>1, <3>2
  <2>7. LastIsNewestTask'
    BY <2>1, <2>4 DEF LastIsNewestTask
  <2>8. StreamOrdered' /\ StreamBelowArchived' /\ LastBelowStream'
    BY <1>a, <1>c, <2>1, <2>2
       DEF StreamOrdered, StreamBelowArchived, LastBelowStream
  <2>9. QED
    BY <2>6, <2>7, <2>8 DEF PublicationInv
<1>6. ASSUME NEW t \in TaskIds, PutValue(t) PROVE PublicationInv'
  <2> DEFINE r == [tasks[t] EXCEPT !.position = tasks[t].position + 1]
  <2>1. /\ t \in DOMAIN tasks
        /\ tasks' = [tasks EXCEPT ![t] = r]
        /\ UNCHANGED <<archived, stream, lastPublished>>
    BY <1>6 DEF PutValue
  <2>2. tasks[t] \in Task
    BY <1>0, <2>1, ElementOfSeq
  <2>2a. tasks[t].position < PiecesInSegment
    BY <1>6, <2>2 DEF PutValue, TaskDone, Task
  <2>3. r.segment = tasks[t].segment
    BY <2>2 DEF Task
  <2>4. /\ DOMAIN tasks' = DOMAIN tasks
        /\ \A i \in DOMAIN tasks : tasks'[i].segment = tasks[i].segment
    BY <2>1, <2>3
  <2>5. tasks # <<>> /\ tasks' # <<>> /\ Len(tasks') = Len(tasks)
    <3>1. tasks' \in Seq(Task)
      <4>1. r \in Task
        BY <2>2, <2>2a DEF Task
      <4>2. QED
        BY <1>0, <2>1, <4>1, ExceptSeq
    <3>2. QED
      BY <1>0, <2>1, <2>4, <3>1, LenProperties
  <2>6. QED
    BY <2>1, <2>4, <2>5
       DEF PublicationInv, TasksOrdered, LastIsNewestTask, StreamOrdered,
           StreamBelowArchived, LastBelowStream
<1>7. CASE UNCHANGED vars
  BY <1>7 DEF vars, PublicationInv, TasksOrdered, LastIsNewestTask,
              StreamOrdered, StreamBelowArchived, LastBelowStream
<1>8. QED
  BY <1>1, <1>2, <1>3, <1>4, <1>5, <1>6, <1>7
     DEF Next, Environment, ReceiveNotification

(* No duplicate publication: within one run of the node, no segment is    *)
(* handed to two publishing tasks, for every number of segments,          *)
(* notifications and restarts.  The repeat check compares only with the   *)
(* last published segment; PublicationInv shows that this suffices        *)
(* because the notifications of one run never go back to a smaller       *)
(* segment.                                                               *)
THEOREM NoDuplicates == Spec => []NoDuplicatePublication
<1>1. Init => PublicationInv
  BY PublicationInvInit
<1>2. TypeOK /\ PublicationInv /\ [Next]_vars => PublicationInv'
  BY PublicationInvNext
<1>3. TypeOK /\ PublicationInv => NoDuplicatePublication
  <2> SUFFICES ASSUME TypeOK, PublicationInv,
                      NEW s \in DOMAIN tasks, NEW t \in DOMAIN tasks, s # t
               PROVE  tasks[s].segment # tasks[t].segment
    BY DEF NoDuplicatePublication
  <2>1. DOMAIN tasks \subseteq Nat /\ tasks[s] \in Task /\ tasks[t] \in Task
    BY LenProperties, ElementOfSeq DEF TypeOK
  <2>2. tasks[s].segment \in Nat /\ tasks[t].segment \in Nat
    BY <2>1 DEF Task, Segments
  <2>3. s < t \/ t < s
    BY <2>1
  <2>4. QED
    BY <2>2, <2>3 DEF PublicationInv, TasksOrdered
<1>4. QED
  BY <1>1, <1>2, <1>3, TypeCorrect, PTL DEF Spec

-----------------------------------------------------------------------------
(* The refinement of PieceStore.                                          *)

(* Every task publishes a segment the upstream has already archived: its  *)
(* segment is at most the last published one, which came from the stream. *)
LEMMA TasksBelowArchived ==
  ASSUME TypeOK, PublicationInv, NEW t \in DOMAIN tasks
  PROVE  tasks[t].segment < archived
<1> DEFINE n == Len(tasks)
<1>1. /\ n \in Nat /\ DOMAIN tasks = 1 .. n /\ t \in 1 .. n
      /\ tasks[t] \in Task /\ tasks[n] \in Task
  BY LenProperties, ElementOfSeq DEF TypeOK
<1>2. tasks # <<>>
  BY <1>1
<1>3. lastPublished = tasks[n].segment /\ tasks[n].segment \in Nat
  BY <1>1, <1>2 DEF PublicationInv, LastIsNewestTask, Task, Segments
<1>4. tasks[n].segment < archived /\ archived \in Nat
  BY <1>3, NoneAssumption DEF PublicationInv, LastBelowStream, TypeOK
<1>5. t < n => tasks[t].segment < tasks[n].segment
  BY <1>1 DEF PublicationInv, TasksOrdered
<1>6. tasks[t].segment \in Nat
  BY <1>1 DEF Task, Segments
<1>7. CASE t = n
  BY <1>4, <1>7
<1>8. CASE t < n
  BY <1>3, <1>4, <1>5, <1>6, <1>8
<1>9. QED
  BY <1>1, <1>7, <1>8

LEMMA PublicationInvariant == Spec => []PublicationInv
BY PublicationInvInit, PublicationInvNext, TypeCorrect, PTL DEF Spec

(* The DSN archiver implements the piece store of spec.md, as long as no  *)
(* u64 piece index wraps: a successful put adds the piece it puts, which  *)
(* belongs to a segment already archived, and never loses another (a put  *)
(* under an occupied key writes the piece DhtConsistent already places    *)
(* there); ArchiveSegment is the abstract ArchiveSegment; everything else, *)
(* failed puts and restarts included, leaves the stored pieces alone.     *)
THEOREM PieceStoreRefinement == NoKeyWrap => (Spec => ImplementsPieceStore)
<1> SUFFICES ASSUME NoKeyWrap PROVE Spec => ImplementsPieceStore
  OBVIOUS
<1>1. Init => PS!Init
  BY DEF Init, PS!Init, StoredPieces
<1>2. TypeOK /\ DhtConsistent /\ PublicationInv /\ [Next]_vars
        => [PS!Next]_<<archived, StoredPieces>>
  <2> SUFFICES ASSUME TypeOK, DhtConsistent, PublicationInv, [Next]_vars
               PROVE  [PS!Next]_<<archived, StoredPieces>>
    OBVIOUS
  <2>1. ASSUME NEW t \in TaskIds, PutValue(t)
        PROVE  [PS!Next]_<<archived, StoredPieces>>
    <3> DEFINE seg == tasks[t].segment
               pos == tasks[t].position
               key == PieceKey(seg, pos)
               p == Piece(seg, pos)
    <3>1. t \in DOMAIN tasks /\ seg \in Segments /\ pos \in Positions
      <4>1. t \in 1 .. Len(tasks) /\ tasks[t] \in Task
        BY <2>1, ElementOfSeq DEF PutValue, TypeOK
      <4>2. pos < PiecesInSegment
        BY <2>1, <4>1 DEF PutValue, TaskDone, Task
      <4>3. QED
        BY <2>1, <4>1, <4>2 DEF PutValue, Task, Positions
    <3>2. key \in PieceIndices /\ PieceAt(key) = p
      BY <3>1, KeyInRange, PieceAtKey DEF Segments
    <3>3. archived' = archived
      BY <2>1 DEF PutValue
    <3>4. CASE dht' = dht
      BY <3>3, <3>4 DEF StoredPieces
    <3>5. CASE dht' = [dht EXCEPT ![key] = p]
      <4>1. p # NoPiece
        BY <3>1, NoneAssumption DEF Piece, NoPiece, Segments
      <4>2. dht[key] # NoPiece => dht[key] = p
        BY <3>2 DEF DhtConsistent
      <4>3. \A i \in PieceIndices : dht'[i] = IF i = key THEN p ELSE dht[i]
        BY <3>2, <3>5 DEF TypeOK
      <4>4. StoredPieces' = StoredPieces \cup {p}
        <5>1. ASSUME NEW x \in StoredPieces' PROVE x \in StoredPieces \cup {p}
          BY <4>3 DEF StoredPieces
        <5>2. ASSUME NEW x \in StoredPieces PROVE x \in StoredPieces'
          BY <3>2, <4>2, <4>3 DEF StoredPieces
        <5>3. p \in StoredPieces'
          BY <3>2, <4>1, <4>3 DEF StoredPieces
        <5>4. QED
          BY <5>1, <5>2, <5>3
      <4>5. p \in PS!Pieces /\ p.segment < archived
        BY <3>1, TasksBelowArchived DEF Piece, PS!Pieces, PS!Segments,
                                        PS!Positions, Segments, Positions
      <4>6. QED
        BY <3>3, <4>4, <4>5 DEF PS!Next, PS!StorePiece
    <3>6. QED
      BY <2>1, <3>4, <3>5 DEF PutValue
  <2>2. CASE ArchiveSegment
    BY <2>2 DEF ArchiveSegment, PS!Next, PS!ArchiveSegment, StoredPieces
  <2>3. CASE RenotifySegment \/ Restart \/ SkipSegment \/ PublishSegment
    BY <2>3 DEF RenotifySegment, Restart, SkipSegment, PublishSegment, StoredPieces
  <2>4. CASE UNCHANGED vars
    BY <2>4 DEF vars, StoredPieces
  <2>5. QED
    BY <2>1, <2>2, <2>3, <2>4 DEF Next, Environment, ReceiveNotification
<1>3. QED
  BY <1>1, <1>2, TypeCorrect, DhtConsistency, PublicationInvariant, PTL
     DEF Spec, ImplementsPieceStore, PS!Spec
=============================================================================
