----------------------------- MODULE DsnArchiver -----------------------------
(***************************************************************************)
(* The DSN archiver of subspace-service (src/crates/subspace-service/      *)
(* src/dsn.rs, start_dsn_archiver).  One loop receives archived-segment    *)
(* notifications in order; for every segment that is not a repeat of the   *)
(* last one it spawned, it spawns a "segment-publishing" task that puts    *)
(* the segment's pieces into the DHT one by one, keyed by piece index.     *)
(* Every put_value is an await point, so the tasks of different segments   *)
(* and the loop interleave piece by piece.  A put_value may fail; its      *)
(* result is only traced.  The node may restart, which loses the loop's    *)
(* in-memory state, the queued notifications and the running tasks.        *)
(*                                                                         *)
(* The upstream producer of notifications (the consensus archiver, not in  *)
(* this excerpt) is the environment: it announces segments in index order  *)
(* and may repeat the announcement of its newest segment.                  *)
(***************************************************************************)
EXTENDS Naturals, Sequences

CONSTANTS
  PiecesInSegment,   \* PIECES_IN_SEGMENT: pieces of one archived segment
  MaxSegmentIndex,   \* largest segment index the environment archives
  MaxNotifications,  \* bound on the notifications the environment emits
  MaxRestarts,       \* bound on node restarts
  PieceIndexModulus, \* 2^64: piece indices are u64
  PutOutcomes,       \* the results a put_value may have: TRUE is Ok
  None               \* Option::None of last_published_segment_index

ASSUME PiecesInSegmentAssumption == PiecesInSegment \in Nat \ {0}
ASSUME MaxSegmentIndexAssumption == MaxSegmentIndex \in Nat
ASSUME BoundsAssumption == MaxNotifications \in Nat /\ MaxRestarts \in Nat
ASSUME NoneAssumption == None \notin Nat
ASSUME PutOutcomesAssumption == PutOutcomes \subseteq BOOLEAN /\ PutOutcomes # {}
ASSUME PieceIndexModulusAssumption == PieceIndexModulus \in Nat \ {0}

VARIABLES
  archived,       \* upstream: index of the next segment it will archive
  stream,         \* archived_segment_notification_stream: queued indices
  notified,       \* notifications emitted so far (bounded)
  lastPublished,  \* last_published_segment_index
  tasks,          \* spawned segment-publishing tasks of this run
  dht,            \* the DHT: piece index -> stored piece or NoPiece
  published,      \* history: segments a task was ever spawned for
  restarts        \* restarts so far (bounded)

vars == <<archived, stream, notified, lastPublished, tasks, dht, published,
          restarts>>

Segments == 0 .. MaxSegmentIndex
PieceIndices == 0 .. PieceIndexModulus - 1
Positions == 0 .. PiecesInSegment - 1

\* The piece at `position` of the archived segment `segment`.  Pieces are
\* abstracted to their origin, which is all the properties tell apart.
Piece(segment, position) == [segment |-> segment, position |-> position]
Pieces == [segment : Segments, position : Positions]
NoPiece == [segment |-> None, position |-> None]

\* Faulty variant (mutant): the first piece index shifted by one.
FirstPieceIndexShifted(segment) == (segment * PiecesInSegment + 1) % PieceIndexModulus

\* The first piece index of a segment (first_piece_index): an unchecked
\* u64 product, which wraps in a release build.
FirstPieceIndex(segment) == (segment * PiecesInSegment) % PieceIndexModulus

\* The key of the piece at `position`: the position-th index of the u64
\* range (first_piece_index..) in keys_iter, which wraps likewise.
PieceKey(segment, position) ==
  (FirstPieceIndex(segment) + position) % PieceIndexModulus

\* A spawned task: the segment it publishes and the position of the next
\* (key, piece) pair of keys_iter.zip(pieces) it will put.
Task == [segment : Segments, position : 0 .. PiecesInSegment]
TaskIds == 1 .. MaxNotifications

-----------------------------------------------------------------------------
Init ==
  /\ archived = 0
  /\ stream = <<>>
  /\ notified = 0
  /\ lastPublished = None
  /\ tasks = <<>>
  /\ dht = [i \in PieceIndices |-> NoPiece]
  /\ published = {}
  /\ restarts = 0

(* Environment: the upstream archiver finishes its next segment and       *)
(* notifies the stream.                                                   *)
ArchiveSegment ==
  /\ archived <= MaxSegmentIndex
  /\ notified < MaxNotifications
  /\ stream' = Append(stream, archived)
  /\ archived' = archived + 1
  /\ notified' = notified + 1
  /\ UNCHANGED <<lastPublished, tasks, dht, published, restarts>>

(* Environment: the upstream repeats the notification of its newest       *)
(* segment, the repetition the loop's skip is written for.                *)
RenotifySegment ==
  /\ archived > 0
  /\ notified < MaxNotifications
  /\ stream' = Append(stream, archived - 1)
  /\ notified' = notified + 1
  /\ UNCHANGED <<archived, lastPublished, tasks, dht, published, restarts>>

(* One loop iteration that receives a repeat of the last published        *)
(* segment: it is skipped (`continue`).                                   *)
SkipSegment ==
  /\ stream # <<>>
  /\ lastPublished = Head(stream)
  /\ stream' = Tail(stream)
  /\ UNCHANGED <<archived, notified, lastPublished, tasks, dht, published,
                 restarts>>

\* Faulty variant (mutant): the repeat check dropped.
PublishSegmentNoSkip ==
  /\ stream # <<>>
  /\ tasks' = Append(tasks, [segment |-> Head(stream), position |-> 0])
  /\ lastPublished' = Head(stream)
  /\ published' = published \cup {Head(stream)}
  /\ stream' = Tail(stream)
  /\ UNCHANGED <<archived, notified, dht, restarts>>

(* One loop iteration that receives any other segment: it spawns the      *)
(* publishing task and records the segment as the last published one,     *)
(* without waiting for the task.                                          *)
PublishSegment ==
  /\ stream # <<>>
  /\ lastPublished # Head(stream)
  /\ tasks' = Append(tasks, [segment |-> Head(stream), position |-> 0])
  /\ lastPublished' = Head(stream)
  /\ published' = published \cup {Head(stream)}
  /\ stream' = Tail(stream)
  /\ UNCHANGED <<archived, notified, dht, restarts>>

\* Faulty variants (mutants) of TaskDone: the zip's end off by one.
TaskDoneLate(task) == task.position = PiecesInSegment + 1
TaskDoneEarly(task) == task.position = PiecesInSegment - 1

\* The task's for loop over keys_iter.zip(pieces) has run out of pairs.
TaskDone(task) == task.position = PiecesInSegment

(* One iteration of task t's loop: put_value of the next piece under the  *)
(* key of its piece index.  The put succeeds or fails (as PutOutcomes     *)
(* allows); either way the task moves on to the next piece (the result is *)
(* only traced).                                                          *)
PutValue(t) ==
  /\ t \in DOMAIN tasks
  /\ ~TaskDone(tasks[t])
  /\ LET seg == tasks[t].segment
         pos == tasks[t].position
     IN  \E succeeded \in PutOutcomes :
           dht' = IF succeeded
                    THEN [dht EXCEPT ![PieceKey(seg, pos)] = Piece(seg, pos)]
                    ELSE dht
  /\ tasks' = [tasks EXCEPT ![t].position = @ + 1]
  /\ UNCHANGED <<archived, stream, notified, lastPublished, published,
                 restarts>>

(* The node restarts: the loop starts again with no last published        *)
(* segment, the running tasks are gone and queued notifications are lost. *)
(* The upstream keeps its archiving progress and the DHT keeps its data.  *)
Restart ==
  /\ restarts < MaxRestarts
  /\ lastPublished' = None
  /\ tasks' = <<>>
  /\ stream' = <<>>
  /\ restarts' = restarts + 1
  /\ UNCHANGED <<archived, notified, dht, published>>

Environment == ArchiveSegment \/ RenotifySegment \/ Restart

ReceiveNotification == SkipSegment \/ PublishSegment

Next ==
  \/ Environment
  \/ ReceiveNotification
  \/ \E t \in TaskIds : PutValue(t)

(* The loop is polled whenever a notification is queued, and the executor *)
(* runs every spawned task; each put_value returns (Kademlia queries end  *)
(* with a result or a timeout).  The environment is not fair.             *)
Fairness ==
  /\ WF_vars(ReceiveNotification)
  /\ \A t \in TaskIds : WF_vars(PutValue(t))

Spec == Init /\ [][Next]_vars /\ Fairness

-----------------------------------------------------------------------------
TypeOK ==
  /\ archived \in 0 .. MaxSegmentIndex + 1
  /\ stream \in Seq(Segments)
  /\ notified \in 0 .. MaxNotifications
  /\ lastPublished \in Segments \cup {None}
  /\ tasks \in Seq(Task)
  /\ dht \in [PieceIndices -> Pieces \cup {NoPiece}]
  /\ published \subseteq Segments
  /\ restarts \in 0 .. MaxRestarts

(* DHT consistency: whatever concurrent tasks put, and in whatever order, *)
(* the value stored under a piece index is the piece with that index,     *)
(* i.e. the keys computed from first_piece_index in the loop stay aligned *)
(* with the pieces the task zips them with, and no two pieces share a     *)
(* key (spec.md 4.2: an index identifies one piece uniquely).             *)
PieceAt(i) == Piece(i \div PiecesInSegment, i % PiecesInSegment)

DhtConsistent ==
  \A i \in PieceIndices : dht[i] # NoPiece => dht[i] = PieceAt(i)

(* No duplicate publication: within one run of the node, the skip of      *)
(* repeated notifications keeps any segment from being handed to two      *)
(* publishing tasks.                                                      *)
NoDuplicatePublication ==
  \A s, t \in DOMAIN tasks : s # t => tasks[s].segment # tasks[t].segment

(* Quiescence: once the environment stops, every queued notification is  *)
(* received and every spawned task puts its last piece ("Segment          *)
(* processed").                                                           *)
EventuallyQuiescent ==
  <>[](/\ stream = <<>>
       /\ \A t \in DOMAIN tasks : tasks[t].position = PiecesInSegment)

\* The pieces the DHT holds, whatever their keys.
StoredPieces == {dht[i] : i \in {j \in PieceIndices : dht[j] # NoPiece}}

(* Refinement: the archiver implements the piece store of spec.md.  Under *)
(* the mapping, every step of the loop, of the tasks' puts (failed or     *)
(* not, in any interleaving) and of a restart must leave the stored       *)
(* pieces as they were or add one piece of a segment already archived:    *)
(* a put that overwrote another piece would lose it, and a task of a      *)
(* segment not yet archived would store a piece that does not exist.     *)
PS == INSTANCE PieceStore WITH archived <- archived, stored <- StoredPieces

ImplementsPieceStore == PS!Spec

(* The piece indices of every segment fit in a u64, so no key wraps.     *)
NoKeyWrap == (MaxSegmentIndex + 1) * PiecesInSegment <= PieceIndexModulus

(* Every segment handed to a publishing task ends up entirely in the DHT. *)
FullyStored(s) ==
  \A p \in Positions : dht[PieceKey(s, p)] = Piece(s, p)

EveryPublishedSegmentStored ==
  \A s \in Segments : (s \in published) ~> FullyStored(s)
=============================================================================
