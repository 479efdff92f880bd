------------------------------ MODULE PieceStore ------------------------------
(***************************************************************************)
(* What the DSN promises of archived pieces (spec.md 2): a piece exists    *)
(* once its segment is archived, it is identified by its position, and it  *)
(* is immutable.  So the pieces the network stores only ever grow, by      *)
(* pieces of segments already archived, and none is lost or changed.      *)
(***************************************************************************)
EXTENDS Naturals

CONSTANTS
  PiecesInSegment,   \* pieces of one archived segment
  MaxSegmentIndex    \* largest segment index that is archived

VARIABLES
  archived,   \* index of the next segment to be archived
  stored      \* the pieces the network stores

Segments == 0 .. MaxSegmentIndex
Positions == 0 .. PiecesInSegment - 1
Pieces == [segment : Segments, position : Positions]

Init ==
  /\ archived = 0
  /\ stored = {}

(* The next segment is archived. *)
ArchiveSegment ==
  /\ archived <= MaxSegmentIndex
  /\ archived' = archived + 1
  /\ UNCHANGED stored

(* A piece of an archived segment is stored. *)
StorePiece ==
  /\ \E p \in Pieces : p.segment < archived /\ stored' = stored \cup {p}
  /\ UNCHANGED archived

Next == ArchiveSegment \/ StorePiece

Spec == Init /\ [][Next]_<<archived, stored>>
=============================================================================
