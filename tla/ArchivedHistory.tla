--------------------------- MODULE ArchivedHistory ---------------------------
(***************************************************************************)
(* What the segment header chain promises (spec.md, 3 and 4.4): the chain  *)
(* is append-only, and segment i of the archived history holds exactly    *)
(* the bytes [i * SegmentSize, (i+1) * SegmentSize) of the concatenated    *)
(* block data.  A segment is committed only once that many bytes exist.    *)
(* `cuts[i]` is the history position at which segment i ends: the number   *)
(* of block bytes archived up to and including that segment.               *)
(***************************************************************************)
EXTENDS Naturals, Sequences

CONSTANTS
  SegmentSize,   \* bytes of block data in one segment
  BlockSizes,    \* the sizes a block may have
  MaxBlocks      \* bound on the blocks the chain produces

VARIABLES
  history,   \* the sizes of the blocks received so far, in order
  received,  \* the number of block bytes received so far
  cuts       \* cuts[i]: history position at which segment i ends

avars == <<history, received, cuts>>

Init ==
  /\ history = <<>>
  /\ received = 0
  /\ cuts = <<>>

(* The chain produces a block of some size. *)
ReceiveBlock ==
  /\ Len(history) < MaxBlocks
  /\ \E size \in BlockSizes :
       /\ history' = Append(history, size)
       /\ received' = received + size
  /\ UNCHANGED cuts

(* The next segment is committed once enough bytes have been received. *)
CommitSegment ==
  /\ (Len(cuts) + 1) * SegmentSize <= received
  /\ cuts' = Append(cuts, (Len(cuts) + 1) * SegmentSize)
  /\ UNCHANGED <<history, received>>

Next == ReceiveBlock \/ CommitSegment

Spec == Init /\ [][Next]_avars
=============================================================================
