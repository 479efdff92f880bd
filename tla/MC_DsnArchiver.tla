--------------------------- MODULE MC_DsnArchiver ---------------------------
(* Small instance of the DSN archiver: three segments of two pieces, up to *)
(* five notifications (so a repeat and a restart both fit) and one restart. *)
(* The piece index range is exactly as large as the three segments need,   *)
(* the boundary of NoKeyWrap; the wrap run narrows it so that segment 2's  *)
(* indices wrap onto segment 0's, as u64 indices do past 2^64.  Puts may   *)
(* fail, except in the restart run, where every put succeeds so that the  *)
(* only way to lose a piece is a restart.                                 *)
EXTENDS DsnArchiver

MC_PiecesInSegment == 2
MC_MaxSegmentIndex == 2
MC_MaxNotifications == 5
MC_MaxRestarts == 1
MC_PieceIndexModulus == (MC_MaxSegmentIndex + 1) * MC_PiecesInSegment
MC_PieceIndexModulusNarrow == 4
MC_AnyPutOutcome == BOOLEAN
MC_PutsSucceed == {TRUE}
=============================================================================
