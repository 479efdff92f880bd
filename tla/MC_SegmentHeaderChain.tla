------------------------ MODULE MC_SegmentHeaderChain ------------------------
(* A small instance: segments of 2 bytes and blocks of 1, 2 or 5 bytes,   *)
(* so that blocks end inside a segment, exactly at its end, and span      *)
(* three segments.                                                        *)
EXTENDS SegmentHeaderChain

MC_SegmentSize == 2
MC_BlockSizes == {1, 2, 5}
MC_MaxBlocks == 4
=============================================================================
