------------------------- MODULE SegmentHeaderChain -------------------------
(***************************************************************************)
(* The segment header chain (subspace-core-primitives, lib.rs):            *)
(* ArchivedBlockProgress, LastArchivedBlock with its mutators, and         *)
(* SegmentHeader::V0 with its accessors and hash.  The archiver that       *)
(* drives them is not in this repository; its steps are modelled from      *)
(* spec.md (3, 4.2, 4.4): block data is cut into segments of SegmentSize   *)
(* bytes, a block that does not fit is archived partially and its          *)
(* progress is recorded with set_partial_archived, a block that ends in    *)
(* the segment is recorded with set_complete, and a closed segment gets a  *)
(* header that records the last archived block and the hash of the        *)
(* previous header.                                                        *)
(***************************************************************************)
EXTENDS Naturals, Sequences

CONSTANTS
  SegmentSize,   \* bytes of block data in one segment
  BlockSizes,    \* the sizes a block may have
  MaxBlocks,     \* bound on the blocks the chain produces
  Complete,      \* ArchivedBlockProgress::Complete
  None,          \* Option::None
  GenesisHash    \* prev_segment_header_hash of the first header

ASSUME SegmentSizeAssumption == SegmentSize \in Nat \ {0}
ASSUME BlockSizesAssumption ==
  BlockSizes # {} /\ BlockSizes \subseteq Nat \ {0} /\ MaxBlocks \in Nat
ASSUME ModelValuesAssumption ==
  Complete \notin Nat /\ None \notin Nat /\ None # Complete

VARIABLES
  history,            \* sizes of the blocks received so far, in order
  pending,            \* bytes of the newest block not yet archived
  buffer,             \* bytes of block data in the open segment
  lastArchivedBlock,  \* the archiver's LastArchivedBlock
  chain,              \* the segment headers produced, in order
  received,           \* history variable: block bytes received so far
  starts              \* history variable: starts[k] = bytes before block k-1

(* `received` and `starts` record what the behaviour has done; no guard   *)
(* reads them and no code holds them.  They make the position of a block  *)
(* in the concatenated history a state function, so that the refinement   *)
(* mapping below needs no sum over the history.                           *)
vars == <<history, pending, buffer, lastArchivedBlock, chain, received, starts>>

-----------------------------------------------------------------------------
(* lib.rs: ArchivedBlockProgress is Complete or Partial(bytes); a partial  *)
(* progress is represented by its byte count.                             *)
DefaultProgress == Complete

PartialOf(progress) == IF progress = Complete THEN None ELSE progress

SetPartial(progress, newPartial) == newPartial

\* LastArchivedBlock { number, archived_progress } and its methods.
PartialArchived(lab) == PartialOf(lab.archived_progress)

SetPartialArchived(lab, newPartial) ==
  [lab EXCEPT !.archived_progress = SetPartial(@, newPartial)]

SetComplete(lab) == [lab EXCEPT !.archived_progress = Complete]

\* SegmentHeader::V0 and its accessors.
SegmentHeaderV0(index, commitment, prevHash, lab) ==
  [segment_index |-> index, segment_commitment |-> commitment,
   prev_segment_header_hash |-> prevHash, last_archived_block |-> lab]

SegmentIndexOf(header) == header.segment_index
PrevSegmentHeaderHash(header) == header.prev_segment_header_hash
LastArchivedBlockOf(header) == header.last_archived_block

\* SegmentHeader::hash: BLAKE2b-256 of the SCALE encoding.  The encoding is
\* injective and the hash is taken to be collision-free, so a digest is a
\* value that determines the header it was computed from.
HeaderHash(header) == [blake2b_256_of |-> header]

-----------------------------------------------------------------------------
\* The segment commitment stands for the bytes the segment holds: its range
\* in the concatenated block data.
CommitmentOf(index) == <<index * SegmentSize, (index + 1) * SegmentSize>>

Init ==
  /\ history = <<>>
  /\ pending = 0
  /\ buffer = 0
  /\ lastArchivedBlock = [number |-> 0, archived_progress |-> DefaultProgress]
  /\ chain = <<>>
  /\ received = 0
  /\ starts = <<>>

(* The archiver receives the next block (block numbers start at 0); the   *)
(* previous one has been archived completely.                             *)
AddBlock ==
  /\ pending = 0
  /\ Len(history) < MaxBlocks
  /\ \E size \in BlockSizes :
       /\ history' = Append(history, size)
       /\ pending' = size
       /\ starts' = Append(starts, received)
       /\ received' = received + size
  /\ UNCHANGED <<buffer, lastArchivedBlock, chain>>

\* Faulty variant (mutant): the room check dropped, so the whole rest of
\* the block goes into the open segment.
FitsAlways(rest, room) == TRUE

\* Faulty variant (mutant): a block that exactly fills the rest of the
\* segment is not taken to end in it.
FitsStrictly(rest, room) == rest < room

\* The rest of the newest block fits into the room left in the segment.
Fits(rest, room) == rest <= room

\* Faulty variant (mutant): the bytes archived in earlier segments
\* forgotten, so the partial count is that of this segment only.
ArchivedSoFarReset(lab) == 0

\* The bytes of the current block archived in earlier segments.
ArchivedSoFar(lab) ==
  IF PartialArchived(lab) = None THEN 0 ELSE PartialArchived(lab)

(* The archiver moves as much of the newest block as fits into the open   *)
(* segment.  If the rest of the block fits, the block is complete          *)
(* (set_complete); otherwise set_partial_archived records all the bytes    *)
(* of the block archived so far.                                          *)
ArchiveBytes ==
  /\ pending > 0
  /\ buffer < SegmentSize
  /\ LET room == SegmentSize - buffer
         fit == IF Fits(pending, room) THEN pending ELSE room
         lab == [number |-> Len(history) - 1,
                 archived_progress |-> lastArchivedBlock.archived_progress]
     IN  /\ lastArchivedBlock' =
              IF Fits(pending, room)
                THEN SetComplete(lab)
                ELSE SetPartialArchived(lab, ArchivedSoFar(lab) + fit)
         /\ buffer' = buffer + fit
         /\ pending' = pending - fit
  /\ UNCHANGED <<history, chain, received, starts>>

\* The hash of the newest header: what the next header links to.
PrevHash ==
  IF chain = <<>> THEN GenesisHash ELSE HeaderHash(chain[Len(chain)])

\* The open segment holds SegmentSize bytes.
SegmentFull(bytes) == bytes = SegmentSize

(* A full segment is closed: its header records the segment index, the   *)
(* commitment, the hash of the previous header and the last archived      *)
(* block as it stands now, and is appended to the chain.                  *)
CloseSegment ==
  /\ SegmentFull(buffer)
  /\ chain' = Append(chain, SegmentHeaderV0(Len(chain), CommitmentOf(Len(chain)),
                                            PrevHash, lastArchivedBlock))
  /\ buffer' = 0
  /\ UNCHANGED <<history, pending, lastArchivedBlock, received, starts>>

Archive == ArchiveBytes \/ CloseSegment

Next == AddBlock \/ Archive

(* No step is assumed fair: the properties of this module are safety     *)
(* properties.                                                            *)
Spec == Init /\ [][Next]_vars

-----------------------------------------------------------------------------
Progress == Nat \cup {Complete}

\* LastArchivedBlock { number: u32, archived_progress }.
LastArchivedBlocks == [number : Nat, archived_progress : Progress]

\* The values a prev_segment_header_hash may hold: the genesis sentinel or
\* the hash of a header of the chain.
ChainHashes == {GenesisHash} \cup {HeaderHash(chain[i]) : i \in DOMAIN chain}

\* SegmentHeader::V0 with its four fields; the commitment stands for a byte
\* range of the concatenated block data.
SegmentHeaders ==
  [segment_index : Nat, segment_commitment : Nat \X Nat,
   prev_segment_header_hash : ChainHashes,
   last_archived_block : LastArchivedBlocks]

(* Type correctness: the open segment never holds more than SegmentSize  *)
(* bytes, the progress record is a LastArchivedBlock, and every header    *)
(* links to the genesis sentinel or to the hash of a header of the chain. *)
TypeOK ==
  /\ history \in Seq(BlockSizes)
  /\ pending \in Nat
  /\ buffer \in 0 .. SegmentSize
  /\ lastArchivedBlock \in LastArchivedBlocks
  /\ chain \in Seq(SegmentHeaders)

(* The history position a recorded last archived block stands for: the   *)
(* bytes of the blocks before it (`starts`), plus all of the block when   *)
(* it is Complete or the partial count when it is Partial.               *)
CutOf(lab) ==
  starts[lab.number + 1]
    + IF PartialArchived(lab) = None THEN history[lab.number + 1]
      ELSE PartialArchived(lab)

\* The history positions the headers' last archived blocks mark, in order.
HeaderCuts ==
  [i \in DOMAIN chain |-> CutOf(LastArchivedBlockOf(chain[i]))]

(* Refinement: the chain implements the archived history of spec.md.      *)
(* Under the mapping, header i's last archived block must mark exactly    *)
(* the end of segment i, whatever the block sizes and however often       *)
(* set_partial_archived and set_complete were called in between.          *)
AH == INSTANCE ArchivedHistory WITH received <- received, cuts <- HeaderCuts

ImplementsArchivedHistory == AH!Spec

(* A Partial progress in a header is a strict part of its block: a block  *)
(* that ends exactly at the segment end is recorded as Complete, and no   *)
(* header records Partial(0).                                             *)
PartialIsStrict ==
  \A i \in DOMAIN chain :
    LET lab == LastArchivedBlockOf(chain[i])
    IN  PartialArchived(lab) # None =>
          PartialArchived(lab) \in 1 .. history[lab.number + 1] - 1

=============================================================================
