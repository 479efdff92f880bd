---------------------- MODULE SegmentHeaderChain_proofs ----------------------
(***************************************************************************)
(* Proofs about the segment header chain, for every segment size, every   *)
(* set of block sizes and every bound on the blocks.                      *)
(***************************************************************************)
EXTENDS SegmentHeaderChain, SequenceTheorems, TLAPS

USE SegmentSizeAssumption, BlockSizesAssumption, ModelValuesAssumption

(* Appending to a sequence extends its domain by one and keeps the       *)
(* elements before the new one.                                           *)
LEMMA AppendShape ==
  ASSUME NEW S, NEW s \in Seq(S), NEW e
  PROVE  /\ DOMAIN Append(s, e) = 1 .. Len(s) + 1
         /\ \A i \in 1 .. Len(s) : Append(s, e)[i] = s[i]
         /\ Append(s, e)[Len(s) + 1] = e
<1>1. s \in Seq(S \cup {e})
  BY SeqMonotonic
<1>2. /\ Append(s, e) \in Seq(S \cup {e})
      /\ Len(Append(s, e)) = Len(s) + 1
      /\ \A i \in 1 .. Len(s) : Append(s, e)[i] = s[i]
      /\ Append(s, e)[Len(s) + 1] = e
  BY <1>1, AppendProperties
<1>3. QED
  BY <1>2, LenProperties

(* The mutators of LastArchivedBlock keep it well typed. *)
LEMMA MutatorsTyped ==
  ASSUME NEW lab \in LastArchivedBlocks, NEW n \in Nat
  PROVE  /\ SetComplete(lab) \in LastArchivedBlocks
         /\ SetPartialArchived(lab, n) \in LastArchivedBlocks
         /\ ArchivedSoFar(lab) \in Nat
BY DEF SetComplete, SetPartialArchived, SetPartial, ArchivedSoFar,
       PartialArchived, PartialOf, LastArchivedBlocks, Progress

(* The header type mentions the chain's own hashes, so a step that leaves *)
(* the chain alone leaves the type alone.                                 *)
LEMMA HeaderTypeUnchanged == chain' = chain => SegmentHeaders' = SegmentHeaders
BY DEF SegmentHeaders, ChainHashes

(* Every header of a well-typed chain records a well-typed last archived  *)
(* block.                                                                 *)
LEMMA ChainLabsTyped ==
  ASSUME TypeOK
  PROVE  \A i \in DOMAIN chain : LastArchivedBlockOf(chain[i]) \in LastArchivedBlocks
<1>1. chain \in [1 .. Len(chain) -> SegmentHeaders] /\ DOMAIN chain = 1 .. Len(chain)
  BY LenProperties DEF TypeOK
<1>2. QED
  BY <1>1 DEF SegmentHeaders, LastArchivedBlockOf

(* TypeOK with the fact it needs to be inductive: a block is pending     *)
(* only once one has been received, so the archiver's block number is a   *)
(* natural number.                                                        *)
IInv == TypeOK /\ (pending > 0 => Len(history) > 0)

LEMMA IInvInit == Init => IInv
<1> SUFFICES ASSUME Init PROVE IInv
  OBVIOUS
<1>1. chain \in Seq(SegmentHeaders)
  BY EmptySeq DEF Init
<1>2. QED
  BY <1>1, EmptySeq DEF Init, IInv, TypeOK, LastArchivedBlocks, Progress,
                        DefaultProgress

LEMMA IInvNext == IInv /\ [Next]_vars => IInv'
<1> SUFFICES ASSUME IInv, [Next]_vars PROVE IInv'
  OBVIOUS
<1>1. CASE AddBlock
  <2>1. PICK size \in BlockSizes : history' = Append(history, size) /\ pending' = size
    BY <1>1 DEF AddBlock
  <2>2. history' \in Seq(BlockSizes) /\ Len(history') > 0
    BY <2>1, AppendProperties DEF IInv, TypeOK
  <2>3. chain' = chain
    BY <1>1 DEF AddBlock
  <2>4. QED
    BY <1>1, <2>1, <2>2, <2>3, HeaderTypeUnchanged DEF AddBlock, IInv, TypeOK
<1>2. CASE ArchiveBytes
  <2> DEFINE room == SegmentSize - buffer
             fit == IF Fits(pending, room) THEN pending ELSE room
             lab == [number |-> Len(history) - 1,
                    archived_progress |-> lastArchivedBlock.archived_progress]
  <2>1. Len(history) \in Nat \ {0}
    BY <1>2, LenProperties DEF ArchiveBytes, IInv, TypeOK
  <2>2. lab \in LastArchivedBlocks
    BY <2>1 DEF IInv, TypeOK, LastArchivedBlocks
  <2>3. fit \in 1 .. room /\ fit <= pending /\ room \in 1 .. SegmentSize
    BY <1>2 DEF ArchiveBytes, Fits, IInv, TypeOK
  <2>4. lastArchivedBlock' \in LastArchivedBlocks
    <3>1. ArchivedSoFar(lab) + fit \in Nat
      BY <2>2, <2>3, MutatorsTyped
    <3>2. QED
      BY <1>2, <2>2, <3>1, MutatorsTyped DEF ArchiveBytes
  <2>5. buffer' \in 0 .. SegmentSize /\ pending' \in Nat
    BY <1>2, <2>3 DEF ArchiveBytes, IInv, TypeOK
  <2>6. chain' = chain
    BY <1>2 DEF ArchiveBytes
  <2>7. QED
    BY <1>2, <2>1, <2>4, <2>5, <2>6, HeaderTypeUnchanged
       DEF ArchiveBytes, IInv, TypeOK
<1>3. CASE CloseSegment
  <2> DEFINE header == SegmentHeaderV0(Len(chain), CommitmentOf(Len(chain)),
                                       PrevHash, lastArchivedBlock)
  <2>1. chain' = Append(chain, header) /\ chain \in Seq(SegmentHeaders)
    BY <1>3 DEF CloseSegment, IInv, TypeOK
  <2>2. /\ DOMAIN chain' = 1 .. Len(chain) + 1
        /\ \A i \in 1 .. Len(chain) : chain'[i] = chain[i]
        /\ chain'[Len(chain) + 1] = header
    BY <2>1, AppendShape
  <2>3. DOMAIN chain = 1 .. Len(chain) /\ Len(chain) \in Nat
    BY <2>1, LenProperties
  <2>4. ChainHashes \subseteq ChainHashes'
    BY <2>2, <2>3 DEF ChainHashes
  <2>5. chain \in Seq(SegmentHeaders')
    <3>1. SegmentHeaders \subseteq SegmentHeaders'
      BY <2>4 DEF SegmentHeaders
    <3>2. QED
      BY <2>1, <3>1, SeqMonotonic
  <2>6. PrevHash \in ChainHashes'
    <3>1. CASE chain = <<>>
      BY <3>1 DEF PrevHash, ChainHashes
    <3>2. CASE chain # <<>>
      <4>0. Len(chain) # 0
        BY <2>1, <3>2, EmptySeq
      <4>1. Len(chain) \in DOMAIN chain' /\ chain'[Len(chain)] = chain[Len(chain)]
        BY <2>2, <2>3, <4>0
      <4>2. QED
        BY <3>2, <4>1 DEF PrevHash, ChainHashes
    <3>3. QED
      BY <3>1, <3>2
  <2>7. header \in SegmentHeaders'
    BY <2>3, <2>6, SegmentSizeAssumption
       DEF SegmentHeaderV0, CommitmentOf, SegmentHeaders, IInv, TypeOK
  <2>8. chain' \in Seq(SegmentHeaders')
    BY <2>1, <2>5, <2>7, AppendProperties
  <2>9. UNCHANGED <<history, pending, lastArchivedBlock>> /\ buffer' = 0
    BY <1>3 DEF CloseSegment
  <2>10. QED
    BY <2>8, <2>9 DEF IInv, TypeOK
<1>4. CASE UNCHANGED vars
  <2>1. chain' = chain
    BY <1>4 DEF vars
  <2>2. QED
    BY <1>4, <2>1, HeaderTypeUnchanged DEF vars, IInv, TypeOK
<1>5. QED
  BY <1>1, <1>2, <1>3, <1>4 DEF Next, Archive

(* Type correctness of the archiver and of the chain it builds. *)
THEOREM TypeCorrect == Spec => []TypeOK
<1>1. Spec => []IInv
  BY IInvInit, IInvNext, PTL DEF Spec
<1>2. QED
  BY <1>1, PTL DEF IInv

(* The archiver's progress record and the pending bytes agree: a Partial *)
(* progress belongs to the newest block, is a strict part of it, and the  *)
(* rest of that block is pending; with a Complete progress, a pending     *)
(* block has not been started.  Headers keep what they recorded, and the  *)
(* block a Partial header names stays in the history.                     *)
ProgressInv ==
  LET lab == lastArchivedBlock
      newest == history[Len(history)]
  IN  /\ PartialArchived(lab) # None =>
           /\ Len(history) > 0
           /\ lab.number = Len(history) - 1
           /\ lab.archived_progress \in 1 .. newest - 1
           /\ pending = newest - lab.archived_progress
      /\ PartialArchived(lab) = None /\ pending > 0 => pending = newest

HeadersInv ==
  \A i \in DOMAIN chain :
    LET lab == LastArchivedBlockOf(chain[i])
    IN  PartialArchived(lab) # None =>
          /\ lab.number \in 0 .. Len(history) - 1
          /\ PartialArchived(lab) \in 1 .. history[lab.number + 1] - 1

(* PartialArchived names the byte count of a Partial progress, and None   *)
(* for Complete.                                                           *)
LEMMA PartialArchivedCases ==
  ASSUME NEW lab \in LastArchivedBlocks
  PROVE  /\ PartialArchived(lab) # None <=> lab.archived_progress \in Nat
         /\ PartialArchived(lab) # None => PartialArchived(lab) = lab.archived_progress
BY DEF PartialArchived, PartialOf, LastArchivedBlocks, Progress

LEMMA ProgressInvInit == Init => ProgressInv /\ HeadersInv
BY DEF Init, ProgressInv, HeadersInv, PartialArchived, PartialOf, DefaultProgress

LEMMA ProgressInvNext ==
  IInv /\ ProgressInv /\ HeadersInv /\ [Next]_vars => ProgressInv' /\ HeadersInv'
<1> SUFFICES ASSUME IInv, ProgressInv, HeadersInv, [Next]_vars
             PROVE  ProgressInv' /\ HeadersInv'
  OBVIOUS
<1> DEFINE lab == lastArchivedBlock
           newest == history[Len(history)]
<1>0. /\ lab \in LastArchivedBlocks
      /\ history \in Seq(BlockSizes)
      /\ Len(history) \in Nat
      /\ pending \in Nat
      /\ buffer \in 0 .. SegmentSize
  BY LenProperties DEF IInv, TypeOK
<1>0a. Len(history) > 0 => newest \in Nat \ {0}
  <2> SUFFICES ASSUME Len(history) > 0 PROVE newest \in Nat \ {0}
    OBVIOUS
  <2>1. newest \in BlockSizes
    BY <1>0, ElementOfSeq
  <2>2. QED
    BY <2>1, BlockSizesAssumption
<1>1. CASE AddBlock
  <2>1. PICK size \in BlockSizes : history' = Append(history, size) /\ pending' = size
    BY <1>1 DEF AddBlock
  <2>2. PartialArchived(lab) = None
    <3>1. pending = 0
      BY <1>1 DEF AddBlock
    <3>2. QED
      BY <1>0, <1>0a, <3>1, PartialArchivedCases DEF ProgressInv
  <2>3. /\ Len(history') = Len(history) + 1
        /\ history'[Len(history')] = size
        /\ \A k \in 1 .. Len(history) : history'[k] = history[k]
    BY <1>0, <2>1, AppendProperties
  <2>4. ProgressInv'
    BY <1>1, <2>1, <2>2, <2>3 DEF AddBlock, ProgressInv
  <2>5. HeadersInv'
    <3>1. chain' = chain
      BY <1>1 DEF AddBlock
    <3>2. QED
      BY <1>0, <2>3, <3>1 DEF HeadersInv
  <2>6. QED
    BY <2>4, <2>5
<1>2. CASE ArchiveBytes
  <2> DEFINE room == SegmentSize - buffer
             labN == [number |-> Len(history) - 1,
                      archived_progress |-> lab.archived_progress]
  <2>1. /\ pending > 0
        /\ room \in 1 .. SegmentSize
        /\ UNCHANGED <<history, chain>>
    BY <1>0, <1>2 DEF ArchiveBytes
  <2>2. Len(history) > 0 /\ labN \in LastArchivedBlocks
    BY <1>0, <2>1 DEF IInv, LastArchivedBlocks
  <2>3. CASE Fits(pending, room)
    <3>1. lastArchivedBlock' = SetComplete(labN) /\ pending' = 0
      <4>1. lastArchivedBlock' = SetComplete(labN)
        BY <1>2, <2>3 DEF ArchiveBytes
      <4>2. pending' = pending - pending
        BY <1>2, <2>3 DEF ArchiveBytes
      <4>3. QED
        BY <1>0, <4>1, <4>2
    <3>2. PartialArchived(lastArchivedBlock') = None
      BY <2>2, <3>1, MutatorsTyped, PartialArchivedCases DEF SetComplete
    <3>3. QED
      BY <2>1, <3>1, <3>2 DEF ProgressInv, HeadersInv
  <2>4. CASE ~Fits(pending, room)
    <3> DEFINE new == ArchivedSoFar(labN) + room
    <3>1. lastArchivedBlock' = SetPartialArchived(labN, new) /\ pending' = pending - room
      BY <1>2, <2>4 DEF ArchiveBytes
    <3>2. room < pending
      BY <2>1, <2>4, <1>0 DEF Fits
    <3>3. pending + ArchivedSoFar(labN) = newest /\ ArchivedSoFar(labN) \in Nat
      <4>0. ArchivedSoFar(labN) =
              IF PartialArchived(lab) = None THEN 0 ELSE lab.archived_progress
        BY DEF ArchivedSoFar, PartialArchived, PartialOf
      <4>1. CASE PartialArchived(lab) # None
        BY <1>0, <1>0a, <2>1, <4>0, <4>1, PartialArchivedCases DEF ProgressInv
      <4>2. CASE PartialArchived(lab) = None
        BY <1>0, <1>0a, <2>1, <2>2, <4>0, <4>2 DEF ProgressInv
      <4>3. QED
        BY <4>1, <4>2
    <3>4. /\ lastArchivedBlock'.number = Len(history) - 1
          /\ lastArchivedBlock'.archived_progress = new
          /\ lastArchivedBlock' \in LastArchivedBlocks
      <4>1. new \in Nat
        BY <2>1, <3>3
      <4>2. lastArchivedBlock' \in LastArchivedBlocks
        BY <2>2, <3>1, <4>1, MutatorsTyped
      <4>3. lastArchivedBlock' = [labN EXCEPT !.archived_progress = new]
        BY <3>1 DEF SetPartialArchived, SetPartial
      <4>4. QED
        BY <4>2, <4>3, Zenon
    <3>5. new \in 1 .. newest - 1 /\ pending' = newest - new
      <4> DEFINE asf == ArchivedSoFar(labN)
      <4>1. /\ asf \in Nat /\ pending \in Nat /\ room \in 1 .. SegmentSize
            /\ room < pending /\ pending + asf = newest
            /\ new = asf + room /\ pending' = pending - room
        BY <1>0, <2>1, <3>1, <3>2, <3>3
      <4>2. QED
        BY <4>1
    <3>6. ProgressInv'
      BY <2>1, <2>2, <3>4, <3>5, PartialArchivedCases DEF ProgressInv
    <3>7. QED
      BY <2>1, <3>6 DEF HeadersInv
  <2>5. QED
    BY <2>3, <2>4
<1>3. CASE CloseSegment
  <2> DEFINE header == SegmentHeaderV0(Len(chain), CommitmentOf(Len(chain)),
                                       PrevHash, lastArchivedBlock)
  <2>1. /\ DOMAIN chain' = 1 .. Len(chain) + 1
        /\ \A i \in 1 .. Len(chain) : chain'[i] = chain[i]
        /\ chain'[Len(chain) + 1] = header
        /\ UNCHANGED <<history, pending, lastArchivedBlock>>
    <3>1. chain' = Append(chain, header)
      BY <1>3 DEF CloseSegment
    <3>2. QED
      BY <1>3, <3>1, AppendShape DEF IInv, TypeOK, CloseSegment
  <2>2. DOMAIN chain = 1 .. Len(chain) /\ Len(chain) \in Nat
    BY LenProperties DEF IInv, TypeOK
  <2>3. LastArchivedBlockOf(header) = lab
    BY DEF LastArchivedBlockOf, SegmentHeaderV0
  <2>4. PartialArchived(lab) # None =>
          /\ lab.number \in 0 .. Len(history) - 1
          /\ PartialArchived(lab) \in 1 .. history[lab.number + 1] - 1
    BY <1>0, PartialArchivedCases DEF ProgressInv
  <2>5. HeadersInv'
    BY <2>1, <2>2, <2>3, <2>4 DEF HeadersInv
  <2>6. QED
    BY <2>1, <2>5 DEF ProgressInv
<1>4. CASE UNCHANGED vars
  BY <1>4 DEF vars, ProgressInv, HeadersInv
<1>5. QED
  BY <1>1, <1>2, <1>3, <1>4 DEF Next, Archive

(* No header records Partial(0) or a Partial count that covers the whole  *)
(* block: a block that ends exactly at the end of a segment is recorded   *)
(* with set_complete, and a partial count always leaves bytes for the     *)
(* next segment.                                                          *)
THEOREM PartialStrictness == Spec => []PartialIsStrict
<1>1. Init => IInv /\ ProgressInv /\ HeadersInv
  BY IInvInit, ProgressInvInit
<1>2. IInv /\ ProgressInv /\ HeadersInv /\ [Next]_vars
        => (IInv /\ ProgressInv /\ HeadersInv)'
  BY IInvNext, ProgressInvNext
<1>3. HeadersInv => PartialIsStrict
  BY DEF HeadersInv, PartialIsStrict
<1>4. QED
  BY <1>1, <1>2, <1>3, PTL DEF Spec

-----------------------------------------------------------------------------
(* The history variables and the byte count: `starts` has an entry per    *)
(* received block, the newest block ends at `received`, and every byte    *)
(* received is in a closed segment, in the open one or pending.           *)
AuxInv ==
  /\ starts \in Seq(Nat)
  /\ received \in Nat
  /\ Len(starts) = Len(history)
  /\ Len(history) > 0 => starts[Len(history)] + history[Len(history)] = received
  /\ Len(chain) * SegmentSize + buffer + pending = received

LEMMA AuxInvInit == Init => AuxInv
BY EmptySeq DEF Init, AuxInv

LEMMA AuxInvNext == IInv /\ AuxInv /\ [Next]_vars => AuxInv'
<1> SUFFICES ASSUME IInv, AuxInv, [Next]_vars PROVE AuxInv'
  OBVIOUS
<1>0. /\ history \in Seq(BlockSizes)
      /\ Len(history) \in Nat /\ Len(chain) \in Nat
      /\ pending \in Nat /\ buffer \in 0 .. SegmentSize
  BY LenProperties DEF IInv, TypeOK
<1>1. CASE AddBlock
  <2>1. PICK size \in BlockSizes :
          /\ history' = Append(history, size) /\ pending' = size
          /\ starts' = Append(starts, received) /\ received' = received + size
    BY <1>1 DEF AddBlock
  <2>2. /\ starts' \in Seq(Nat)
        /\ Len(starts') = Len(starts) + 1 /\ starts'[Len(starts) + 1] = received
    BY <2>1, AppendProperties DEF AuxInv
  <2>3. /\ Len(history') = Len(history) + 1 /\ history'[Len(history) + 1] = size
    BY <1>0, <2>1, AppendProperties
  <2>4. size \in Nat /\ pending = 0 /\ UNCHANGED <<buffer, chain>>
    BY <1>1, BlockSizesAssumption DEF AddBlock
  <2>5. QED
    BY <1>0, <2>1, <2>2, <2>3, <2>4 DEF AuxInv
<1>2. CASE ArchiveBytes
  <2>1. PICK f \in Nat : buffer' = buffer + f /\ pending' = pending - f /\ f <= pending
    BY <1>0, <1>2 DEF ArchiveBytes, Fits
  <2>2. /\ history' = history /\ chain' = chain
        /\ received' = received /\ starts' = starts
    BY <1>2 DEF ArchiveBytes
  <2>3. Len(chain') * SegmentSize + buffer' + pending' = received'
    BY <1>0, <2>1, <2>2 DEF AuxInv
  <2>4. QED
    BY <2>2, <2>3 DEF AuxInv
<1>3. CASE CloseSegment
  <2>1. /\ buffer = SegmentSize /\ buffer' = 0
        /\ UNCHANGED <<history, pending, received, starts>>
    BY <1>3 DEF CloseSegment, SegmentFull
  <2>2. Len(chain') = Len(chain) + 1
    BY <1>3, AppendProperties DEF CloseSegment, IInv, TypeOK
  <2>3. QED
    BY <1>0, <2>1, <2>2 DEF AuxInv
<1>4. CASE UNCHANGED vars
  BY <1>4 DEF vars, AuxInv
<1>5. QED
  BY <1>1, <1>2, <1>3, <1>4 DEF Next, Archive

(* The positions the progress records mark: once archiving has started,   *)
(* the archiver's last archived block ends where the open segment ends,   *)
(* and header i's ends at i segments.                                     *)
Started == buffer > 0 \/ chain # <<>>

CutInv ==
  /\ Started =>
       /\ lastArchivedBlock.number + 1 \in 1 .. Len(history)
       /\ CutOf(lastArchivedBlock) = Len(chain) * SegmentSize + buffer
  /\ \A i \in DOMAIN chain :
       /\ LastArchivedBlockOf(chain[i]).number + 1 \in 1 .. Len(history)
       /\ CutOf(LastArchivedBlockOf(chain[i])) = i * SegmentSize

(* With a block pending, the bytes of it archived so far and the pending   *)
(* bytes make up the whole newest block.                                  *)
LEMMA ArchivedSoFarPending ==
  ASSUME IInv, ProgressInv, pending > 0
  PROVE  LET labN == [number |-> Len(history) - 1,
                      archived_progress |-> lastArchivedBlock.archived_progress]
         IN  /\ ArchivedSoFar(labN) \in Nat
             /\ pending + ArchivedSoFar(labN) = history[Len(history)]
<1> DEFINE lab == lastArchivedBlock
           labN == [number |-> Len(history) - 1,
                    archived_progress |-> lab.archived_progress]
<1>1. /\ lab \in LastArchivedBlocks /\ history \in Seq(BlockSizes)
      /\ Len(history) \in Nat \ {0} /\ pending \in Nat
  BY LenProperties DEF IInv, TypeOK
<1>2. history[Len(history)] \in Nat
  <2>1. history[Len(history)] \in BlockSizes
    BY <1>1, ElementOfSeq
  <2>2. QED
    BY <2>1, BlockSizesAssumption
<1>3. ArchivedSoFar(labN) =
        IF PartialArchived(lab) = None THEN 0 ELSE lab.archived_progress
  BY DEF ArchivedSoFar, PartialArchived, PartialOf
<1>4. CASE PartialArchived(lab) # None
  BY <1>1, <1>2, <1>3, <1>4, PartialArchivedCases DEF ProgressInv
<1>5. CASE PartialArchived(lab) = None
  BY <1>1, <1>2, <1>3, <1>5 DEF ProgressInv
<1>6. QED
  BY <1>4, <1>5

LEMMA CutInvInit == Init => CutInv
BY EmptySeq DEF Init, CutInv, Started

(* Where a partial block ends: the newest block starts at s and has n     *)
(* bytes, a of them archived and p pending; the closed segments and the   *)
(* open one hold m + b bytes and the p pending make up the r received.    *)
LEMMA PartialCutArith ==
  ASSUME NEW s \in Nat, NEW a \in Nat, NEW n \in Nat, NEW p \in Nat,
         NEW m \in Nat, NEW b \in Nat, NEW r,
         p + a = n, s + n = r, m + b + p = r
  PROVE  s + a = m + b
OBVIOUS

LEMMA CutInvNext ==
  IInv /\ ProgressInv /\ AuxInv /\ CutInv /\ [Next]_vars => CutInv'
<1> SUFFICES ASSUME IInv, ProgressInv, AuxInv, CutInv, [Next]_vars PROVE CutInv'
  OBVIOUS
<1> DEFINE lab == lastArchivedBlock
           L == Len(chain)
<1>0. /\ lab \in LastArchivedBlocks
      /\ history \in Seq(BlockSizes) /\ starts \in Seq(Nat)
      /\ Len(history) \in Nat /\ L \in Nat /\ DOMAIN chain = 1 .. L
      /\ pending \in Nat /\ buffer \in 0 .. SegmentSize
      /\ \A i \in DOMAIN chain : LastArchivedBlockOf(chain[i]) \in LastArchivedBlocks
  BY LenProperties, ChainLabsTyped DEF IInv, TypeOK, AuxInv
<1>1. CASE AddBlock
  <2>1. PICK size \in BlockSizes :
          history' = Append(history, size) /\ starts' = Append(starts, received)
    BY <1>1 DEF AddBlock
  <2>2. /\ Len(history') = Len(history) + 1
        /\ \A k \in 1 .. Len(history) : history'[k] = history[k]
        /\ \A k \in 1 .. Len(history) : starts'[k] = starts[k]
    BY <1>0, <2>1, AppendProperties DEF AuxInv
  <2>3. UNCHANGED <<buffer, lab, chain>>
    BY <1>1 DEF AddBlock
  <2>4. (Started =>
          /\ lab.number + 1 \in 1 .. Len(history)
          /\ CutOf(lab) = L * SegmentSize + buffer)'
    <3>1. Started' = Started /\ Len(chain') = L /\ buffer' = buffer
      BY <2>3 DEF Started
    <3>2. SUFFICES ASSUME Started
                   PROVE  /\ lab'.number + 1 \in 1 .. Len(history')
                          /\ CutOf(lab)' = L * SegmentSize + buffer
      BY <3>1
    <3>3. /\ lab.number + 1 \in 1 .. Len(history)
          /\ CutOf(lab) = L * SegmentSize + buffer
      BY <3>2 DEF CutInv
    <3>4. /\ starts'[lab.number + 1] = starts[lab.number + 1]
          /\ history'[lab.number + 1] = history[lab.number + 1]
      BY <2>2, <3>3
    <3>5. CutOf(lab)' = CutOf(lab)
      BY <2>3, <3>4 DEF CutOf
    <3>6. QED
      BY <1>0, <2>2, <2>3, <3>3, <3>5
  <2>6. ASSUME NEW i \in DOMAIN chain'
        PROVE  /\ LastArchivedBlockOf(chain'[i]).number + 1 \in 1 .. Len(history')
               /\ CutOf(LastArchivedBlockOf(chain[i]))' = i * SegmentSize
    <3> DEFINE l == LastArchivedBlockOf(chain[i])
    <3>1. i \in DOMAIN chain /\ chain' = chain
      BY <2>3
    <3>2. l.number + 1 \in 1 .. Len(history) /\ CutOf(l) = i * SegmentSize
      BY <3>1 DEF CutInv
    <3>3. /\ starts'[l.number + 1] = starts[l.number + 1]
          /\ history'[l.number + 1] = history[l.number + 1]
      BY <2>2, <3>2
    <3>4. CutOf(l)' = CutOf(l)
      BY <3>1, <3>3 DEF CutOf, LastArchivedBlockOf
    <3>5. QED
      BY <1>0, <2>2, <3>1, <3>2, <3>4
  <2>7. QED
    BY <2>4, <2>6 DEF CutInv
<1>2. CASE ArchiveBytes
  <2> DEFINE room == SegmentSize - buffer
             labN == [number |-> Len(history) - 1,
                      archived_progress |-> lab.archived_progress]
             asf == ArchivedSoFar(labN)
             newest == history[Len(history)]
  <2>1. /\ pending > 0 /\ room \in 1 .. SegmentSize
        /\ history' = history /\ chain' = chain
        /\ starts' = starts /\ received' = received
    BY <1>0, <1>2 DEF ArchiveBytes
  <2>2. /\ Len(history) \in Nat \ {0}
        /\ asf \in Nat /\ pending + asf = newest
    BY <2>1, ArchivedSoFarPending DEF IInv
  <2>3. /\ starts[Len(history)] \in Nat
        /\ starts[Len(history)] + newest = received
        /\ L * SegmentSize + buffer + pending = received
    BY <1>0, <2>2, ElementOfSeq DEF AuxInv
  <2>4. /\ lab'.number + 1 = Len(history)
        /\ CutOf(lab)' = L * SegmentSize + buffer'
        /\ buffer' > 0
    <3>1. CASE Fits(pending, room)
      <4>1. /\ lab' = [number |-> Len(history) - 1, archived_progress |-> Complete]
            /\ buffer' = buffer + pending
        BY <1>2, <3>1 DEF ArchiveBytes, SetComplete
      <4>2. PartialArchived(lab') = None
        BY <4>1 DEF PartialArchived, PartialOf
      <4>3. CutOf(lab)' = starts[Len(history)] + newest
        BY <2>1, <2>2, <4>1, <4>2 DEF CutOf
      <4>4. QED
        BY <1>0, <2>1, <2>3, <4>1, <4>3
    <3>2. CASE ~Fits(pending, room)
      <4>1. /\ lab' = [number |-> Len(history) - 1, archived_progress |-> asf + room]
            /\ buffer' = buffer + room
        BY <1>2, <3>2 DEF ArchiveBytes, SetPartialArchived, SetPartial
      <4>2. PartialArchived(lab') = asf + room
        BY <2>1, <2>2, <4>1, ModelValuesAssumption DEF PartialArchived, PartialOf
      <4>3. CutOf(lab)' = starts[Len(history)] + (asf + room)
        BY <2>1, <2>2, <4>1, <4>2 DEF CutOf
      <4>4. lab'.number + 1 = Len(history)
        BY <2>2, <4>1
      <4>5. starts[Len(history)] + (asf + room) = L * SegmentSize + (buffer + room)
        <5>1. PICK m \in Nat : m = L * SegmentSize
          BY <1>0
        <5>2. PICK a \in Nat : a = asf
          BY <2>2
        <5>3. PICK nw \in Nat : nw = newest
          <6>1. newest \in BlockSizes
            BY <1>0, <2>2, ElementOfSeq
          <6>2. QED
            BY <6>1, BlockSizesAssumption
        <5>4. PICK s0 \in Nat : s0 = starts[Len(history)]
          BY <2>3
        <5>5. pending + a = nw /\ s0 + nw = received /\ m + buffer + pending = received
          BY <2>2, <2>3, <5>1, <5>2, <5>3, <5>4
        <5>6. s0 + a = m + buffer
          BY <1>0, <5>5, PartialCutArith
        <5>7. s0 + (a + room) = m + (buffer + room)
          BY <1>0, <2>1, <5>6
        <5>8. QED
          BY <5>1, <5>2, <5>4, <5>7, Zenon
      <4>6. QED
        BY <1>0, <2>1, <4>1, <4>3, <4>4, <4>5
    <3>3. QED
      BY <3>1, <3>2
  <2>5. ASSUME NEW i \in DOMAIN chain'
        PROVE  /\ LastArchivedBlockOf(chain'[i]).number + 1 \in 1 .. Len(history')
               /\ CutOf(LastArchivedBlockOf(chain[i]))' = i * SegmentSize
    BY <2>1 DEF CutInv, CutOf
  <2>6. QED
    BY <2>1, <2>2, <2>4, <2>5 DEF CutInv, Started
<1>3. CASE CloseSegment
  <2> DEFINE header == SegmentHeaderV0(L, CommitmentOf(L), PrevHash, lab)
  <2>1. /\ buffer = SegmentSize /\ buffer' = 0
        /\ chain' = Append(chain, header)
        /\ history' = history /\ starts' = starts /\ lab' = lab
    BY <1>3 DEF CloseSegment, SegmentFull
  <2>2. /\ DOMAIN chain' = 1 .. L + 1 /\ Len(chain') = L + 1
        /\ \A i \in 1 .. L : chain'[i] = chain[i]
        /\ chain'[L + 1] = header
    BY <1>0, <2>1, AppendProperties, LenProperties DEF IInv, TypeOK
  <2>3. /\ lab.number + 1 \in 1 .. Len(history)
        /\ CutOf(lab) = L * SegmentSize + SegmentSize
    BY <2>1 DEF CutInv, Started
  <2>4. /\ CutOf(lab)' = CutOf(lab)
        /\ LastArchivedBlockOf(header) = lab
    BY <2>1 DEF CutOf, LastArchivedBlockOf, SegmentHeaderV0
  <2>5. L * SegmentSize + SegmentSize = (L + 1) * SegmentSize
    BY <1>0
  <2>6. ASSUME NEW i \in DOMAIN chain'
        PROVE  /\ LastArchivedBlockOf(chain'[i]).number + 1 \in 1 .. Len(history')
               /\ CutOf(LastArchivedBlockOf(chain[i]))' = i * SegmentSize
    <3>1. CASE i \in 1 .. L
      BY <1>0, <2>1, <2>2, <3>1 DEF CutInv, CutOf
    <3>2. CASE i = L + 1
      BY <2>1, <2>2, <2>3, <2>4, <2>5, <3>2
    <3>3. QED
      BY <1>0, <2>2, <3>1, <3>2
  <2>7. QED
    BY <2>1, <2>2, <2>3, <2>4, <2>5, <2>6 DEF CutInv
<1>4. CASE UNCHANGED vars
  BY <1>4 DEF vars, CutInv, Started, CutOf
<1>5. QED
  BY <1>1, <1>2, <1>3, <1>4 DEF Next, Archive

-----------------------------------------------------------------------------
(* The refinement of ArchivedHistory.                                     *)

\* The ends of the first n segments of the archived history.
SegmentEnds(n) == [i \in 1 .. n |-> i * SegmentSize]

(* SegmentEnds(n) is a sequence of length n, and committing one more      *)
(* segment appends its end.                                                *)
LEMMA SegmentEndsSeq ==
  ASSUME NEW n \in Nat
  PROVE  /\ SegmentEnds(n) \in Seq(Nat)
         /\ Len(SegmentEnds(n)) = n
         /\ Append(SegmentEnds(n), (n + 1) * SegmentSize) = SegmentEnds(n + 1)
<1>1. ASSUME NEW k \in Nat
      PROVE  SegmentEnds(k) \in Seq(Nat) /\ Len(SegmentEnds(k)) = k
  <2>1. SegmentEnds(k) \in [1 .. k -> Nat]
    BY DEF SegmentEnds
  <2>2. SegmentEnds(k) \in Seq(Nat)
    BY <2>1, SeqDef
  <2>3. DOMAIN SegmentEnds(k) = 1 .. k
    BY DEF SegmentEnds
  <2>4. QED
    BY <2>2, <2>3, LenProperties
<1>2. /\ Append(SegmentEnds(n), (n + 1) * SegmentSize) \in Seq(Nat)
      /\ Len(Append(SegmentEnds(n), (n + 1) * SegmentSize)) = n + 1
      /\ \A i \in 1 .. n + 1 :
           Append(SegmentEnds(n), (n + 1) * SegmentSize)[i] = i * SegmentSize
  <2>1. (n + 1) * SegmentSize \in Nat
    OBVIOUS
  <2>2. QED
    BY <1>1, <2>1, AppendProperties DEF SegmentEnds
<1>3. \A i \in 1 .. n + 1 : SegmentEnds(n + 1)[i] = i * SegmentSize
  BY DEF SegmentEnds
<1>4. Append(SegmentEnds(n), (n + 1) * SegmentSize) = SegmentEnds(n + 1)
  <2>1. SegmentEnds(n + 1) \in Seq(Nat) /\ Len(SegmentEnds(n + 1)) = n + 1
    BY <1>1
  <2>2. QED
    BY <1>2, <1>3, <2>1, SeqEqual
<1>5. QED
  BY <1>1, <1>4

(* Under the invariants, the mapped cuts are exactly the segment ends.    *)
LEMMA HeaderCutsAreSegmentEnds ==
  ASSUME IInv, CutInv
  PROVE  HeaderCuts = SegmentEnds(Len(chain))
<1>1. DOMAIN chain = 1 .. Len(chain)
  BY LenProperties DEF IInv, TypeOK
<1>2. \A i \in DOMAIN chain : CutOf(LastArchivedBlockOf(chain[i])) = i * SegmentSize
  BY DEF CutInv
<1>3. QED
  BY <1>1, <1>2 DEF HeaderCuts, SegmentEnds

\* The invariants the refinement rests on.
RefInv == IInv /\ ProgressInv /\ HeadersInv /\ AuxInv /\ CutInv

LEMMA RefInvInductive ==
  /\ Init => RefInv
  /\ RefInv /\ [Next]_vars => RefInv'
BY IInvInit, ProgressInvInit, AuxInvInit, CutInvInit,
   IInvNext, ProgressInvNext, AuxInvNext, CutInvNext DEF RefInv

(* The segment header chain implements the archived history of spec.md:   *)
(* receiving a block (AddBlock) is ReceiveBlock, moving bytes into the     *)
(* open segment (ArchiveBytes, with set_partial_archived or set_complete)  *)
(* changes nothing the history shows, and closing a segment               *)
(* (CloseSegment) commits the next segment, whose header's last archived  *)
(* block marks exactly (Len(chain) + 1) * SegmentSize bytes.              *)
THEOREM Refinement == Spec => ImplementsArchivedHistory
<1>1. Init => AH!Init
  <2> SUFFICES ASSUME Init PROVE AH!Init
    OBVIOUS
  <2>1. HeaderCuts = <<>>
    BY DEF Init, HeaderCuts
  <2>2. QED
    BY <2>1 DEF Init, AH!Init
<1>2. RefInv /\ RefInv' /\ [Next]_vars => [AH!Next]_AH!avars
  <2> SUFFICES ASSUME RefInv, RefInv', [Next]_vars PROVE [AH!Next]_AH!avars
    OBVIOUS
  <2> DEFINE L == Len(chain)
  <2>1. L \in Nat /\ HeaderCuts = SegmentEnds(L)
    BY HeaderCutsAreSegmentEnds, LenProperties DEF RefInv, IInv, TypeOK
  <2>2. HeaderCuts' = SegmentEnds(Len(chain'))
    <3>1. DOMAIN chain' = 1 .. Len(chain')
      BY LenProperties DEF RefInv, IInv, TypeOK
    <3>2. \A i \in DOMAIN chain' : CutOf(LastArchivedBlockOf(chain[i]))' = i * SegmentSize
      BY DEF RefInv, CutInv
    <3>3. QED
      BY <3>1, <3>2 DEF HeaderCuts, SegmentEnds
  <2>3. chain' = chain => HeaderCuts' = HeaderCuts
    BY <2>1, <2>2
  <2>4. CASE AddBlock
    <3>1. PICK size \in BlockSizes :
            /\ history' = Append(history, size)
            /\ received' = received + size
      BY <2>4 DEF AddBlock
    <3>2. Len(history) < MaxBlocks /\ chain' = chain
      BY <2>4 DEF AddBlock
    <3>3. QED
      BY <2>3, <3>1, <3>2 DEF AH!Next, AH!ReceiveBlock
  <2>5. CASE ArchiveBytes
    <3>1. history' = history /\ received' = received /\ chain' = chain
      BY <2>5 DEF ArchiveBytes
    <3>2. QED
      BY <2>3, <3>1 DEF AH!avars
  <2>6. CASE CloseSegment
    <3>1. /\ buffer = SegmentSize
          /\ Len(chain') = L + 1
          /\ history' = history /\ received' = received
      BY <2>6, AppendProperties DEF CloseSegment, SegmentFull, RefInv, IInv, TypeOK
    <3>2. /\ Len(HeaderCuts) = L
          /\ HeaderCuts' = Append(HeaderCuts, (L + 1) * SegmentSize)
      BY <2>1, <2>2, <3>1, SegmentEndsSeq
    <3>3. (L + 1) * SegmentSize <= received
      <4>1. PICK m \in Nat : m = L * SegmentSize
        BY <2>1
      <4>2. m + SegmentSize + pending = received /\ pending \in Nat
        BY <3>1, <4>1 DEF RefInv, AuxInv, IInv, TypeOK
      <4>3. m + SegmentSize <= received
        BY <4>2
      <4>4. QED
        BY <2>1, <4>1, <4>3
    <3>4. QED
      BY <3>1, <3>2, <3>3 DEF AH!Next, AH!CommitSegment
  <2>7. CASE UNCHANGED vars
    BY <2>3, <2>7 DEF vars, AH!avars
  <2>8. QED
    BY <2>4, <2>5, <2>6, <2>7 DEF Next, Archive
<1>3. QED
  BY <1>1, <1>2, RefInvInductive, PTL DEF Spec, ImplementsArchivedHistory, AH!Spec
=============================================================================
