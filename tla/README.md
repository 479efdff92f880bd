# TLA+ verification of the Subspace core primitives and DSN archiver

This directory holds TLA+ models of the code under `src/`, the TLC
configurations that check them on small instances, and TLAPS proofs of their
main safety properties for every value of the constants. `PROJECT.json`
lists the components, the runs, the source lines each definition models
(`map`), the mutants each property is tested against, the findings and the
hazards.

## 1. Inventory

The excerpt has three source files.

### `src/crates/subspace-core-primitives/src/lib.rs`

This file holds pure value types and pure functions. Nothing in it is shared
mutable state.

* **U256** (lines 460-642). This is a 256-bit unsigned integer built from four
  64-bit limbs, least significant limb first (`construct_uint!`).
  * Operations: zero and one; big-endian and little-endian byte conversions;
    checked add, sub, mul and div, which return `None` on overflow, underflow
    or division by zero; saturating add, sub and mul; wrapping add and sub;
    the constants `MIDDLE` and `MAX`; conversions from the unsigned types and
    to and from `PieceIndexHash` (big-endian); and a fallible narrowing to u64.
  * `bidirectional_distance(a, b)` returns `min(a -w b, b -w a)`, where `-w` is
    wrapping subtraction. Farmers and consensus use it to rank a solution's
    tag against its target.
  * Correctness: the distance is the shortest arc on the ring of 2^256 points.
    It is symmetric, it is 0 only for equal points, and the spec says it is
    bounded by `MIDDLE`. The checked and saturating operations agree with
    exact arithmetic. `MIDDLE` is `MAX / 2`.
* **Sector derivation** (`LegacySectorId`, lines 644-691).
  * The sector id is a keyed BLAKE2b hash of the sector index under the
    public key.
  * `derive_piece_index` reads the keyed hash of the piece offset as a
    little-endian U256, reduces it modulo `total_pieces` and narrows the
    result to u64 with `expect`.
  * `derive_local_challenge` reads the first 8 bytes of a keyed hash
    big-endian.
  * The plot geometry constants `PLOT_SECTOR_SIZE` and `PIECES_IN_SECTOR`
    are at lines 64-74.
  * Correctness: the piece index is below `total_pieces`, so the narrowing
    never panics. The challenge is the top 64 bits of the digest.
* **Archived block progress and segment headers** (lines 236-365).
  * `ArchivedBlockProgress` is either `Complete` or `Partial(bytes)`.
  * `LastArchivedBlock` pairs a block number with its progress and has the
    mutators `set_partial_archived` and `set_complete`.
  * `SegmentHeader::V0` carries the segment index, the segment commitment,
    the hash of the previous header and the last archived block. Its `hash()`
    hashes its SCALE encoding.
  * The archiver that builds the chain of headers is not in this excerpt.
  * Correctness: the progress recorded in each header marks exactly where
    its segment ends in the block data. The hash links between headers are
    made by the absent archiver, which fills `prev_segment_header_hash`;
    this file only supplies `hash()` and the accessors.
* **Solution** (lines 370-458). This is a record of ten fields.
  `into_reward_address_format` converts only the reward address.
  `genesis_solution` builds the fixed placeholder.
* **Byte types**: `PosSeed`, `PosQualityBytes`, `PosProof`, `PublicKey`,
  `RewardSignature` and `ChunkSignature`. These are fixed arrays with hashing
  and display, and they have no logic.

### `src/crates/subspace-service/src/dsn.rs`

This file is the only concurrent code in the excerpt.

* **`start_dsn_archiver`** (lines 87-150). One async loop receives
  `ArchivedSegmentNotification`s from a stream.
  * For each notification it computes `first_piece_index = segment_index *
    PIECES_IN_SEGMENT`.
  * It skips a segment equal to `last_published_segment_index`.
  * Otherwise it spawns a `segment-publishing` task. It then sets
    `last_published_segment_index` without waiting for that task.
  * Each task iterates `keys_iter.zip(pieces)` and awaits `put_value(key,
    piece)` for each pair. It only traces the result.
  * Tasks of different segments, and the loop, therefore interleave at every
    `put_value`.
  * A put can fail. The node can restart, which loses the in-memory index, the
    queued notifications and the running tasks.
* **`create_dsn_instance`** (lines 40-85). This builds the networking
  configuration. Its piece request handler answers `PieceKey::PieceIndex(i)`
  with `piece_getter(i)` and any other key with `None`.

### `src/domains/service/src/lib.rs`

`new_partial` wires a Substrate client together: telemetry, executor, client,
transaction pool and import queue. Every step is a framework call. The file
has no state machine of its own, so it is not modelled.

### Interactions

* The consensus archiver (upstream, not in the excerpt) produces segments. It
  notifies `start_dsn_archiver` through a stream.
* The DSN archiver publishes the pieces into the DHT, keyed by piece index.
* Farmers use the sector derivations to decide which pieces they plot.
* Consensus ranks solutions with `bidirectional_distance`.

### Hard behaviours

These are listed with their source lines under `hazards` in `PROJECT.json`.

* Interleaving of the publishing tasks.
* Put failures that nothing retries.
* The skip index is updated before the publication succeeds.
* Restarts in the middle of a segment.
* The repeat check only looks at the immediately preceding notification.
* The u64 product in `first_piece_index`.
* The antipodal case of the distance.
* The limb order in `MIDDLE`.
* Narrowing to u64 and byte order in the sector derivations.

## 2. Modules

| Module | Models | Status |
|---|---|---|
| `DsnArchiver` | `start_dsn_archiver`: the loop, its tasks, put failures, restart | done |
| `MC_DsnArchiver` + `MC_DsnArchiver.cfg`, `MC_DsnArchiver_Lost.cfg`, `MC_DsnArchiver_Restart.cfg`, `MC_DsnArchiver_Wrap.cfg` | small instance | done |
| `PieceStore` | abstract spec: segments are archived in order, and pieces of archived segments are stored and never lost | done |
| `DsnArchiver_proofs` | `TypeCorrect`, `DhtConsistency`, `NoDuplicates`, `PieceStoreRefinement` | proved |
| `U256` | limbs, MAX, MIDDLE, wrapping, checked and saturating ops, u64 narrowing, `bidirectional_distance` | done |
| `MC_U256` + `MC_U256.cfg`, `MC_U256_Middle.cfg` | every operand pair at width 8 | done |
| `U256_proofs` | `DistanceSymmetric`, `DistanceBounds`, `DistanceIsArc`, `ExactArithmetic` | proved |
| `SegmentHeaderChain` | `ArchivedBlockProgress`, `LastArchivedBlock` and its mutators, `SegmentHeader::V0` with its accessors and hash, driven by the archiver modelled from spec.md | done |
| `ArchivedHistory` | abstract spec: segment i ends at byte (i+1) * SegmentSize of the block data | done |
| `MC_SegmentHeaderChain` + `MC_SegmentHeaderChain.cfg` | segments of 2 bytes, blocks of 1, 2 or 5 bytes, 4 blocks | done |
| `SegmentHeaderChain_proofs` | `TypeCorrect`, `PartialStrictness`, `Refinement` | proved |
| `SectorDerivation` (extends `U256`) | byte conversions, `PieceIndexHash` conversions, `LegacySectorId::new` input, `derive_piece_index`, `derive_local_challenge` | done |
| `MC_SectorDerivation` + `MC_SectorDerivation.cfg` | every digest at width 8, every `total_pieces` | done |
| `SectorDerivation_proofs` | `PieceIndexNeverPanics` | proved |

### DsnArchiver

Each piece of state corresponds to something in `start_dsn_archiver`:

* `stream` is the notification stream (a FIFO).
* `lastPublished` is `last_published_segment_index`, with `None` a model
  value.
* `tasks` is the sequence of spawned tasks. Each task records its segment and
  the position of its next `(key, piece)` pair.
* `dht` maps a piece index to the stored piece.
* `published` is a history variable that records the segments a task was ever
  spawned for.
* `archived`, `notified` and `restarts` are environment state and bounds.

A piece is represented by its origin `(segment, position)`. This is all that
the properties tell apart.

Piece indices are u64. The constant `PieceIndexModulus` stands for 2^64, and
`FirstPieceIndex` and `PieceKey` compute `segment * PIECES_IN_SEGMENT` and
`first_piece_index + position` modulo it, as a release build does. The main
run sets it to exactly the number of indices its segments need. `NoKeyWrap`
states that the indices of every segment fit.

The actions:

* `ArchiveSegment` and `RenotifySegment` are the environment. The upstream
  announces segments in order and may repeat its newest announcement.
* `SkipSegment` and `PublishSegment` are the two outcomes of one loop
  iteration. The loop has no await between receiving a notification and
  spawning the task, so each outcome is a single step.
* `PutValue(t)` is one iteration of task `t`. The put succeeds or fails, and
  the task moves on either way. The constant `PutOutcomes` is the set of
  results a put may have. The restart run sets it to `{TRUE}`, so that a
  restart is the only way to lose a piece there.
* `Restart` drops the tasks, the queue and the skip index.

Fairness is weak fairness on the loop and on every task. The tokio executor
polls the loop whenever the stream has an item and runs every spawned task,
and each `put_value` returns with a result or a timeout. The environment and
`Restart` have no fairness. The runs use `CHECK_DEADLOCK FALSE` because the
real archiver idles on the stream once nothing more is archived.

`PieceStore` is what the DSN promises, written without the loop, the tasks
or the keys. It has two variables: `archived`, the number of segments
archived upstream, and `stored`, the set of pieces the network holds. It has
two actions:
* `ArchiveSegment` archives the next segment.
* `StorePiece` adds a piece of an archived segment.

Nothing removes a piece. `DsnArchiver` maps onto it with `archived` as it is
and `stored` as `StoredPieces`, the set of pieces in the DHT whatever their
keys. A successful put is a `StorePiece`. An upstream archive is an
`ArchiveSegment`. Every other step is a stutter, including a failed put, a
skip, a spawn and a restart. The mapping leaves keys out, so the key
arithmetic is checked by `DhtConsistent`, not by the refinement.

### U256

The limb width `LimbBits` is a constant. A value has `4 * LimbBits` bits, so
u64 is one limb wide, as in the code. Arithmetic is taken modulo `2^Bits`.
The uint crate's `overflowing_*` operations are modelled as a result paired
with a flag, and the checked, saturating and wrapping operations are derived
from them as in uint. `MIDDLE` is built from its limb array exactly as the
code writes it.

### SegmentHeaderChain and ArchivedHistory

The types of lines 236-364 are translated as they are.
* `ArchivedBlockProgress` is `Complete` (a model value) or a byte count.
* `LastArchivedBlock` is a record `[number, archived_progress]`, with
  `PartialArchived`, `SetPartialArchived` and `SetComplete`.
* `SegmentHeaderV0` is a record with the four fields and their accessors.
* `HeaderHash` is the BLAKE2b hash of the SCALE encoding. It is modelled as
  an injective function: a digest determines the header it came from.

The archiver that calls these types is not in the excerpt. Its steps are
modelled from spec.md (3, 4.2, 4.4) and marked `spec_modelled` in the map.
The variables are `history` (the block sizes), `pending` (bytes of the newest
block still to archive), `buffer` (bytes in the open segment),
`lastArchivedBlock` and `chain` (the headers).
* `AddBlock`: the chain produces the next block once the previous one is
  fully archived.
* `ArchiveBytes`: as much of the block as fits goes into the segment. If the
  rest fits, `set_complete` is called. Otherwise `set_partial_archived` is
  called with all the bytes of the block archived so far.
* `CloseSegment`: a full segment gets a header with the last archived block
  as it stands, linked to the hash of the previous header, and the buffer
  empties.

`ArchivedHistory` is what the chain promises. Segment i ends at history byte
`(i+1) * SegmentSize`, and a segment is committed only once that many bytes
exist; `received` counts the bytes received so far. The refinement mapping
(`HeaderCuts`) sends header i to the byte position that its last archived
block marks. That position is the bytes of the blocks before `number`, plus
the whole block if it is Complete or the partial count if it is Partial
(`CutOf`). The bytes before each block come from two history variables of
`SegmentHeaderChain`, `received` and `starts`, which no code holds and no
guard reads. `AddBlock` appends the current `received` to `starts` and adds
the block's size to `received`. They stand for a sum over the history that
the refinement mapping would otherwise need as a recursive function, which
the provers cannot reason about. A throwaway cross-check with TLC on the
segment_header_chain instance confirmed that they equal that sum in every
reachable state. No step is assumed fair, because every property of this
module is a safety property. The archiver that would have to make
progress is not in the source.

### SectorDerivation

The keyed BLAKE2b hash is external to the code. A derivation is therefore
written as a function of the digest the hash returns, and the MC module
enumerates every digest. A byte has `ByteBits` bits and a limb has
`BytesPerLimb` bytes (8 and 8 in the code), with `LimbBits = ByteBits *
BytesPerLimb`. `BigEndianValue` folds a byte array with a recursive function
(not a RECURSIVE operator). `derive_piece_index` returns `None` where the
code's `expect` would panic.

## 3. Runs and what they show

* **dsn_archiver** (pass). The instance has 3 segments of 2 pieces, 5
  notifications and 1 restart, and it reaches 13k states.
  * Five notifications allow all three segments plus two repeats, or a
    restart with re-announcements afterwards.
  * Two pieces per segment let a failure hit the middle of a segment.
  * Three segments let three tasks interleave.
  * `DhtConsistent`: whatever the interleaving, index i only ever holds piece
    i.
  * `NoDuplicatePublication`: within one run, no segment is handed to two
    tasks.
  * `EventuallyQuiescent`: under the fairness above, every notification is
    received and every task finishes.
  * `ImplementsPieceStore`: the loop and its tasks implement `PieceStore`.
    Only pieces of archived segments are ever stored, and none is lost. The
    mutant that runs a task's zip one pair past the end breaks it, because
    the extra put stores a piece that no segment has.
* **dsn_lost_pieces** (violation, restarts off).
  `EveryPublishedSegmentStored` fails.
  * A put fails and is not retried.
  * The segment's repeated notification is then skipped, because the skip
    index was set at spawn time.
  * So a published segment stays incomplete forever.
  * The TODO at dsn.rs:139 acknowledges the missing republication (finding 2).
* **dsn_restart_loss** (violation). Every put succeeds and one restart is
  allowed. `EveryPublishedSegmentStored` fails.
  * Segment 0 is published, and the node restarts before its task puts every
    piece.
  * The restarted loop has neither the task nor the index, and the upstream
    does not announce segment 0 again.
  * So the segment stays incomplete without a single failed put. Nothing in
    `start_dsn_archiver` is persisted or resumed (finding 4).
* **dsn_key_wrap** (violation, restarts off). The index range is narrowed to
  4 while three segments of two pieces need 6. `DhtConsistent` fails:
  segment 2's keys wrap onto segment 0's indices, and the DHT stores a piece
  under another piece's index. In the code the product is unchecked u64
  arithmetic, so past 2^64 piece indices keys collide silently instead of
  panicking or being refused. At real segment sizes this is far out of reach
  (finding 3).
* **segment_header_chain** (pass, 558 states). Segments are 2 bytes and
  blocks are 1, 2 or 5 bytes, with up to 4 blocks. These sizes give a block
  smaller than a segment, a block ending exactly at a segment end, and a
  block spanning three segments (Partial(2), then Partial(4), then Complete).
  * `PartialIsStrict`: no header records Partial(0) or a partial count that
    covers the whole block.
  * `ImplementsArchivedHistory`: the chain refines `ArchivedHistory` under the
    mapping above. Every header marks exactly the end of its segment, and
    this needs `set_partial_archived` to get the cumulative count.
* **u256_ops** (pass). The width is 8 bits (four 2-bit limbs), and all 65,536
  operand pairs are checked.
  * `DistanceIsShortestArc`: the distance equals a reference shortest arc. It
    is symmetric, and it is zero only on equal points.
  * `ArithmeticMatchesExact`: the checked ops return the exact result or
    `None` exactly out of range. The saturating ops clamp. Wrapping sub undoes
    wrapping add. u64 narrowing fails exactly above one limb.
  * `MiddleIsHalfMax`: the limb-built `MIDDLE` is `MAX / 2`.
* **u256_middle_bound** (violation). `DistanceBoundedByMiddle` (spec 4.1 and
  8.2) fails at `a = 0, b = 128`, where the distance is 128 = MIDDLE + 1.
  Antipodal points are at distance `2^(Bits-1)`, one more than `MIDDLE`
  (finding 1).

* **sector_derivation** (pass). The instance has eight 1-bit bytes, two per
  limb. Each of the 256 digests is checked with every `total_pieces` in
  `1..u64::MAX` (here 1..3).
  * `PieceIndexInRange`: the derived index is below `total_pieces`, so the
    u64 narrowing never fails and the `expect` never panics.
  * `LocalChallengeIsTopLimb`: the local challenge is the most significant
    u64 of the digest read big-endian, although the piece index reads the
    digest little-endian.
  * `ByteConversionsRoundTrip`: the byte conversions round-trip in both
    orders and are mirror images of each other. The `PieceIndexHash`
    conversion round-trips. Distinct sector indices give distinct hash
    inputs.

Every property of a passing run has a mutant in `PROJECT.json`: a plausible
slip in a mapped definition that the run detects. Examples are the shifted
`first_piece_index`, the dropped repeat check, the zip loop ending one pair
early or late, the limbs of `MIDDLE` in big-endian order, and saturating
subtraction clamping to MAX.

## 4. Proofs

`DsnArchiver_proofs` proves four theorems for every value of the constants
that satisfies the module's ASSUMEs: at least one piece per segment, and
natural bounds.

* **`TypeCorrect`**: `Spec => []TypeOK`. TypeOK is inductive by itself. The
  proof has one step per action. It uses `HeadTailProperties`,
  `AppendProperties`, `ElementOfSeq` and `ExceptSeq` from SequenceTheorems,
  and the lemma `KeyInRange`, which says a task's key lies in the DHT's index
  range.
* **`DhtConsistency`**: `NoKeyWrap => (Spec => []DhtConsistent)`.
  DhtConsistent is inductive relative to TypeOK. The hypothesis `NoKeyWrap`
  is needed, and `dsn_key_wrap` shows why: without it the theorem is false. The only action that writes the DHT is `PutValue`. It
  writes `Piece(seg, pos)` under `seg * N + pos`, and the lemma `PieceAtKey`
  shows that `(seg*N + pos) \div N = seg` and `(seg*N + pos) % N = pos` for
  `pos < N`. Restarts and failures never write.

* **`NoDuplicates`**: `Spec => []NoDuplicatePublication`. The property is not
  inductive. The loop compares a segment only with the last published one,
  so the proof needs to know what the stream can still deliver. The
  strengthening `PublicationInv` was checked by TLC on the dsn_archiver
  instance before it was proved. It has five conjuncts:
  * the tasks' segments strictly increase;
  * `lastPublished` is the newest task's segment, or `None` when there are no
    tasks;
  * the stream is non-decreasing;
  * the stream stays below `archived`;
  * `lastPublished` is below `archived` and no larger than anything queued.

  So a segment that passes the repeat check is larger than every segment
  spawned before it. A restart empties the tasks, the stream and the index
  together. The lemmas `AppendOrdered` and `TailOrdered` carry the ordering
  across the stream's `Append` and `Tail`.
* **`PieceStoreRefinement`**: `NoKeyWrap => (Spec => ImplementsPieceStore)`.
  * The initial DHT is empty, so `StoredPieces` is `{}`.
  * A step is shown to be a `PieceStore` step under three invariants:
    `TypeOK`, `DhtConsistent` and `PublicationInv`.
  * For a successful put of `Piece(seg, pos)` under key `k`, the proof shows
    `StoredPieces' = StoredPieces \cup {Piece(seg, pos)}` by extensionality.
    The only changed entry is `k`. If `k` was already occupied,
    `DhtConsistent` and `PieceAtKey` show that it held this same piece.
  * The lemma `TasksBelowArchived` gives `seg < archived`. It follows from
    three conjuncts of `PublicationInv`:
    * the tasks' segments increase;
    * the newest task's segment is `lastPublished`;
    * `lastPublished` is below `archived`.
  * The lemma `PublicationInvariant` lifts `PublicationInv` to `[]`.
  * The last step combines these invariants by PTL.

`U256_proofs` proves four theorems for every limb width.

* **`DistanceSymmetric`**: `bidirectional_distance(a, b) =
  bidirectional_distance(b, a)`.
* **`DistanceBounds`**: the distance is zero exactly when `a = b`, and it is
  at most `2^(Bits-1)`.
* **`DistanceIsArc`**: `Spec => []DistanceIsShortestArc` for `MC_U256`, the
  run's own comparison with the shortest arc. The lemma
  `ArcLengthIsWrappingSub` shows that the reference's `CHOOSE` picks the
  wrapping difference, because that is the only step count below `2^Bits`
  that reaches the other point.

* **`ExactArithmetic`**: `MaxIsModulusMinusOne => (Spec =>
  []ArithmeticMatchesExact)`, the run's comparison with exact arithmetic. Its
  hypothesis is `MAX = 2^Bits - 1`, which TLC checks as the first conjunct of
  `MiddleIsHalfMax`.
  * Under that hypothesis the checked operations return the exact result or
    `None` exactly outside `[0, MAX]`, and the saturating ones clamp.
  * `wrapping_sub` undoes `wrapping_add`, by the lemmas `WrappingAddCases` and
    `WrappingSubCases`.
  * `TryFrom<U256> for u64` fails exactly at `2^LimbBits` and above.

  The proof keeps `Modulus` and `2^LimbBits` as opaque numbers. It first reads
  the result and the flag out of each `overflowing_*` pair (with Zenon), so
  that the arithmetic has no tuples in it.

The second theorem gives the true bound. It is one more than the `MIDDLE`
the spec names, and the run `u256_middle_bound` shows that the bound is
reached. Both proofs rest on the lemma `WrappingSubCases`, which says that
wrapping subtraction of two ring points is `a - b` or `a - b + 2^Bits`.

`SegmentHeaderChain_proofs` proves three theorems for every segment size and
every set of positive block sizes.

* **`TypeCorrect`**: `Spec => []TypeOK`. TypeOK alone is not inductive.
  `ArchiveBytes` writes the block number `Len(history) - 1`, which is a
  natural number only if a block exists. The inductive invariant `IInv` adds
  `pending > 0 => Len(history) > 0`. The chain's type mentions the chain's own hashes:
  a header links to the genesis sentinel or to the hash of a header of the
  chain. So `CloseSegment` is shown to grow that set of hashes and to link
  the new header into it. The lemma `HeaderTypeUnchanged` covers the steps
  that leave the chain alone, and `MutatorsTyped` shows that the progress
  mutators stay well-formed.
* **`PartialStrictness`**: `Spec => []PartialIsStrict`. It needs the strengthening `ProgressInv /\ HeadersInv`, which
  TLC checked first as an invariant.
  * `ProgressInv`: a Partial progress in `lastArchivedBlock` belongs to the
    newest block, is strictly between 0 and its size, and the pending bytes
    are the rest of that block. With a Complete progress, pending bytes are
    the whole block.
  * `HeadersInv`: a Partial header names a block of the history, and its
    count is strictly inside that block.
  * `ArchiveBytes` preserves `ProgressInv` by arithmetic on `pending`, the
    room left and the count archived so far. `CloseSegment` copies
    `lastArchivedBlock` into the new header, so `ProgressInv` gives
    `HeadersInv` for it.

* **`Refinement`**: `Spec => ImplementsArchivedHistory`, the run's own
  property. For every segment size and block bound, the chain implements
  `ArchivedHistory` under `HeaderCuts`:
  * `Init` maps to the abstract `Init`.
  * `AddBlock` maps to `ReceiveBlock`.
  * `ArchiveBytes` is a stutter, because it changes neither the history nor
    the chain.
  * `CloseSegment` maps to `CommitSegment`.

  The proof rests on `RefInv`, which is `IInv`, `ProgressInv` and `HeadersInv`
  plus two new invariants. TLC checked both as invariants before they were
  proved.
  * `AuxInv`: `starts` has one entry per block, and the newest block ends at
    `received`. Every byte received is in a closed segment, in the open one
    or pending: `Len(chain) * SegmentSize + buffer + pending = received`.
  * `CutInv`: once archiving has started, `lastArchivedBlock` marks the end
    of the open segment's bytes, `Len(chain) * SegmentSize + buffer`, and
    header i marks `i * SegmentSize`.

  `ArchiveBytes` keeps `CutInv` because of `ProgressInv` and the lemma
  `ArchivedSoFarPending`: the bytes archived so far plus the pending ones
  make up the newest block. So the new Partial count, added to the block's
  start, lands exactly at the end of the open segment. This is where the
  cumulative count of `set_partial_archived` matters; the mutant
  `ArchivedSoFarReset` breaks it. `CloseSegment` copies `lastArchivedBlock`
  into the header while the buffer holds exactly `SegmentSize` bytes, so the
  header marks `(Len(chain) + 1) * SegmentSize`. The lemma
  `HeaderCutsAreSegmentEnds` turns `CutInv` into
  `HeaderCuts = SegmentEnds(Len(chain))`. `SegmentEndsSeq` shows that
  committing appends the next end. `AuxInv` gives the guard of
  `CommitSegment`.

`SectorDerivation_proofs` proves **`PieceIndexNeverPanics`** for every limb
width. For any number the digest spells and any `total_pieces` in
`1..u64::MAX`, `derive_piece_index` returns an index below `total_pieces`, so
its `expect` never panics. The theorem starts from the digest's value. That
the byte fold `FromLeBytes` yields a natural number is its hypothesis,
because the fold is a recursive function and the provers cannot do
induction. TLC checks the full property, fold included, in the run
`sector_derivation`.

The provers do not reason about `^`. The fact they need, that `2^Bits` is
even and at least 2, is therefore the named assumption `ModulusAssumption`
in `U256`, and `LimbMaxAssumption` (`u64::MAX` is a natural number) is
stated next to it. TLC evaluates both in every U256 run. For the same
reason, `MAX = 2^Bits - 1` cannot be proved: MAX is written as four limbs
of `u64::MAX`, and the sum of their weights needs the laws of exponents. So
`ExactArithmetic` takes it as a hypothesis, and `MiddleIsHalfMax` stays with
TLC.

Only TLC checks the following:

* The liveness property `EventuallyQuiescent`, and the liveness properties
  the violation runs refute. TLAPS does not reason about ENABLED and
  fairness here.
* `MiddleIsHalfMax`, including the hypothesis `MAX = 2^Bits - 1` of
  `ExactArithmetic`. These are identities between powers of two, and the
  provers do not reason about `^`.
* `PieceIndexInRange` over byte arrays, `LocalChallengeIsTopLimb` and
  `ByteConversionsRoundTrip`. These are about byte arrays folded by a
  recursive function, and proving them needs induction.

## 5. Not modelled, and what comes next

* `create_dsn_instance` (dsn.rs 40-85) is not modelled. It builds a
  networking configuration. Its request handler is a dispatch on the key kind
  that returns what `piece_getter` returns, a callback supplied from outside
  this excerpt, and no state of this file changes.
* The `Solution` record (lib.rs 370-458) is not modelled. It is a data
  carrier. `into_reward_address_format` moves every field and converts only
  the reward address, and `genesis_solution` is a constant.
* The byte types and `src/domains/service/src/lib.rs` have no logic of their
  own.
* The plot geometry constants (lib.rs 64-74) depend on sizes defined outside
  the excerpt.
* The archiver that calls the header types is modelled from spec.md only
  to drive those types. The archiver links each header to the hash of the one
  before it, and it keeps archiving until every block is done. Neither is
  stated as a property. Such a property would check the model of spec.md,
  not the code under `src/`.

Work that remains:
1. A composition in which the header-chain archiver replaces the
   DsnArchiver environment, so that notifications carry real segments.
