------------------------------- MODULE Proposal -------------------------------
(***************************************************************************)
(* From preconfirmed L2 blocks to a batch on L1 and back: what the thread  *)
(* of TaikoL1Client::send puts into a proposal (taiko_l1_client.rs,        *)
(* compression.rs and, in module Blob, blob.rs), what the nodes of the     *)
(* rollup derive from it, and what compute_batch_meta_hash                 *)
(* (verification.rs) expects the batch to be.                              *)
(*                                                                         *)
(* When the thread proposes, and which blocks, is the subject of module    *)
(* Confirmation.  Compression is a library: here it returns any bytes of   *)
(* Streams, and only these bytes inflate to the transactions again.  A     *)
(* hash is what is hashed.  Fields that are copied unchanged from one      *)
(* record to the next (addresses, anchor, fees) are left out.              *)
(***************************************************************************)
EXTENDS Blob

CONSTANTS
    Anchor,          \* the anchor transaction of a block
    TimeShiftWidth,  \* the values of the u8 timeShift (256)
    Chains,          \* the sequences of blocks the thread may be started with
    Streams          \* what the compression may return

ASSUME ProposalAssumption ==
    /\ TimeShiftWidth \in Nat \ {0}
    /\ \A s \in Streams : s \in Seq(Byte) /\ s # <<>>

\* The blocks of a chain: every block begins with its anchor transaction, and
\* none is older than the one before it.
ASSUME ChainsAssumption ==
    \A chain \in Chains :
        /\ chain # <<>> /\ chain \in Seq(Range(chain))
        /\ \A block \in Range(chain) :
              /\ block = [timestamp |-> block.timestamp, txs |-> block.txs]
              /\ block.timestamp \in Nat
              /\ block.txs # <<>> /\ block.txs \in Seq(Range(block.txs))
              /\ Head(block.txs) = Anchor
        /\ \A i \in 2..Len(chain) : chain[i - 1].timestamp <= chain[i].timestamp

VARIABLES
    blocks,      \* the blocks of the batch, as the L2 node returned them
    usesBlobs,   \* use_blobs of the proposer
    verifiesBlobs,  \* use_blobs of the operator that verifies the batch
    params,      \* block_params
    txs,         \* the transactions without the anchors
    stage,       \* "reading", "packing", "proposed"
    batch        \* the batch in the inbox

batchVars == <<blocks, usesBlobs, verifiesBlobs, params, txs, stage, batch>>
vars == <<blobVars, batchVars>>

-----------------------------------------------------------------------------
\* numTransactions is a u16, which the transactions of a block never exceed:
\* its gas is that of some thousands.
BlockParams == [numTransactions : Nat, timeShift : 0..TimeShiftWidth - 1]
BlobParams == [numBlobs : 0..255, byteSize : Nat]
BatchParams == [blocks : Seq(BlockParams), lastBlockTimestamp : Nat,
                blobParams : BlobParams]
Proposed == [params : BatchParams, txList : Seq(Byte), sidecar : Seq(Seq(FieldElement))]
NoBatch == <<>>

TypeOK ==
    /\ data \in Seq(Byte) /\ blob \in Seq(FieldElement) /\ read \in Nat
    /\ params \in Seq(BlockParams) /\ Len(params) <= Len(blocks)
    /\ stage \in {"reading", "packing", "proposed"}
    /\ IF stage = "proposed" THEN batch \in Proposed ELSE batch = NoBatch

Init ==
    /\ BlobInit(<<>>)
    /\ blocks \in Chains
    /\ usesBlobs \in BOOLEAN /\ verifiesBlobs \in BOOLEAN
    /\ params = <<>> /\ txs = <<>>
    /\ stage = "reading"
    /\ batch = NoBatch

\* get_tx_envelopes_without_anchor_from_block
WithoutAnchor(block) == Tail(block.txs)

LastTimestamp ==
    IF params = <<>> THEN blocks[1].timestamp ELSE blocks[Len(params)].timestamp

\* One block more: its distance to the one before is at most widest, and
\* uncounted transactions at its front are those of the rollup.
TakeBlock(widest, uncounted) ==
    /\ stage = "reading" /\ Len(params) < Len(blocks)
    /\ LET block == blocks[Len(params) + 1]
           shift == block.timestamp - LastTimestamp
       IN  /\ shift <= widest
           /\ params' = Append(params,
                [numTransactions |-> Len(block.txs) - uncounted, timeShift |-> shift])
           /\ txs' = txs \o WithoutAnchor(block)
    /\ UNCHANGED <<blobVars, blocks, usesBlobs, verifiesBlobs, stage, batch>>

\* Mistake: a distance of the width itself is taken for a u8.
ReadBlockLate == TakeBlock(TimeShiftWidth, 1)
\* Mistake: the anchor transaction is counted as well.
ReadBlockWithAnchor == TakeBlock(TimeShiftWidth - 1, 0)

\* An iteration of read_blocks: the distance must fit a u8.
ReadBlock == TakeBlock(TimeShiftWidth - 1, 1)

\* read_blocks ends, with the last block or before one that is too far away,
\* and the transactions are compressed.
Compress ==
    /\ stage = "reading"
    /\ Len(params) < Len(blocks) =>
            blocks[Len(params) + 1].timestamp - LastTimestamp >= TimeShiftWidth
    /\ data' \in Streams
    /\ stage' = "packing"
    /\ UNCHANGED <<blobs, blob, read, blocks, usesBlobs, verifiesBlobs, params, txs, batch>>

\* get_tx_bytes_and_sidecar: the bytes become blobs, or stay a list beside
\* the parameters of the batch.
PackBlobs ==
    /\ stage = "packing" /\ usesBlobs
    /\ Encode
    /\ UNCHANGED batchVars

\* get_blob_params: u8 and u32.  No batch has 2^32 bytes.
GetBlobParams ==
    [numBlobs |-> IF usesBlobs THEN Len(blobs) % 256 ELSE 0,
     byteSize |-> Len(data)]

\* create_propose_batch_params and the call; the batch is included.
Propose ==
    /\ stage = "packing"
    /\ usesBlobs => Encoded
    /\ stage' = "proposed"
    /\ batch' = [params |-> [blocks |-> params, lastBlockTimestamp |-> LastTimestamp,
                             blobParams |-> GetBlobParams],
                 txList |-> IF usesBlobs THEN <<>> ELSE data,
                 sidecar |-> IF usesBlobs THEN blobs ELSE <<>>]
    /\ UNCHANGED <<blobVars, blocks, usesBlobs, verifiesBlobs, params, txs>>

Done == stage = "proposed" /\ UNCHANGED vars

Next == ReadBlock \/ Compress \/ PackBlobs \/ Propose \/ Done

Spec == Init /\ [][Next]_vars

-----------------------------------------------------------------------------
\* What the inbox makes of a proposal: the blocks get the next numbers (those
\* of the chain, 1 to Len(blocks)), and the parameters are hashed together
\* with the transactions, as calldata or as the hashes of their blobs.
LastBlockId == Len(batch.params.blocks)
InboxMeta ==
    [blocks |-> batch.params.blocks,
     lastBlockTimestamp |-> batch.params.lastBlockTimestamp,
     lastBlockId |-> LastBlockId,
     blobByteSize |-> batch.params.blobParams.byteSize,
     txsHash |-> <<batch.txList, batch.sidecar>>]

\* What the nodes derive: the timestamps backwards from that of the last
\* block, the transactions in the order of the list.  A list that does not
\* inflate counts as empty.
InflatedTxs ==
    LET blobParams == batch.params.blobParams
        bytes == IF blobParams.numBlobs = 0 THEN batch.txList
                 ELSE SubSeq(Decoded, 1, blobParams.byteSize)
    IN  IF bytes = data THEN txs ELSE <<>>

\* n transactions of a list, or what it has of them.
TxsAfter(from, n) ==
    LET end == IF from + n < Len(InflatedTxs) THEN from + n ELSE Len(InflatedTxs)
    IN  SubSeq(InflatedTxs, from + 1, end)

SumOf(f, from, to) ==
    LET sum[i \in from - 1..to] == IF i < from THEN 0 ELSE sum[i - 1] + f[i]
    IN  sum[to]

Derived ==
    LET n == LastBlockId
        shifts == [i \in 1..n |-> batch.params.blocks[i].timeShift]
        counts == [i \in 1..n |-> batch.params.blocks[i].numTransactions]
    IN  [i \in 1..n |->
            [timestamp |-> batch.params.lastBlockTimestamp - SumOf(shifts, i + 1, n),
             txs |-> <<Anchor>> \o TxsAfter(SumOf(counts, 1, i - 1), counts[i])]]

\* get_blob_hashes: the commitment stands for the blob.  The blobs are those
\* the same bytes were encoded to by the proposer.
TxsHash == IF verifiesBlobs THEN << <<>>, blobs>> ELSE <<data, <<>> >>

\* Mistake: the anchor transactions are counted as well.
ComputedBlocksWithAnchor(cached) ==
    [i \in DOMAIN cached |->
        [numTransactions |-> Len(cached[i].txs),
         timeShift |-> (cached[i].timestamp - cached[IF i = 1 THEN 1 ELSE i - 1].timestamp)
                       % TimeShiftWidth]]

\* block_params of compute_batch_meta_hash: the distance is cut to a u8.
ComputedBlocks(cached) ==
    [i \in DOMAIN cached |->
        [numTransactions |-> Len(WithoutAnchor(cached[i])),
         timeShift |-> (cached[i].timestamp - cached[IF i = 1 THEN 1 ELSE i - 1].timestamp)
                       % TimeShiftWidth]]

\* compute_batch_meta_hash over the cached blocks up to the last of the batch.
ComputedMeta ==
    [blocks |-> ComputedBlocks(SubSeq(blocks, 1, LastBlockId)),
     lastBlockTimestamp |-> batch.params.lastBlockTimestamp,
     lastBlockId |-> LastBlockId,
     blobByteSize |-> Len(data),
     txsHash |-> TxsHash]

-----------------------------------------------------------------------------
\* What a batch is for: the nodes derive from it the blocks that were
\* preconfirmed, up to the one the batch ends with (create_blob, read_blocks).
\* It does not hold: see Iterations.
DerivesBlocks ==
    stage = "proposed" => Derived = SubSeq(blocks, 1, Len(params))

\* It holds whenever the bytes fit into the iterations that are made for them.
DerivesBlocksIfFit ==
    (usesBlobs => AllFit) => DerivesBlocks

\* An operator that has the blocks of a batch in its cache and packs bytes the
\* same way computes the meta hash the inbox has stored, so that
\* verify_last_batch raises no alarm (verification.rs).
VerifierAgreesIfAlike ==
    stage = "proposed" /\ verifiesBlobs = usesBlobs => ComputedMeta = InboxMeta
=============================================================================
