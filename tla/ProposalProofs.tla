---------------------------- MODULE ProposalProofs ----------------------------
(***************************************************************************)
(* Theorems about Proposal, for every size of blobs and of time shifts,    *)
(* every chain of blocks and whatever the compression returns: the types,  *)
(* that all field elements are canonical, that an operator that packs as   *)
(* the proposer does computes the hash the inbox has stored, and that the  *)
(* nodes derive from a batch the blocks it was made of. The last one is    *)
(* about sums and concatenations over whole lists, which are defined by    *)
(* recursion: each is shown to be a function that grows in the same way,   *)
(* because a first place where the two differed would contradict that.     *)
(***************************************************************************)
EXTENDS Proposal, SequenceTheorems, WellFoundedInduction, TLAPS

-----------------------------------------------------------------------------
(* Blobs.                                                                  *)

\* A canonical field element.
Element == {field \in FieldElement : Canonical(field)}

BlobInv ==
    /\ data \in Seq(Byte) /\ read \in Nat
    /\ blob \in Seq(Element) /\ blobs \in Seq(Seq(Element))

\* A first byte below 64, and the bytes that may be anything.
LEMMA ElementType ==
    ASSUME NEW b \in LowBits, NEW s \in Seq(Byte), Len(s) = FieldBytes
    PROVE  <<b>> \o s \in Element
  <1> DEFINE field == <<b>> \o s
  <1>1. <<b>> \in Seq(Byte) /\ Len(<<b>>) = 1 /\ <<b>>[1] = b
    BY DEF LowBits, Byte
  <1>2. field \in Seq(Byte) /\ Len(field) = FieldBytes + 1 /\ field[1] = b
    BY <1>1, ConcatProperties, BlobAssumption
  <1> HIDE DEF field
  <1>3. field \in Element
    BY <1>2 DEF Element, Canonical, FieldElement
  <1> QED
    BY <1>3 DEF field

\* The same with metadata in front of the bytes.
LEMMA MetaElementType ==
    ASSUME NEW b \in LowBits, NEW m \in Seq(Byte), NEW s \in Seq(Byte),
           Len(m) + Len(s) = FieldBytes
    PROVE  <<b>> \o m \o s \in Element
  <1>1. <<b>> \in Seq(Byte)
    BY DEF LowBits, Byte
  <1>2. <<b>> \o m \o s = <<b>> \o (m \o s)
    BY <1>1, ConcatAssociative
  <1>3. m \o s \in Seq(Byte) /\ Len(m \o s) = FieldBytes
    BY ConcatProperties
  <1> QED
    BY <1>2, <1>3, ElementType

\* The rest of a blob is canonical too.
LEMMA ZeroElement == [j \in 1..FieldBytes + 1 |-> 0] \in Element
  <1> DEFINE zero == [j \in 1..FieldBytes + 1 |-> 0]
  <1>1. FieldBytes + 1 \in Nat /\ 1 \in 1..FieldBytes + 1
    BY BlobAssumption DEF MetadataLength
  <1>2. \A j \in 1..FieldBytes + 1 : zero[j] \in Byte
    BY DEF Byte
  <1>3. zero \in [1..FieldBytes + 1 -> Byte] /\ zero[1] \in LowBits
    BY <1>1, <1>2 DEF LowBits
  <1> HIDE DEF zero
  <1>4. zero \in Seq(Byte) /\ Len(zero) = FieldBytes + 1
    BY <1>1, <1>3
  <1>5. zero \in Element
    BY <1>3, <1>4 DEF Element, Canonical, FieldElement
  <1> QED
    BY <1>5 DEF zero

\* There is room for data in a blob.
LEMMA BlobSize == MaxBlobDataSize \in Nat
  <1>1. DataSizePerIteration \in Nat /\ DataSizePerIteration >= 4
    BY BlobAssumption DEF DataSizePerIteration, MetadataLength
  <1>2. \A p, n \in Nat : p >= 4 /\ n >= 1 => p * n - 4 \in Nat
    <2> SUFFICES ASSUME NEW p \in Nat, NEW n \in Nat, p >= 4, n >= 1 PROVE p * n - 4 \in Nat
      OBVIOUS
    <2>1. p * n = p + p * (n - 1) /\ n - 1 \in Nat
      OBVIOUS
    <2>2. p * (n - 1) \in Nat
      BY <2>1
    <2> QED
      BY <2>1, <2>2
  <1> QED
    BY <1>1, <1>2, BlobAssumption DEF MaxBlobDataSize, MetadataLength

\* A chunk is made of bytes.
LEMMA ChunkType ==
    ASSUME data \in Seq(Byte), NEW k \in Nat, ChunkStart(k) < Len(data)
    PROVE  Chunk(k) \in Seq(Byte)
  <1> DEFINE first == ChunkStart(k) + 1
             last == ChunkStart(k) + ChunkLength(k)
  <1>1. ChunkStart(k) \in Nat
    BY BlobSize DEF ChunkStart
  <1>2. last \in Int /\ first \in Int /\ last <= Len(data) /\ first >= 1
    BY <1>1, BlobSize DEF ChunkLength
  <1>3. \A i \in first..last : data[i] \in Byte
    BY <1>2
  <1> HIDE DEF first, last
  <1>4. SubSeq(data, first, last) \in Seq(Byte)
    BY <1>2, <1>3, SubSeqProperties
  <1> QED
    BY <1>4 DEF Chunk, first, last

\* The reader returns a byte, past the end as well.
LEMMA ReadByteType ==
    ASSUME NEW chunk \in Seq(Byte), NEW pos \in Nat
    PROVE  ReadByte(chunk, pos) \in Byte
  <1>1. pos < Len(chunk) => pos + 1 \in 1..Len(chunk)
    OBVIOUS
  <1>2. pos < Len(chunk) => chunk[pos + 1] \in Byte
    BY <1>1, ElementOfSeq
  <1>3. 0 \in Byte
    BY DEF Byte
  <1> QED
    BY <1>2, <1>3 DEF ReadByte

\* And as many bytes as it is asked for.
LEMMA ReadBytesType ==
    ASSUME NEW chunk \in Seq(Byte), NEW pos \in Nat, NEW n \in Nat
    PROVE  ReadBytes(chunk, pos, n) \in Seq(Byte) /\ Len(ReadBytes(chunk, pos, n)) = n
  <1>1. \A i \in 1..n : ReadByte(chunk, pos + i - 1) \in Byte
    BY ReadByteType
  <1> QED
    BY <1>1 DEF ReadBytes

\* The metadata are four bytes.
LEMMA VersionAndSizeType ==
    ASSUME NEW size \in Nat
    PROVE  VersionAndSize(size) \in Seq(Byte) /\ Len(VersionAndSize(size)) = 4
  <1>1. /\ 0 \in Byte /\ (size \div 65536) % 256 \in Byte /\ (size \div 256) % 256 \in Byte
        /\ size % 256 \in Byte
    BY DEF Byte
  <1> QED
    BY <1>1 DEF VersionAndSize

\* The first bytes leave the upper two bits free.
LEMMA FirstBytes ==
    ASSUME NEW x \in Byte, NEW y \in Byte, NEW z \in Byte
    PROVE  /\ FirstOfX(x) \in LowBits /\ FirstOfY(y, x) \in LowBits
           /\ FirstOfZ(z) \in LowBits /\ FirstOfRest(z, y) \in LowBits
  <1>1. \A b \in Byte : b \div 64 \in 0..3 /\ b \div 16 \in 0..15 /\ b % 16 \in 0..15
                        /\ b % 64 \in 0..63
    BY DEF Byte
  <1>2. \A q \in 0..3, r \in 0..15 : r + q * 16 \in 0..63 /\ q * 16 + r \in 0..63
    OBVIOUS
  <1>3. x \div 64 \in 0..3 /\ z \div 64 \in 0..3 /\ y % 16 \in 0..15 /\ y \div 16 \in 0..15
        /\ x % 64 \in 0..63 /\ z % 64 \in 0..63
    BY <1>1
  <1>4. (y % 16) + (x \div 64) * 16 \in 0..63 /\ (z \div 64) * 16 + y \div 16 \in 0..63
    BY <1>2, <1>3
  <1> QED
    BY <1>3, <1>4 DEF FirstOfX, FirstOfY, FirstOfZ, FirstOfRest, LowBits

\* An iteration writes four canonical elements.
LEMMA WriteType ==
    ASSUME BlobInv, WriteIteration
    PROVE  BlobInv'
  <1> DEFINE chunk == Chunk(Len(blobs))
             meta == IF blob = <<>> THEN VersionAndSize(Len(chunk)) ELSE <<>>
             n == FieldBytes - Len(meta)
             afterX == read + n + 1
             afterY == afterX + FieldBytes + 1
             afterZ == afterY + FieldBytes + 1
             x == ReadByte(chunk, afterX - 1)
             y == ReadByte(chunk, afterY - 1)
             z == ReadByte(chunk, afterZ - 1)
             e1 == <<FirstOfX(x)>> \o meta \o ReadBytes(chunk, read, n)
             e2 == <<FirstOfY(y, x)>> \o ReadBytes(chunk, afterX, FieldBytes)
             e3 == <<FirstOfZ(z)>> \o ReadBytes(chunk, afterY, FieldBytes)
             e4 == <<FirstOfRest(z, y)>> \o ReadBytes(chunk, afterZ, FieldBytes)
  <1>1. /\ blob' = blob \o <<e1, e2, e3, e4>> /\ read' = afterZ + FieldBytes
        /\ UNCHANGED <<data, blobs>>
    BY DEF WriteIteration
  <1>2. chunk \in Seq(Byte)
    <2>1. Len(blobs) \in Nat /\ data \in Seq(Byte)
      BY DEF BlobInv
    <2>2. ChunkStart(Len(blobs)) \in Nat
      BY <2>1, BlobSize DEF ChunkStart
    <2>3. ChunkStart(Len(blobs)) < Len(data)
      BY <2>1, <2>2 DEF WriteIteration, Encoded
    <2> QED
      BY <2>1, <2>3, ChunkType
  <1> HIDE DEF chunk
  <1>3. meta \in Seq(Byte) /\ Len(meta) \in {0, 4}
    <2>1. Len(chunk) \in Nat
      BY <1>2
    <2>2. VersionAndSize(Len(chunk)) \in Seq(Byte) /\ Len(VersionAndSize(Len(chunk))) = 4
      BY <2>1, VersionAndSizeType
    <2>3. <<>> \in Seq(Byte) /\ Len(<<>>) = 0
      BY EmptySeq
    <2> QED
      BY <2>2, <2>3
  <1> HIDE DEF meta
  <1>4. FieldBytes \in Nat /\ n \in Nat /\ Len(meta) + n = FieldBytes
    <2>1. FieldBytes \in Nat /\ FieldBytes >= 4
      BY BlobAssumption DEF MetadataLength
    <2>2. CASE Len(meta) = 0
      BY <2>1, <2>2
    <2>3. CASE Len(meta) = 4
      BY <2>1, <2>3
    <2> QED
      BY <1>3, <2>2, <2>3
  <1> HIDE DEF n
  <1>5. /\ read \in Nat /\ afterX \in Nat /\ afterY \in Nat /\ afterZ \in Nat
        /\ afterX - 1 \in Nat /\ afterY - 1 \in Nat /\ afterZ - 1 \in Nat
    BY <1>4 DEF BlobInv
  <1> HIDE DEF afterX, afterY, afterZ
  <1>6. x \in Byte /\ y \in Byte /\ z \in Byte
    BY <1>2, <1>5, ReadByteType
  <1> HIDE DEF x, y, z
  <1>7. /\ FirstOfX(x) \in LowBits /\ FirstOfY(y, x) \in LowBits
        /\ FirstOfZ(z) \in LowBits /\ FirstOfRest(z, y) \in LowBits
    BY <1>6, FirstBytes
  <1>8. e1 \in Element
    <2>1. ReadBytes(chunk, read, n) \in Seq(Byte) /\ Len(ReadBytes(chunk, read, n)) = n
      BY <1>2, <1>4, <1>5, ReadBytesType
    <2> QED
      BY <1>3, <1>4, <1>7, <2>1, MetaElementType
  <1>9. \A pos \in Nat : /\ ReadBytes(chunk, pos, FieldBytes) \in Seq(Byte)
                         /\ Len(ReadBytes(chunk, pos, FieldBytes)) = FieldBytes
    BY <1>2, <1>4, ReadBytesType
  <1>10. e2 \in Element /\ e3 \in Element /\ e4 \in Element
    BY <1>5, <1>7, <1>9, ElementType
  <1> HIDE DEF e1, e2, e3, e4
  <1>11. <<e1, e2, e3, e4>> \in Seq(Element)
    BY <1>8, <1>10
  <1>12. blob \in Seq(Element)
    BY DEF BlobInv
  <1>13. blob' \in Seq(Element)
    BY <1>1, <1>11, <1>12, ConcatProperties
  <1>14. read' \in Nat
    BY <1>1, <1>4, <1>5
  <1> QED
    BY <1>1, <1>13, <1>14 DEF BlobInv

\* The rest of a blob is zero.
LEMMA FinishType ==
    ASSUME BlobInv, FinishBlob
    PROVE  BlobInv'
  <1> DEFINE zero == [j \in 1..FieldBytes + 1 |-> 0]
             length == 4 * MaxIterations - Len(blob)
             rest == [i \in 1..length |-> zero]
  <1>1. /\ blobs' = Append(blobs, blob \o rest) /\ blob' = <<>> /\ read' = 0 /\ data' = data
    BY DEF FinishBlob
  <1>2. zero \in Element
    BY ZeroElement
  <1> HIDE DEF zero
  <1>3. length \in Int
    BY BlobAssumption DEF BlobInv
  <1> HIDE DEF length
  <1>4. rest \in Seq(Element)
    <2>1. CASE length >= 0
      <3>1. length \in Nat
        BY <1>3, <2>1
      <3> QED
        BY <1>2, <3>1
    <2>2. CASE length < 0
      <3>1. 1..length = 1..0 /\ 0 \in Nat
        BY <1>3, <2>2
      <3>2. rest \in [1..0 -> Element]
        BY <1>2, <3>1
      <3>3. [1..0 -> Element] \subseteq Seq(Element)
        BY <3>1, SeqDef
      <3> QED
        BY <3>2, <3>3
    <2> QED
      BY <1>3, <2>1, <2>2
  <1> HIDE DEF rest
  <1>5. blob \in Seq(Element) /\ blobs \in Seq(Seq(Element)) /\ data \in Seq(Byte)
    BY DEF BlobInv
  <1>6. blob \o rest \in Seq(Element)
    BY <1>4, <1>5, ConcatProperties
  <1>7. blobs' \in Seq(Seq(Element))
    BY <1>1, <1>5, <1>6, AppendProperties
  <1> QED
    BY <1>1, <1>5, <1>7 DEF BlobInv

-----------------------------------------------------------------------------
(* Batches.                                                                *)

\* How far block i is from the one before it.
Distance(i) == blocks[i].timestamp - blocks[IF i = 1 THEN 1 ELSE i - 1].timestamp

\* The parameters are those of the first blocks, and their distances fit.
ParamsInv ==
    /\ blocks \in Chains
    /\ params \in Seq(BlockParams) /\ Len(params) <= Len(blocks)
    /\ \A i \in 1..Len(params) :
          params[i] = [numTransactions |-> Len(blocks[i].txs) - 1, timeShift |-> Distance(i)]

\* The batch holds what was packed.
BatchInv ==
    /\ usesBlobs \in BOOLEAN /\ verifiesBlobs \in BOOLEAN
    /\ stage \in {"reading", "packing", "proposed"}
    /\ stage # "proposed" => batch = NoBatch
    /\ stage = "proposed" =>
         batch = [params |-> [blocks |-> params, lastBlockTimestamp |-> LastTimestamp,
                              blobParams |-> GetBlobParams],
                  txList |-> IF usesBlobs THEN <<>> ELSE data,
                  sidecar |-> IF usesBlobs THEN blobs ELSE <<>>]

ProposalInv == BlobInv /\ ParamsInv /\ BatchInv

\* The blocks of a chain.
LEMMA ChainBlocks ==
    ASSUME NEW chain \in Chains
    PROVE  /\ chain \in Seq(Range(chain)) /\ chain # <<>>
           /\ \A i \in 1..Len(chain) :
                 /\ chain[i].timestamp \in Nat
                 /\ Len(chain[i].txs) \in Nat \ {0}
                 /\ Len(Tail(chain[i].txs)) = Len(chain[i].txs) - 1
           /\ \A i \in 2..Len(chain) : chain[i - 1].timestamp <= chain[i].timestamp
  <1>1. chain \in Seq(Range(chain)) /\ chain # <<>>
    BY ChainsAssumption
  <1>2. ASSUME NEW i \in 1..Len(chain)
        PROVE  /\ chain[i].timestamp \in Nat
               /\ Len(chain[i].txs) \in Nat \ {0}
               /\ Len(Tail(chain[i].txs)) = Len(chain[i].txs) - 1
    <2>1. chain[i] \in Range(chain)
      BY <1>1, ElementOfSeq
    <2> DEFINE all == chain[i].txs
    <2>2. chain[i].timestamp \in Nat /\ all # <<>> /\ all \in Seq(Range(all))
      BY <2>1, ChainsAssumption
    <2> HIDE DEF all
    <2>3. Len(all) \in Nat \ {0} /\ Len(Tail(all)) = Len(all) - 1
      BY <2>2, EmptySeq, HeadTailProperties
    <2> QED
      BY <2>2, <2>3 DEF all
  <1>3. \A i \in 2..Len(chain) : chain[i - 1].timestamp <= chain[i].timestamp
    BY ChainsAssumption
  <1> QED
    BY <1>1, <1>2, <1>3

\* Initially nothing is read, packed or proposed.
LEMMA ProposalInit == Init => ProposalInv
  <1> SUFFICES ASSUME Init PROVE ProposalInv
    OBVIOUS
  <1>1. blocks \in Chains /\ params = <<>> /\ blob = <<>> /\ blobs = <<>> /\ data = <<>> /\ read = 0
    BY DEF Init, BlobInit
  <1>2. Len(blocks) \in Nat
    BY <1>1, ChainBlocks
  <1>3. BlobInv
    BY <1>1 DEF BlobInv
  <1>4. ParamsInv
    BY <1>1, <1>2 DEF ParamsInv
  <1> QED
    BY <1>3, <1>4 DEF Init, BatchInv, ProposalInv

\* One block more.
LEMMA ReadBlockKeeps ==
    ASSUME ProposalInv, ReadBlock
    PROVE  ProposalInv'
  <1> DEFINE n == Len(params) + 1
             taken == [numTransactions |-> Len(blocks[n].txs) - 1, timeShift |-> Distance(n)]
  <1>1. /\ params \in Seq(BlockParams) /\ Len(params) \in Nat /\ Len(params) < Len(blocks)
        /\ blocks \in Chains /\ Len(blocks) \in Nat /\ TimeShiftWidth \in Nat \ {0}
    BY ChainBlocks, ProposalAssumption
       DEF ProposalInv, ParamsInv, ReadBlock, TakeBlock
  <1>2. n \in 1..Len(blocks) /\ n \in Nat
    BY <1>1
  <1>3. blocks[n].timestamp - LastTimestamp = Distance(n)
    <2>1. CASE params = <<>>
      BY <1>1, <2>1 DEF LastTimestamp, Distance
    <2>2. CASE params # <<>>
      <3>1. Len(params) # 0
        BY <1>1, <2>2, EmptySeq
      <3>2. n # 1 /\ n - 1 = Len(params)
        BY <1>1, <3>1
      <3> QED
        BY <2>2, <3>2 DEF LastTimestamp, Distance
    <2> QED
      BY <2>1, <2>2
  <1>4. /\ Distance(n) <= TimeShiftWidth - 1
        /\ params' = Append(params, taken)
        /\ UNCHANGED <<blobVars, blocks, usesBlobs, verifiesBlobs, stage, batch>>
        /\ stage = "reading"
    BY <1>3 DEF ReadBlock, TakeBlock
  <1>5. Distance(n) \in Nat
    <2>1. blocks[n].timestamp \in Nat
      BY <1>1, <1>2, ChainBlocks
    <2>2. CASE n = 1
      BY <2>1, <2>2 DEF Distance
    <2>3. CASE n # 1
      <3>1. n \in 2..Len(blocks) /\ n - 1 \in 1..Len(blocks)
        BY <1>1, <1>2, <2>3
      <3>2. blocks[n - 1].timestamp \in Nat /\ blocks[n - 1].timestamp <= blocks[n].timestamp
        BY <1>1, <3>1, ChainBlocks
      <3> QED
        BY <2>1, <2>3, <3>2 DEF Distance
    <2> QED
      BY <2>2, <2>3
  <1>6. Len(blocks[n].txs) - 1 \in Nat
    <2>1. Len(blocks[n].txs) \in Nat \ {0}
      BY <1>1, <1>2, ChainBlocks
    <2> QED
      BY <2>1
  <1>7. taken \in BlockParams
    BY <1>1, <1>4, <1>5, <1>6 DEF BlockParams
  <1> HIDE DEF taken
  <1>8. /\ params' \in Seq(BlockParams) /\ Len(params') = n
        /\ \A i \in 1..Len(params) : params'[i] = params[i]
        /\ params'[n] = taken
    BY <1>1, <1>4, <1>7, AppendProperties
  <1>9. ParamsInv'
    <2>1. ASSUME NEW i \in 1..n
          PROVE  params'[i] = [numTransactions |-> Len(blocks[i].txs) - 1,
                               timeShift |-> Distance(i)]
      <3>1. CASE i = n
        BY <1>8, <3>1 DEF taken
      <3>2. CASE i # n
        <4>1. i \in 1..Len(params)
          BY <1>1, <3>2
        <4> QED
          BY <1>8, <4>1 DEF ProposalInv, ParamsInv
      <3> QED
        BY <3>1, <3>2
    <2>2. \A i : Distance(i)' = Distance(i)
      BY <1>4 DEF Distance
    <2> QED
      BY <1>1, <1>2, <1>4, <1>8, <2>1, <2>2 DEF ParamsInv
  <1>10. BlobInv' /\ BatchInv'
    BY <1>4 DEF ProposalInv, BlobInv, BatchInv, blobVars
  <1> QED
    BY <1>9, <1>10 DEF ProposalInv

\* The other steps.
LEMMA ProposalStep == ProposalInv /\ [Next]_vars => ProposalInv'
  <1> SUFFICES ASSUME ProposalInv, [Next]_vars PROVE ProposalInv'
    OBVIOUS
  <1>1. CASE ReadBlock
    BY <1>1, ReadBlockKeeps
  <1>2. ASSUME UNCHANGED <<blocks, params>> PROVE ParamsInv'
    BY <1>2 DEF ProposalInv, ParamsInv, Distance
  <1>3. CASE Compress
    <2>1. UNCHANGED <<blocks, params, blob, blobs, read, usesBlobs, verifiesBlobs, batch>>
          /\ data' \in Seq(Byte) /\ stage = "reading" /\ stage' = "packing"
      BY <1>3, ProposalAssumption DEF Compress
    <2> QED
      BY <1>2, <2>1 DEF ProposalInv, BlobInv, BatchInv
  <1>4. CASE PackBlobs
    <2>1. UNCHANGED batchVars /\ stage = "packing" /\ (WriteIteration \/ FinishBlob)
      BY <1>4 DEF PackBlobs, Encode
    <2>2. BlobInv'
      BY <2>1, WriteType, FinishType DEF ProposalInv
    <2>3. BatchInv'
      BY <2>1 DEF ProposalInv, BatchInv, batchVars
    <2> QED
      BY <1>2, <2>1, <2>2, <2>3 DEF ProposalInv, batchVars
  <1>5. CASE Propose
    <2>1. /\ UNCHANGED <<blobVars, blocks, usesBlobs, verifiesBlobs, params, txs>>
          /\ stage' = "proposed"
          /\ batch' = [params |-> [blocks |-> params, lastBlockTimestamp |-> LastTimestamp,
                                   blobParams |-> GetBlobParams],
                       txList |-> IF usesBlobs THEN <<>> ELSE data,
                       sidecar |-> IF usesBlobs THEN blobs ELSE <<>>]
      BY <1>5 DEF Propose
    <2>2. LastTimestamp' = LastTimestamp /\ GetBlobParams' = GetBlobParams
      BY <2>1 DEF LastTimestamp, GetBlobParams, blobVars
    <2>3. BatchInv'
      BY <2>1, <2>2 DEF ProposalInv, BatchInv, blobVars
    <2>4. BlobInv'
      BY <2>1 DEF ProposalInv, BlobInv, blobVars
    <2> QED
      BY <1>2, <2>1, <2>3, <2>4 DEF ProposalInv
  <1>6. CASE UNCHANGED vars
    BY <1>6 DEF vars, blobVars, batchVars, ProposalInv, BlobInv, BatchInv, ParamsInv,
                Distance, LastTimestamp, GetBlobParams
  <1> QED
    BY <1>1, <1>3, <1>4, <1>5, <1>6 DEF Next, Done

-----------------------------------------------------------------------------
(* What follows.                                                           *)

\* The last timestamp is one of a block.
LEMMA LastTimestampType ==
    ASSUME ParamsInv
    PROVE  LastTimestamp \in Nat
  <1>1. /\ params \in Seq(BlockParams) /\ Len(params) \in Nat /\ Len(params) <= Len(blocks)
        /\ blocks \in Chains /\ Len(blocks) \in Nat \ {0}
    <2>1. blocks \in Chains /\ blocks \in Seq(Range(blocks)) /\ blocks # <<>>
      BY ChainBlocks DEF ParamsInv
    <2>2. Len(blocks) \in Nat \ {0}
      BY <2>1, EmptySeq
    <2> QED
      BY <2>1, <2>2 DEF ParamsInv
  <1>2. \A i \in 1..Len(blocks) : blocks[i].timestamp \in Nat
    BY <1>1, ChainBlocks
  <1>3. CASE params = <<>>
    BY <1>1, <1>2, <1>3 DEF LastTimestamp
  <1>4. CASE params # <<>>
    <2>1. Len(params) \in 1..Len(blocks)
      BY <1>1, <1>4, EmptySeq
    <2> QED
      BY <1>2, <1>4, <2>1 DEF LastTimestamp
  <1> QED
    BY <1>3, <1>4

\* The invariant implies the types.
LEMMA TypeFollows == ProposalInv => TypeOK
  <1> SUFFICES ASSUME ProposalInv PROVE TypeOK
    OBVIOUS
  <1>1. Element \subseteq FieldElement
    BY DEF Element
  <1>2. \A s \in Seq(Element) : s \in Seq(FieldElement)
    BY <1>1, SeqMonotonic
  <1>3. Seq(Element) \subseteq Seq(FieldElement)
    BY <1>2
  <1>4. blob \in Seq(FieldElement) /\ blobs \in Seq(Seq(FieldElement))
    BY <1>2, <1>3, SeqMonotonic DEF ProposalInv, BlobInv
  <1>5. data \in Seq(Byte) /\ Len(data) \in Nat /\ Len(blobs) \in Nat /\ read \in Nat
    BY DEF ProposalInv, BlobInv
  <1>6. params \in Seq(BlockParams) /\ Len(params) <= Len(blocks) /\ LastTimestamp \in Nat
    BY LastTimestampType DEF ProposalInv, ParamsInv
  <1>7. stage = "proposed" => batch \in Proposed
    <2> SUFFICES ASSUME stage = "proposed" PROVE batch \in Proposed
      OBVIOUS
    <2>1. GetBlobParams \in BlobParams
      <3> DEFINE count == Len(blobs)
      <3>1. count \in Nat
        BY <1>5
      <3>2. GetBlobParams = [numBlobs |-> IF usesBlobs THEN count % 256 ELSE 0,
                             byteSize |-> Len(data)]
        BY DEF GetBlobParams
      <3> HIDE DEF count
      <3>3. count % 256 \in 0..255 /\ 0 \in 0..255
        BY <3>1
      <3> QED
        BY <1>5, <3>2, <3>3 DEF BlobParams
    <2>2. <<>> \in Seq(Byte) /\ <<>> \in Seq(Seq(FieldElement))
      BY EmptySeq
    <2>3. batch = [params |-> [blocks |-> params, lastBlockTimestamp |-> LastTimestamp,
                               blobParams |-> GetBlobParams],
                   txList |-> IF usesBlobs THEN <<>> ELSE data,
                   sidecar |-> IF usesBlobs THEN blobs ELSE <<>>]
      BY DEF ProposalInv, BatchInv
    <2>4. [blocks |-> params, lastBlockTimestamp |-> LastTimestamp,
           blobParams |-> GetBlobParams] \in BatchParams
      BY <1>6, <2>1 DEF BatchParams
    <2>5. /\ (IF usesBlobs THEN <<>> ELSE data) \in Seq(Byte)
          /\ (IF usesBlobs THEN <<>> ELSE blobs) \in Seq(Seq(FieldElement))
          /\ (IF usesBlobs THEN blobs ELSE <<>>) \in Seq(Seq(FieldElement))
      BY <1>4, <1>5, <2>2
    <2> QED
      BY <2>3, <2>4, <2>5 DEF Proposed
  <1>8. stage \in {"reading", "packing", "proposed"} /\ (stage # "proposed" => batch = NoBatch)
    BY DEF ProposalInv, BatchInv
  <1> QED
    BY <1>4, <1>5, <1>6, <1>7, <1>8 DEF TypeOK

\* The invariant implies that all field elements are canonical.
LEMMA CanonicalFollows == ProposalInv => FieldsCanonical
  <1> SUFFICES ASSUME ProposalInv PROVE FieldsCanonical
    OBVIOUS
  <1>1. \A s \in Seq(Element) : \A i \in DOMAIN s : Canonical(s[i])
    BY DEF Element
  <1>2. blob \in Seq(Element) /\ \A k \in DOMAIN blobs : blobs[k] \in Seq(Element)
    BY DEF ProposalInv, BlobInv
  <1> QED
    BY <1>1, <1>2 DEF FieldsCanonical

\* The verifier computes the parameters the proposer read.
LEMMA ComputedParams ==
    ASSUME ProposalInv
    PROVE  ComputedBlocks(SubSeq(blocks, 1, Len(params))) = params
  <1> DEFINE n == Len(params)
             cached == SubSeq(blocks, 1, n)
             computed == ComputedBlocks(cached)
  <1>1. /\ params \in Seq(BlockParams) /\ n \in Nat /\ n <= Len(blocks)
        /\ blocks \in Chains /\ blocks \in Seq(Range(blocks)) /\ Len(blocks) \in Nat
    BY ChainBlocks DEF ProposalInv, ParamsInv
  <1>2. cached \in Seq(Range(blocks)) /\ Len(cached) = n /\ \A i \in 1..n : cached[i] = blocks[i]
    <2>1. \A i \in 1..n : blocks[i] \in Range(blocks)
      BY <1>1, ElementOfSeq
    <2> QED
      BY <1>1, <2>1, SubSeqProperties
  <1>3. DOMAIN cached = 1..n
    BY <1>1, <1>2
  <1> HIDE DEF cached
  <1>4. ASSUME NEW i \in 1..n
        PROVE  computed[i] = params[i]
    <2>1. Distance(i) = cached[i].timestamp - cached[IF i = 1 THEN 1 ELSE i - 1].timestamp
      BY <1>1, <1>2 DEF Distance
    <2>2. /\ params[i] = [numTransactions |-> Len(blocks[i].txs) - 1, timeShift |-> Distance(i)]
          /\ params[i] \in BlockParams
      BY <1>1, ElementOfSeq DEF ProposalInv, ParamsInv
    <2>3. Distance(i) \in 0..TimeShiftWidth - 1
      <3>1. params[i].timeShift \in 0..TimeShiftWidth - 1
        BY <2>2 DEF BlockParams
      <3> QED
        BY <2>2, <3>1
    <2>4. Distance(i) % TimeShiftWidth = Distance(i)
      <3>1. \A w \in Nat \ {0} : \A d \in 0..w - 1 : d % w = d
        OBVIOUS
      <3> QED
        BY <2>3, <3>1, ProposalAssumption
    <2>5. Len(WithoutAnchor(cached[i])) = Len(blocks[i].txs) - 1
      BY <1>1, <1>2, ChainBlocks DEF WithoutAnchor
    <2>6. computed[i] = [numTransactions |-> Len(WithoutAnchor(cached[i])),
                         timeShift |-> Distance(i) % TimeShiftWidth]
      BY <1>3, <2>1 DEF ComputedBlocks
    <2> QED
      BY <2>2, <2>4, <2>5, <2>6
  <1>5. DOMAIN computed = 1..n /\ computed = [i \in 1..n |-> computed[i]]
    BY <1>3 DEF ComputedBlocks
  <1>6. DOMAIN params = 1..n /\ params = [i \in 1..n |-> params[i]]
    BY <1>1, LenProperties
  <1> HIDE DEF computed
  <1>7. computed = params
    BY <1>4, <1>5, <1>6
  <1> QED
    BY <1>7 DEF computed, cached

\* The invariant implies that the hashes agree.
LEMMA VerifierFollows == ProposalInv => VerifierAgreesIfAlike
  <1> SUFFICES ASSUME ProposalInv, stage = "proposed", verifiesBlobs = usesBlobs
               PROVE  ComputedMeta = InboxMeta
    BY DEF VerifierAgreesIfAlike
  <1>1. batch = [params |-> [blocks |-> params, lastBlockTimestamp |-> LastTimestamp,
                             blobParams |-> GetBlobParams],
                 txList |-> IF usesBlobs THEN <<>> ELSE data,
                 sidecar |-> IF usesBlobs THEN blobs ELSE <<>>]
    BY DEF ProposalInv, BatchInv
  <1>2. /\ batch.params.blocks = params /\ LastBlockId = Len(params)
        /\ batch.params.lastBlockTimestamp = LastTimestamp
        /\ batch.params.blobParams.byteSize = Len(data)
        /\ batch.txList = IF usesBlobs THEN <<>> ELSE data
        /\ batch.sidecar = IF usesBlobs THEN blobs ELSE <<>>
    BY <1>1 DEF LastBlockId, GetBlobParams
  <1>3. <<batch.txList, batch.sidecar>> = TxsHash
    BY <1>2 DEF TxsHash
  <1>4. ComputedBlocks(SubSeq(blocks, 1, LastBlockId)) = params
    BY <1>2, ComputedParams
  <1> QED
    BY <1>2, <1>3, <1>4 DEF ComputedMeta, InboxMeta

-----------------------------------------------------------------------------
(* Functions defined by recursion: least counterexamples.                 *)

\* What holds at the first number of an interval, and at the next one where it
\* holds, holds in all of it.
LEMMA AllFromFirst ==
    ASSUME NEW T, NEW a \in Int, NEW b \in Int, a \in T,
           \A i \in a + 1..b : i - 1 \in T => i \in T
    PROVE  \A i \in a..b : i \in T
  <1> DEFINE R == {p \in Nat \X Nat : p[1] < p[2]}
             Bad == {d \in Nat : a + d <= b /\ a + d \notin T}
  <1>1. IsWellFoundedOn(R, Nat)
    BY NatLessThanWellFounded DEF OpToRel
  <1>2. Bad = {}
    <2> SUFFICES ASSUME Bad # {} PROVE FALSE
      OBVIOUS
    <2>1. PICK x \in Bad : \A y \in Bad : ~(<<y, x>> \in R)
      <3>1. Bad \subseteq Nat
        OBVIOUS
      <3> HIDE DEF R, Bad
      <3> QED
        BY <1>1, <3>1, WFMin
    <2>2. x \in Nat /\ a + x <= b /\ a + x \notin T
      OBVIOUS
    <2>3. x # 0
      BY <2>2
    <2>4. x - 1 \in Nat /\ a + x \in a + 1..b /\ (a + x) - 1 = a + (x - 1)
      BY <2>2, <2>3
    <2>5. a + (x - 1) \notin T
      <3>1. ~((a + x) - 1 \in T)
        BY <2>2, <2>4
      <3> QED
        BY <2>4, <3>1
    <2>6. x - 1 \in Bad
      BY <2>2, <2>4, <2>5
    <2>7. <<x - 1, x>> \in Nat \X Nat /\ <<x - 1, x>>[1] = x - 1 /\ <<x - 1, x>>[2] = x
          /\ x - 1 < x
      BY <2>2, <2>4
    <2>8. <<x - 1, x>> \in R
      BY <2>7
    <2>9. ~(<<x - 1, x>> \in R)
      <3> HIDE DEF R, Bad
      <3> QED
        BY <2>1, <2>6
    <2> HIDE DEF R
    <2> QED
      BY <2>8, <2>9
  <1>3. ASSUME NEW i \in a..b PROVE i \in T
    <2>1. PICK d \in Nat : i = a + d
      <3>1. i - a \in Nat /\ i = a + (i - a)
        OBVIOUS
      <3> QED
        BY <3>1
    <2>2. d \notin Bad
      BY <1>2
    <2> QED
      BY <2>1, <2>2
  <1> QED
    BY <1>3

\* g grows from a to b as the sum of f does.
AddsUp(g, f, a, b) == g[a - 1] = 0 /\ \A i \in a..b : g[i] = g[i - 1] + f[i]

\* A function that grows as the sum does is the sum.
LEMMA SumIs ==
    ASSUME NEW f, NEW g, NEW a \in Int, NEW b \in Int, a <= b + 1, AddsUp(g, f, a, b)
    PROVE  SumOf(f, a, b) = g[b]
  <1> DEFINE Grow(s) == [i \in a - 1..b |-> IF i < a THEN 0 ELSE s[i - 1] + f[i]]
             sum == CHOOSE s : s = Grow(s)
             w == [i \in a - 1..b |-> g[i]]
             T == {i \in a - 1..b : sum[i] = g[i]}
  <1>1. SumOf(f, a, b) = sum[b]
    BY DEF SumOf
  <1>2. w = Grow(w)
    <2>1. ASSUME NEW i \in a - 1..b PROVE g[i] = IF i < a THEN 0 ELSE w[i - 1] + f[i]
      <3>1. CASE i < a
        <4>1. i = a - 1
          BY <3>1
        <4> QED
          BY <3>1, <4>1 DEF AddsUp
      <3>2. CASE ~(i < a)
        <4>1. i \in a..b /\ i - 1 \in a - 1..b
          BY <3>2
        <4>2. w[i - 1] = g[i - 1]
          BY <4>1
        <4> QED
          BY <3>2, <4>1, <4>2 DEF AddsUp
      <3> QED
        BY <3>1, <3>2
    <2> QED
      BY <2>1
  <1> HIDE DEF w
  <1>3. sum = Grow(sum)
    <2> HIDE DEF Grow
    <2> QED
      BY <1>2
  <1> HIDE DEF sum
  <1>4. a - 1 \in T
    <2>1. a - 1 \in a - 1..b /\ a - 1 < a
      OBVIOUS
    <2> QED
      BY <1>3, <2>1 DEF AddsUp
  <1>5. ASSUME NEW i \in (a - 1) + 1..b, i - 1 \in T PROVE i \in T
    <2>1. i \in a..b /\ i \in a - 1..b /\ ~(i < a)
      OBVIOUS
    <2>2. sum[i] = sum[i - 1] + f[i]
      BY <1>3, <2>1
    <2>3. g[i] = g[i - 1] + f[i]
      BY <2>1 DEF AddsUp
    <2> QED
      BY <1>5, <2>1, <2>2, <2>3
  <1>6. b \in a - 1..b /\ a - 1 \in Int
    OBVIOUS
  <1> HIDE DEF T
  <1>7. b \in T
    BY <1>4, <1>5, <1>6, AllFromFirst
  <1> QED
    BY <1>1, <1>7 DEF T

\* The same for sequences.
LEMMA FlattenIs ==
    ASSUME NEW seqs, NEW g, Len(seqs) \in Nat \ {0},
           g[1] = seqs[1], \A i \in 2..Len(seqs) : g[i] = g[i - 1] \o seqs[i]
    PROVE  FlattenSeq(seqs) = g[Len(seqs)]
  <1> DEFINE Grow(s) == [i \in 1..Len(seqs) |-> IF i = 1 THEN seqs[i] ELSE s[i - 1] \o seqs[i]]
             flat == CHOOSE s : s = Grow(s)
             w == [i \in 1..Len(seqs) |-> g[i]]
             T == {i \in 1..Len(seqs) : flat[i] = g[i]}
  <1>1. FlattenSeq(seqs) = flat[Len(seqs)]
    BY DEF FlattenSeq
  <1>2. w = Grow(w)
    <2>1. ASSUME NEW i \in 1..Len(seqs)
          PROVE  g[i] = IF i = 1 THEN seqs[i] ELSE w[i - 1] \o seqs[i]
      <3>1. CASE i = 1
        BY <3>1
      <3>2. CASE i # 1
        <4>1. i \in 2..Len(seqs) /\ i - 1 \in 1..Len(seqs)
          BY <3>2
        <4>2. w[i - 1] = g[i - 1]
          BY <4>1
        <4> QED
          BY <3>2, <4>1, <4>2
      <3> QED
        BY <3>1, <3>2
    <2> QED
      BY <2>1
  <1> HIDE DEF w
  <1>3. flat = Grow(flat)
    <2> HIDE DEF Grow
    <2> QED
      BY <1>2
  <1> HIDE DEF flat
  <1>4. 1 \in T
    <2>1. 1 \in 1..Len(seqs)
      OBVIOUS
    <2> QED
      BY <1>3, <2>1
  <1>5. ASSUME NEW i \in 1 + 1..Len(seqs), i - 1 \in T PROVE i \in T
    <2>1. i \in 2..Len(seqs) /\ i \in 1..Len(seqs) /\ i # 1
      OBVIOUS
    <2>2. flat[i] = flat[i - 1] \o seqs[i]
      BY <1>3, <2>1
    <2>3. g[i] = g[i - 1] \o seqs[i]
      BY <2>1
    <2> QED
      BY <1>5, <2>1, <2>2, <2>3
  <1>6. Len(seqs) \in 1..Len(seqs) /\ 1 \in Int /\ Len(seqs) \in Int
    OBVIOUS
  <1> HIDE DEF T
  <1>7. Len(seqs) \in T
    BY <1>4, <1>5, <1>6, AllFromFirst
  <1> QED
    BY <1>1, <1>7 DEF T

-----------------------------------------------------------------------------
(* What a blob holds.                                                      *)

\* Byte q of the stream that is written for a chunk: the metadata, the chunk and
\* then zeros, and n bytes of it.
Stream(c, q) == IF q <= 4 THEN VersionAndSize(Len(c))[q] ELSE ReadByte(c, q - 5)
Piece(c, from, n) == [p \in 1..n |-> Stream(c, from + p)]

\* A stream holds bytes.
LEMMA StreamType ==
    ASSUME NEW c \in Seq(Byte), NEW q \in Nat, q >= 1
    PROVE  Stream(c, q) \in Byte
  <1>1. CASE q <= 4
    <2>1. /\ VersionAndSize(Len(c)) \in Seq(Byte) /\ Len(VersionAndSize(Len(c))) = 4
          /\ q \in 1..4
      BY <1>1, VersionAndSizeType
    <2>2. VersionAndSize(Len(c))[q] \in Byte
      BY <2>1, ElementOfSeq
    <2> QED
      BY <1>1, <2>2 DEF Stream
  <1>2. CASE ~(q <= 4)
    <2>1. q - 5 \in Nat
      BY <1>2
    <2> QED
      BY <1>2, <2>1, ReadByteType DEF Stream
  <1> QED
    BY <1>1, <1>2

\* A piece of a stream has its length, and its bytes are the stream's.
LEMMA PieceType ==
    ASSUME NEW c \in Seq(Byte), NEW from \in Nat, NEW n \in Nat
    PROVE  /\ Piece(c, from, n) \in Seq(Byte) /\ Len(Piece(c, from, n)) = n
           /\ \A p \in 1..n : Piece(c, from, n)[p] = Stream(c, from + p)
  <1>1. \A p \in 1..n : Stream(c, from + p) \in Byte
    BY StreamType
  <1> QED
    BY <1>1 DEF Piece

\* Concatenation under a name, with which the provers do better.
Cat(s, t) == s \o t

\* Two pieces that adjoin are one.
LEMMA PieceConcat ==
    ASSUME NEW c \in Seq(Byte), NEW from \in Nat, NEW m \in Nat, NEW n \in Nat,
           NEW mid, NEW total, mid = from + m, total = m + n
    PROVE  Cat(Piece(c, from, m), Piece(c, mid, n)) = Piece(c, from, total)
  <1> DEFINE left == Piece(c, from, m)
             right == Piece(c, from + m, n)
             all == Piece(c, from, m + n)
  <1>1. /\ left \in Seq(Byte) /\ Len(left) = m
        /\ \A p \in 1..m : left[p] = Stream(c, from + p)
    BY PieceType
  <1>2. /\ right \in Seq(Byte) /\ Len(right) = n
        /\ \A p \in 1..n : right[p] = Stream(c, from + m + p)
    <2>1. from + m \in Nat
      OBVIOUS
    <2> QED
      BY <2>1, PieceType
  <1>3. /\ all \in Seq(Byte) /\ Len(all) = m + n
        /\ \A p \in 1..m + n : all[p] = Stream(c, from + p)
    <2>1. m + n \in Nat
      OBVIOUS
    <2> QED
      BY <2>1, PieceType
  <1> HIDE DEF left, right, all
  <1>4. /\ left \o right \in Seq(Byte) /\ Len(left \o right) = m + n
        /\ \A p \in 1..m + n : (left \o right)[p] = IF p <= m THEN left[p] ELSE right[p - m]
    BY <1>1, <1>2, ConcatProperties
  <1>5. ASSUME NEW p \in 1..m + n PROVE (left \o right)[p] = all[p]
    <2>1. CASE p <= m
      BY <1>1, <1>3, <1>4, <2>1
    <2>2. CASE ~(p <= m)
      <3>1. p - m \in 1..n /\ from + m + (p - m) = from + p
        BY <2>2
      <3>2. right[p - m] = Stream(c, from + p)
        BY <1>2, <3>1
      <3> QED
        BY <1>3, <1>4, <2>2, <3>2
    <2> QED
      BY <2>1, <2>2
  <1>6. left \o right = all
    BY <1>3, <1>4, <1>5, SeqEqual
  <1> QED
    BY <1>6 DEF Cat, left, right, all

\* One byte is a piece.
LEMMA PieceOne ==
    ASSUME NEW c \in Seq(Byte), NEW from \in Nat, NEW q, q = from + 1
    PROVE  <<Stream(c, q)>> = Piece(c, from, 1)
  <1> DEFINE one == <<Stream(c, from + 1)>>
             piece == Piece(c, from, 1)
  <1>1. piece \in Seq(Byte) /\ Len(piece) = 1 /\ piece[1] = Stream(c, from + 1)
    <2>1. 1 \in Nat /\ 1 \in 1..1
      OBVIOUS
    <2> QED
      BY <2>1, PieceType
  <1>2. Stream(c, from + 1) \in Byte
    BY StreamType
  <1>3. one \in Seq(Byte) /\ Len(one) = 1 /\ one[1] = Stream(c, from + 1)
    BY <1>2
  <1> HIDE DEF one, piece
  <1>4. \A i \in 1..Len(one) : one[i] = piece[i]
    BY <1>1, <1>3
  <1>5. one = piece
    BY <1>1, <1>3, <1>4, SeqEqual
  <1> QED
    BY <1>5 DEF one, piece

\* The reader's bytes are a piece.
LEMMA ReadBytesPiece ==
    ASSUME NEW c \in Seq(Byte), NEW pos \in Nat, NEW n \in Nat
    PROVE  ReadBytes(c, pos, n) = Piece(c, pos + 4, n)
  <1>1. ASSUME NEW i \in 1..n PROVE ReadByte(c, pos + i - 1) = Stream(c, pos + 4 + i)
    <2>1. ~(pos + 4 + i <= 4) /\ pos + 4 + i - 5 = pos + i - 1
      OBVIOUS
    <2> QED
      BY <2>1 DEF Stream
  <1> QED
    BY <1>1 DEF ReadBytes, Piece

\* So are the metadata.
LEMMA MetaPiece ==
    ASSUME NEW c \in Seq(Byte)
    PROVE  VersionAndSize(Len(c)) = Piece(c, 0, 4)
  <1> DEFINE meta == VersionAndSize(Len(c))
             piece == Piece(c, 0, 4)
  <1>1. meta \in Seq(Byte) /\ Len(meta) = 4
    BY VersionAndSizeType
  <1>2. piece \in Seq(Byte) /\ Len(piece) = 4 /\ \A p \in 1..4 : piece[p] = Stream(c, 0 + p)
    BY PieceType
  <1> HIDE DEF piece
  <1>3. \A p \in 1..4 : Stream(c, 0 + p) = meta[p]
    BY DEF Stream
  <1> HIDE DEF meta
  <1>4. \A p \in 1..Len(meta) : meta[p] = piece[p]
    BY <1>1, <1>2, <1>3
  <1>5. meta = piece
    BY <1>1, <1>2, <1>4, SeqEqual
  <1> QED
    BY <1>5 DEF meta, piece

\* The bits of x, y and z that are spread over the four first bytes.
LEMMA SpreadBits ==
    ASSUME NEW x \in Byte, NEW y \in Byte, NEW z \in Byte
    PROVE  /\ FirstOfX(x) + 64 * (FirstOfY(y, x) \div 16) = x
           /\ (FirstOfY(y, x) % 16) + 16 * (FirstOfRest(z, y) % 16) = y
           /\ FirstOfZ(z) + 64 * (FirstOfRest(z, y) \div 16) = z
  <1>1. \A b \in Byte : /\ b \div 64 \in 0..3 /\ b \div 16 \in 0..15
                        /\ b % 16 \in 0..15 /\ b % 64 \in 0..63
                        /\ b = 64 * (b \div 64) + (b % 64) /\ b = 16 * (b \div 16) + (b % 16)
    BY DEF Byte
  <1>2. \A r \in 0..15, q \in Nat : /\ (r + q * 16) \div 16 = q /\ (r + q * 16) % 16 = r
                                    /\ (q * 16 + r) \div 16 = q /\ (q * 16 + r) % 16 = r
    OBVIOUS
  <1>3. /\ FirstOfY(y, x) \div 16 = x \div 64 /\ FirstOfY(y, x) % 16 = y % 16
        /\ FirstOfRest(z, y) \div 16 = z \div 64 /\ FirstOfRest(z, y) % 16 = y \div 16
    BY <1>1, <1>2 DEF FirstOfY, FirstOfRest
  <1> QED
    BY <1>1, <1>3 DEF FirstOfX, FirstOfZ

\* What follows the first byte of an element.
LEMMA ElementTail ==
    ASSUME NEW b \in Byte, NEW s \in Seq(Byte)
    PROVE  Tail(<<b>> \o s) = s /\ (<<b>> \o s)[1] = b
  <1> DEFINE e == <<b>> \o s
  <1>1. <<b>> \in Seq(Byte) /\ Len(<<b>>) = 1 /\ <<b>>[1] = b
    OBVIOUS
  <1>2. /\ e \in Seq(Byte) /\ Len(e) = 1 + Len(s) /\ Len(s) \in Nat
        /\ \A i \in 1..1 + Len(s) : e[i] = IF i <= 1 THEN <<b>>[i] ELSE s[i - 1]
    BY <1>1, ConcatProperties
  <1> HIDE DEF e
  <1>3. e # <<>> /\ e[1] = b
    BY <1>1, <1>2
  <1>4. /\ Tail(e) \in Seq(Byte) /\ Len(Tail(e)) = Len(s)
        /\ \A i \in 1..Len(Tail(e)) : Tail(e)[i] = e[i + 1]
    BY <1>2, <1>3, HeadTailProperties
  <1>5. ASSUME NEW i \in 1..Len(Tail(e)) PROVE Tail(e)[i] = s[i]
    <2>1. i + 1 \in 1..1 + Len(s) /\ ~(i + 1 <= 1) /\ (i + 1) - 1 = i
      BY <1>2, <1>4
    <2> QED
      BY <1>2, <1>4, <2>1
  <1>6. Tail(e) = s
    BY <1>4, <1>5, SeqEqual
  <1> QED
    BY <1>3, <1>6 DEF e

\* The four elements of an iteration are read as the piece they were written for.
LEMMA IterationDecodes ==
    ASSUME NEW c \in Seq(Byte), NEW base \in Nat, NEW x, NEW y, NEW z,
           x = Stream(c, base + FieldBytes + 1),
           y = Stream(c, base + 2 * FieldBytes + 2),
           z = Stream(c, base + 3 * FieldBytes + 3)
    PROVE  DecodeIteration(
             <<FirstOfX(x)>> \o Piece(c, base, FieldBytes),
             <<FirstOfY(y, x)>> \o Piece(c, base + FieldBytes + 1, FieldBytes),
             <<FirstOfZ(z)>> \o Piece(c, base + 2 * FieldBytes + 2, FieldBytes),
             <<FirstOfRest(z, y)>> \o Piece(c, base + 3 * FieldBytes + 3, FieldBytes))
           = Piece(c, base, DataSizePerIteration)
  <1> DEFINE n == FieldBytes
             pa == Piece(c, base, n)
             pb == Piece(c, base + n + 1, n)
             pc == Piece(c, base + 2 * n + 2, n)
             pd == Piece(c, base + 3 * n + 3, n)
             ea == <<FirstOfX(x)>> \o pa
             eb == <<FirstOfY(y, x)>> \o pb
             ec == <<FirstOfZ(z)>> \o pc
             ed == <<FirstOfRest(z, y)>> \o pd
             bx == <<x>>
             by == <<y>>
             bz == <<z>>
             s1 == Cat(pa, bx)
             s2 == Cat(s1, pb)
             s3 == Cat(s2, by)
             s4 == Cat(s3, pc)
             s5 == Cat(s4, bz)
  <1>1. /\ n \in Nat /\ base + n \in Nat /\ base + n + 1 \in Nat /\ base + 2 * n + 1 \in Nat
        /\ base + 2 * n + 2 \in Nat /\ base + 3 * n + 2 \in Nat /\ base + 3 * n + 3 \in Nat
    BY BlobAssumption
  <1>2. x \in Byte /\ y \in Byte /\ z \in Byte
    BY <1>1, StreamType
  <1>3. pa \in Seq(Byte) /\ pb \in Seq(Byte) /\ pc \in Seq(Byte) /\ pd \in Seq(Byte)
    BY <1>1, PieceType
  <1>4. /\ FirstOfX(x) \in Byte /\ FirstOfY(y, x) \in Byte
        /\ FirstOfZ(z) \in Byte /\ FirstOfRest(z, y) \in Byte
    <2>1. \A b \in LowBits : b \in Byte
      BY DEF LowBits, Byte
    <2> QED
      BY <1>2, <2>1, FirstBytes
  <1> HIDE DEF pa, pb, pc, pd
  <1>5. /\ Tail(ea) = pa /\ ea[1] = FirstOfX(x) /\ Tail(eb) = pb /\ eb[1] = FirstOfY(y, x)
        /\ Tail(ec) = pc /\ ec[1] = FirstOfZ(z) /\ Tail(ed) = pd /\ ed[1] = FirstOfRest(z, y)
    BY <1>3, <1>4, ElementTail
  <1> HIDE DEF ea, eb, ec, ed
  <1>6. DecodeIteration(ea, eb, ec, ed) = pa \o <<x>> \o pb \o <<y>> \o pc \o <<z>> \o pd
    <2>1. /\ ea[1] + 64 * (eb[1] \div 16) = x /\ (eb[1] % 16) + 16 * (ed[1] % 16) = y
          /\ ec[1] + 64 * (ed[1] \div 16) = z
      BY <1>2, <1>5, SpreadBits
    <2> QED
      BY <1>5, <2>1 DEF DecodeIteration
  <1>7. /\ bx = Piece(c, base + n, 1) /\ by = Piece(c, base + 2 * n + 1, 1)
        /\ bz = Piece(c, base + 3 * n + 2, 1)
    <2>1. /\ base + n + 1 = (base + n) + 1 /\ base + 2 * n + 2 = (base + 2 * n + 1) + 1
          /\ base + 3 * n + 3 = (base + 3 * n + 2) + 1
      BY <1>1
    <2> QED
      BY <1>1, <2>1, PieceOne
  <1>8. /\ n + 1 \in Nat /\ 2 * n + 1 \in Nat /\ 2 * n + 2 \in Nat /\ 3 * n + 2 \in Nat
        /\ 3 * n + 3 \in Nat /\ 1 \in Nat
    BY <1>1
  <1> HIDE DEF bx, by, bz
  <1>9. Cat(pa, bx) = Piece(c, base, n + 1)
    BY <1>1, <1>7, <1>8, PieceConcat DEF pa
  <1>10. Cat(s1, pb) = Piece(c, base, 2 * n + 1)
    <2>1. base + n + 1 = base + (n + 1) /\ 2 * n + 1 = (n + 1) + n
      BY <1>1
    <2> QED
      BY <1>1, <1>8, <1>9, <2>1, PieceConcat DEF pb
  <1>11. Cat(s2, by) = Piece(c, base, 2 * n + 2)
    <2>1. base + 2 * n + 1 = base + (2 * n + 1) /\ 2 * n + 2 = (2 * n + 1) + 1
      BY <1>1
    <2> QED
      BY <1>1, <1>7, <1>8, <1>10, <2>1, PieceConcat
  <1>12. Cat(s3, pc) = Piece(c, base, 3 * n + 2)
    <2>1. base + 2 * n + 2 = base + (2 * n + 2) /\ 3 * n + 2 = (2 * n + 2) + n
      BY <1>1
    <2> QED
      BY <1>1, <1>8, <1>11, <2>1, PieceConcat DEF pc
  <1>13. Cat(s4, bz) = Piece(c, base, 3 * n + 3)
    <2>1. base + 3 * n + 2 = base + (3 * n + 2) /\ 3 * n + 3 = (3 * n + 2) + 1
      BY <1>1
    <2> QED
      BY <1>1, <1>7, <1>8, <1>12, <2>1, PieceConcat
  <1>14. Cat(s5, pd) = Piece(c, base, 4 * n + 3)
    <2>1. base + 3 * n + 3 = base + (3 * n + 3) /\ 4 * n + 3 = (3 * n + 3) + n
      BY <1>1
    <2> QED
      BY <1>1, <1>8, <1>13, <2>1, PieceConcat DEF pd
  <1> QED
    BY <1>6, <1>14 DEF Cat, DataSizePerIteration, bx, by, bz, ea, eb, ec, ed, pa, pb, pc, pd

-----------------------------------------------------------------------------
(* The blobs hold the data.                                                *)

Decode(fields, j) ==
    DecodeIteration(fields[4 * j - 3], fields[4 * j - 2], fields[4 * j - 1], fields[4 * j])

\* The first m iterations of a blob are read as the beginning of the stream.
Holds(fields, c, m) ==
    \A j \in 1..m : Decode(fields, j)
                    = Piece(c, DataSizePerIteration * (j - 1), DataSizePerIteration)

\* A complete blob, for chunk k.
BlobHolds(fields, k) ==
    /\ ChunkStart(k) < Len(data)
    /\ Len(fields) = 4 * MaxIterations
    /\ Fits(ChunkLength(k)) => Holds(fields, Chunk(k), MaxIterations)

PackInv ==
    /\ Len(blob) = 4 * Iteration
    /\ read = IF Iteration = 0 THEN 0 ELSE DataSizePerIteration * Iteration - 4
    /\ Holds(blob, Chunk(Len(blobs)), Iteration)
    /\ \A k \in 1..Len(blobs) : BlobHolds(blobs[k], k - 1)

\* Multiples of a natural number.
LEMMA Times ==
    ASSUME NEW d \in Nat, NEW m \in Nat
    PROVE  d * m \in Nat /\ d * (m + 1) = d * m + d /\ d * 0 = 0
  OBVIOUS

\* A product grows with its second factor.
LEMMA TimesMonotonic ==
    ASSUME NEW d \in Nat, NEW m \in Nat, NEW n \in Nat, m <= n
    PROVE  d * m <= d * n
  <1>1. PICK k \in Nat : n = m + k
    <2>1. n - m \in Nat /\ n = m + (n - m)
      OBVIOUS
    <2> QED
      BY <2>1
  <1>2. d * n = d * m + d * k
    BY <1>1
  <1>3. d * m \in Nat /\ d * k \in Nat
    OBVIOUS
  <1> QED
    BY <1>2, <1>3

\* An iteration takes four fields of bytes and the three bytes spread over their heads.
LEMMA IterationSize == DataSizePerIteration \in Nat /\ DataSizePerIteration = 4 * FieldBytes + 3
  BY BlobAssumption DEF DataSizePerIteration

\* The length of a chunk.
LEMMA ChunkSize ==
    ASSUME data \in Seq(Byte), NEW k \in Nat, ChunkStart(k) < Len(data)
    PROVE  /\ Chunk(k) \in Seq(Byte) /\ Len(Chunk(k)) = ChunkLength(k)
           /\ ChunkStart(k) \in Nat /\ ChunkLength(k) \in Nat
           /\ ChunkLength(k) <= MaxBlobDataSize
           /\ ChunkStart(k) + ChunkLength(k) <= Len(data)
  <1>1. Chunk(k) \in Seq(Byte)
    BY ChunkType
  <1>2. ChunkStart(k) \in Nat /\ Len(data) \in Nat
    BY BlobSize DEF ChunkStart
  <1>3. /\ ChunkLength(k) \in Nat /\ ChunkLength(k) <= MaxBlobDataSize
        /\ ChunkStart(k) + ChunkLength(k) <= Len(data)
    BY <1>2, BlobSize DEF ChunkLength
  <1> DEFINE first == ChunkStart(k) + 1
             last == ChunkStart(k) + ChunkLength(k)
  <1>4. /\ first \in Int /\ last \in Int /\ \A i \in first..last : i \in 1..Len(data)
        /\ (IF first <= last THEN last - first + 1 ELSE 0) = ChunkLength(k)
    BY <1>2, <1>3
  <1>5. \A i \in first..last : data[i] \in Byte
    BY <1>4, ElementOfSeq
  <1> HIDE DEF first, last
  <1>6. Len(SubSeq(data, first, last)) = ChunkLength(k)
    BY <1>4, <1>5, SubSeqProperties
  <1>7. Len(Chunk(k)) = ChunkLength(k)
    BY <1>6 DEF Chunk, first, last
  <1> QED
    BY <1>1, <1>2, <1>3, <1>7

\* Four elements more.
LEMMA FourMore ==
    ASSUME NEW S, NEW s \in Seq(S), NEW m \in Nat, Len(s) = 4 * m,
           NEW a \in S, NEW b \in S, NEW c \in S, NEW d \in S
    PROVE  LET t == s \o <<a, b, c, d>>
           IN  /\ Len(t) = 4 * (m + 1)
               /\ \A i \in 1..4 * m : t[i] = s[i]
               /\ t[4 * (m + 1) - 3] = a /\ t[4 * (m + 1) - 2] = b
               /\ t[4 * (m + 1) - 1] = c /\ t[4 * (m + 1)] = d
  <1> DEFINE four == <<a, b, c, d>>
             t == s \o four
  <1>1. /\ four \in Seq(S) /\ Len(four) = 4
        /\ four[1] = a /\ four[2] = b /\ four[3] = c /\ four[4] = d
    OBVIOUS
  <1> HIDE DEF four
  <1>2. /\ Len(t) = 4 * m + 4
        /\ \A i \in 1..4 * m + 4 : t[i] = IF i <= 4 * m THEN s[i] ELSE four[i - 4 * m]
    <2>1. /\ Len(t) = Len(s) + Len(four)
          /\ \A i \in 1..Len(s) + Len(four) :
                t[i] = IF i <= Len(s) THEN s[i] ELSE four[i - Len(s)]
      BY <1>1, ConcatProperties
    <2> HIDE DEF t
    <2> QED
      BY <1>1, <2>1
  <1> HIDE DEF t
  <1>3. /\ 4 * (m + 1) = 4 * m + 4 /\ 4 * m \in Nat
        /\ 4 * (m + 1) - 3 = 4 * m + 1 /\ 4 * (m + 1) - 2 = 4 * m + 2
        /\ 4 * (m + 1) - 1 = 4 * m + 3
    OBVIOUS
  <1>4. \A i \in 1..4 : t[4 * m + i] = four[i]
    <2> SUFFICES ASSUME NEW i \in 1..4 PROVE t[4 * m + i] = four[i]
      OBVIOUS
    <2>1. 4 * m + i \in 1..4 * m + 4 /\ ~(4 * m + i <= 4 * m) /\ 4 * m + i - 4 * m = i
      BY <1>3
    <2> QED
      BY <1>2, <2>1
  <1>5. \A i \in 1..4 * m : t[i] = s[i]
    BY <1>2, <1>3
  <1>6. t[4 * m + 1] = a /\ t[4 * m + 2] = b /\ t[4 * m + 3] = c /\ t[4 * m + 4] = d
    BY <1>1, <1>4
  <1>7. /\ Len(t) = 4 * (m + 1)
        /\ \A i \in 1..4 * m : t[i] = s[i]
        /\ t[4 * (m + 1) - 3] = a /\ t[4 * (m + 1) - 2] = b
        /\ t[4 * (m + 1) - 1] = c /\ t[4 * (m + 1)] = d
    BY <1>2, <1>3, <1>5, <1>6
  <1> QED
    BY <1>7 DEF t, four

\* Iterations that were written remain.
LEMMA HoldsStays ==
    ASSUME NEW fields, NEW more, NEW c, NEW m \in Nat,
           \A i \in 1..4 * m : more[i] = fields[i], Holds(fields, c, m)
    PROVE  Holds(more, c, m)
  <1> SUFFICES ASSUME NEW j \in 1..m PROVE Decode(more, j) = Decode(fields, j)
    BY DEF Holds
  <1>1. /\ 4 * j - 3 \in 1..4 * m /\ 4 * j - 2 \in 1..4 * m
        /\ 4 * j - 1 \in 1..4 * m /\ 4 * j \in 1..4 * m
    OBVIOUS
  <1>2. /\ more[4 * j - 3] = fields[4 * j - 3] /\ more[4 * j - 2] = fields[4 * j - 2]
        /\ more[4 * j - 1] = fields[4 * j - 1] /\ more[4 * j] = fields[4 * j]
    BY <1>1
  <1> QED
    BY <1>2 DEF Decode

\* An iteration of create_blob writes the next piece of the stream.
LEMMA WriteHolds ==
    ASSUME BlobInv, PackInv, WriteIteration
    PROVE  PackInv'
  <1> DEFINE m == Iteration
             c == Chunk(Len(blobs))
             base == DataSizePerIteration * m
             meta == IF blob = <<>> THEN VersionAndSize(Len(c)) ELSE <<>>
             n == FieldBytes - Len(meta)
             afterX == read + n + 1
             afterY == afterX + FieldBytes + 1
             afterZ == afterY + FieldBytes + 1
             x == ReadByte(c, afterX - 1)
             y == ReadByte(c, afterY - 1)
             z == ReadByte(c, afterZ - 1)
             e1 == <<FirstOfX(x)>> \o meta \o ReadBytes(c, read, n)
             e2 == <<FirstOfY(y, x)>> \o ReadBytes(c, afterX, FieldBytes)
             e3 == <<FirstOfZ(z)>> \o ReadBytes(c, afterY, FieldBytes)
             e4 == <<FirstOfRest(z, y)>> \o ReadBytes(c, afterZ, FieldBytes)
  <1>1. /\ blob' = blob \o <<e1, e2, e3, e4>> /\ read' = afterZ + FieldBytes
        /\ UNCHANGED <<data, blobs>>
    BY DEF WriteIteration
  <1>2. c \in Seq(Byte)
    <2>1. Len(blobs) \in Nat /\ data \in Seq(Byte)
      BY DEF BlobInv
    <2>2. ChunkStart(Len(blobs)) \in Nat
      BY <2>1, BlobSize DEF ChunkStart
    <2>3. ChunkStart(Len(blobs)) < Len(data)
      BY <2>1, <2>2 DEF WriteIteration, Encoded
    <2> QED
      BY <2>1, <2>3, ChunkType
  <1>3. /\ blob \in Seq(Element) /\ Len(blob) \in Nat /\ m \in Nat /\ Len(blob) = 4 * m
        /\ read = IF m = 0 THEN 0 ELSE base - 4
        /\ Holds(blob, c, m)
    BY DEF BlobInv, PackInv, Iteration
  <1>4. blob = <<>> <=> m = 0
    <2>1. blob = <<>> <=> Len(blob) = 0
      BY <1>3, EmptySeq
    <2> QED
      BY <1>3, <2>1
  <1> HIDE DEF c, m
  <1>5. /\ base \in Nat /\ (m = 0 => base = 0) /\ (m # 0 => base >= 4)
        /\ DataSizePerIteration * (m + 1) = base + DataSizePerIteration
    <2>1. m # 0 => DataSizePerIteration * 1 <= base
      BY <1>3, IterationSize, TimesMonotonic
    <2>2. FieldBytes \in Nat /\ FieldBytes >= 4
      BY BlobAssumption DEF MetadataLength
    <2>3. /\ base \in Nat /\ (m = 0 => base = 0)
          /\ DataSizePerIteration * (m + 1) = base + DataSizePerIteration
      BY <1>3, IterationSize, Times
    <2> HIDE DEF base
    <2>4. DataSizePerIteration * 1 = DataSizePerIteration
      BY IterationSize
    <2> QED
      BY <2>1, <2>2, <2>3, <2>4, IterationSize
  <1> HIDE DEF base
  <1>6. FieldBytes \in Nat /\ FieldBytes >= 4
    BY BlobAssumption DEF MetadataLength
  <1>7. Len(meta) = IF m = 0 THEN 4 ELSE 0
    <2>1. Len(c) \in Nat
      BY <1>2
    <2>2. Len(VersionAndSize(Len(c))) = 4 /\ Len(<<>>) = 0
      BY <2>1, VersionAndSizeType
    <2>3. CASE m = 0
      <3>1. meta = VersionAndSize(Len(c))
        BY <1>4, <2>3
      <3> QED
        BY <2>2, <2>3, <3>1
    <2>4. CASE m # 0
      <3>1. meta = <<>>
        BY <1>4, <2>4
      <3> QED
        BY <2>2, <2>4, <3>1
    <2> QED
      BY <2>3, <2>4
  <1> HIDE DEF meta
  <1>8. /\ n \in Nat /\ read \in Nat
        /\ afterX \in Nat /\ afterY \in Nat /\ afterZ \in Nat
        /\ afterX + 4 = base + FieldBytes + 1
        /\ afterY + 4 = base + 2 * FieldBytes + 2
        /\ afterZ + 4 = base + 3 * FieldBytes + 3
        /\ (m = 0 => read = 0 /\ n = FieldBytes - 4)
        /\ (m # 0 => read + 4 = base /\ n = FieldBytes)
        /\ afterX - 1 \in Nat /\ afterY - 1 \in Nat /\ afterZ - 1 \in Nat
    <2>1. CASE m = 0
      BY <1>3, <1>5, <1>6, <1>7, <2>1
    <2>2. CASE m # 0
      BY <1>3, <1>5, <1>6, <1>7, <2>2
    <2> QED
      BY <2>1, <2>2
  <1> HIDE DEF n, afterX, afterY, afterZ
  <1>9. \A pos \in Nat : pos - 1 \in Nat => ReadByte(c, pos - 1) = Stream(c, pos + 4)
    BY DEF Stream
  <1>10. /\ x = Stream(c, base + FieldBytes + 1) /\ y = Stream(c, base + 2 * FieldBytes + 2)
         /\ z = Stream(c, base + 3 * FieldBytes + 3)
    BY <1>8, <1>9
  <1> HIDE DEF x, y, z
  <1>11. /\ e2 = <<FirstOfY(y, x)>> \o Piece(c, base + FieldBytes + 1, FieldBytes)
         /\ e3 = <<FirstOfZ(z)>> \o Piece(c, base + 2 * FieldBytes + 2, FieldBytes)
         /\ e4 = <<FirstOfRest(z, y)>> \o Piece(c, base + 3 * FieldBytes + 3, FieldBytes)
    <2>1. \A pos \in Nat : ReadBytes(c, pos, FieldBytes) = Piece(c, pos + 4, FieldBytes)
      BY <1>2, <1>6, ReadBytesPiece
    <2>2. /\ ReadBytes(c, afterX, FieldBytes) = Piece(c, base + FieldBytes + 1, FieldBytes)
          /\ ReadBytes(c, afterY, FieldBytes) = Piece(c, base + 2 * FieldBytes + 2, FieldBytes)
          /\ ReadBytes(c, afterZ, FieldBytes) = Piece(c, base + 3 * FieldBytes + 3, FieldBytes)
      BY <1>8, <2>1
    <2> QED
      BY <2>2
  <1>12. e1 = <<FirstOfX(x)>> \o Piece(c, base, FieldBytes)
    <2>1. FirstOfX(x) \in Byte
      <3>1. base + FieldBytes + 1 \in Nat /\ base + FieldBytes + 1 >= 1
        BY <1>5, <1>6
      <3>2. x \in Byte
        BY <1>2, <1>10, <3>1, StreamType
      <3>3. FirstOfX(x) \in LowBits
        BY <3>2, FirstBytes
      <3> QED
        BY <3>3 DEF LowBits, Byte
    <2> DEFINE head == <<FirstOfX(x)>>
               bytes == ReadBytes(c, read, n)
    <2>2. head \in Seq(Byte) /\ bytes \in Seq(Byte)
      BY <1>2, <1>8, <2>1, ReadBytesType
    <2>3. bytes = Piece(c, read + 4, n)
      BY <1>2, <1>8, ReadBytesPiece
    <2> HIDE DEF head, bytes
    <2>4. CASE m = 0
      <3>1. meta = Piece(c, 0, 4)
        BY <1>2, <1>4, <2>4, MetaPiece DEF meta
      <3>2. meta \in Seq(Byte)
        BY <1>2, <3>1, PieceType
      <3>3. Cat(meta, bytes) = Piece(c, 0, FieldBytes)
        <4>1. 4 = 0 + 4 /\ FieldBytes = 4 + n /\ read + 4 = 4
          BY <1>6, <1>8, <2>4
        <4> QED
          BY <1>2, <1>8, <2>3, <3>1, <4>1, PieceConcat
      <3>4. head \o meta \o bytes = head \o (meta \o bytes)
        BY <2>2, <3>2, ConcatAssociative
      <3>5. base = 0
        BY <1>5, <2>4
      <3> QED
        BY <3>3, <3>4, <3>5 DEF Cat, head, bytes
    <2>5. CASE m # 0
      <3>1. meta = <<>> /\ bytes = Piece(c, base, FieldBytes)
        BY <1>4, <1>8, <2>3, <2>5 DEF meta
      <3>2. head \o <<>> = head
        BY <2>2, ConcatEmptySeq
      <3> QED
        BY <3>1, <3>2 DEF head, bytes
    <2> QED
      BY <2>4, <2>5
  <1>13. DecodeIteration(e1, e2, e3, e4) = Piece(c, base, DataSizePerIteration)
    BY <1>2, <1>5, <1>10, <1>11, <1>12, IterationDecodes
  <1> HIDE DEF e1, e2, e3, e4
  <1>14. /\ Len(blob') = 4 * (m + 1)
         /\ \A i \in 1..4 * m : blob'[i] = blob[i]
         /\ Decode(blob', m + 1) = Piece(c, base, DataSizePerIteration)
    <2> DEFINE S == Element \cup {e1, e2, e3, e4}
    <2>1. blob \in Seq(S)
      <3>1. Element \subseteq S
        OBVIOUS
      <3> HIDE DEF S
      <3> QED
        BY <1>3, <3>1, SeqMonotonic
    <2>2. e1 \in S /\ e2 \in S /\ e3 \in S /\ e4 \in S
      OBVIOUS
    <2> HIDE DEF S
    <2> DEFINE t == blob \o <<e1, e2, e3, e4>>
    <2>3. /\ Len(t) = 4 * (m + 1)
          /\ \A i \in 1..4 * m : t[i] = blob[i]
          /\ t[4 * (m + 1) - 3] = e1 /\ t[4 * (m + 1) - 2] = e2
          /\ t[4 * (m + 1) - 1] = e3 /\ t[4 * (m + 1)] = e4
      BY <1>3, <2>1, <2>2, FourMore
    <2>4. blob' = t
      BY <1>1
    <2> HIDE DEF t
    <2> QED
      BY <1>13, <2>3, <2>4 DEF Decode
  <1>15. Iteration' = m + 1 /\ Len(blobs)' = Len(blobs) /\ Chunk(Len(blobs))' = c
    <2>1. Iteration' = Len(blob') \div 4
      BY DEF Iteration
    <2>2. Iteration' = m + 1
      BY <1>3, <1>14, <2>1
    <2>3. Chunk(Len(blobs))' = Chunk(Len(blobs))
      BY <1>1 DEF Chunk, ChunkStart, ChunkLength
    <2> QED
      BY <1>1, <2>2, <2>3 DEF c
  <1>16. Holds(blob', c, m + 1)
    <2>1. Holds(blob', c, m)
      BY <1>3, <1>14, HoldsStays
    <2>2. \A j \in 1..m + 1 : j \in 1..m \/ (j = m + 1 /\ j - 1 = m)
      BY <1>3
    <2> QED
      BY <1>14, <2>1, <2>2 DEF Holds, base
  <1>17. read' = DataSizePerIteration * (m + 1) - 4
    <2>1. afterZ + FieldBytes = base + (4 * FieldBytes + 3) - 4
      BY <1>5, <1>6, <1>8
    <2> DEFINE next == DataSizePerIteration * (m + 1)
    <2>2. next = base + (4 * FieldBytes + 3)
      BY <1>5, IterationSize
    <2>3. read' = afterZ + FieldBytes
      BY <1>1
    <2> HIDE DEF next
    <2>4. read' = next - 4
      BY <1>5, <1>6, <1>8, <2>1, <2>2, <2>3
    <2> QED
      BY <2>4 DEF next
  <1>18. \A k \in 1..Len(blobs)' : BlobHolds(blobs[k], k - 1)'
    BY <1>1 DEF PackInv, BlobHolds, Chunk, ChunkStart, ChunkLength
  <1> QED
    <2>1. Len(blob)' = 4 * Iteration' /\ Iteration' # 0
      BY <1>3, <1>14, <1>15
    <2>2. Holds(blob, Chunk(Len(blobs)), Iteration)'
      BY <1>15, <1>16 DEF Holds, Decode
    <2> QED
      BY <1>15, <1>17, <1>18, <2>1, <2>2 DEF PackInv

\* What follows the chunk is zero, and so are the elements that are not written.
LEMMA ZeroDecodes ==
    ASSUME NEW c \in Seq(Byte), NEW base \in Nat, base >= Len(c) + 4,
           NEW zero, zero = [j \in 1..FieldBytes + 1 |-> 0]
    PROVE  DecodeIteration(zero, zero, zero, zero) = Piece(c, base, DataSizePerIteration)
  <1>1. FieldBytes \in Nat /\ Len(c) \in Nat
    BY BlobAssumption
  <1>2. \A q \in Nat : q >= base + 1 => Stream(c, q) = 0
    <2> SUFFICES ASSUME NEW q \in Nat, q >= base + 1 PROVE Stream(c, q) = 0
      OBVIOUS
    <2>1. ~(q <= 4) /\ ~(q - 5 < Len(c))
      BY <1>1
    <2> QED
      BY <2>1 DEF Stream, ReadByte
  <1>3. FirstOfX(0) = 0 /\ FirstOfY(0, 0) = 0 /\ FirstOfZ(0) = 0 /\ FirstOfRest(0, 0) = 0
    BY DEF FirstOfX, FirstOfY, FirstOfZ, FirstOfRest
  <1>4. ASSUME NEW from \in Nat, from >= base
        PROVE  <<0>> \o Piece(c, from, FieldBytes) = zero
    <2> DEFINE piece == Piece(c, from, FieldBytes)
               e == <<0>> \o piece
    <2>1. <<0>> \in Seq(Byte) /\ Len(<<0>>) = 1 /\ <<0>>[1] = 0
      BY DEF Byte
    <2>2. /\ piece \in Seq(Byte) /\ Len(piece) = FieldBytes
          /\ \A p \in 1..FieldBytes : piece[p] = 0
      <3>1. \A p \in 1..FieldBytes : from + p \in Nat /\ from + p >= base + 1
        BY <1>1, <1>4
      <3> QED
        BY <1>1, <1>2, <3>1, PieceType
    <2> HIDE DEF piece
    <2>3. /\ e \in Seq(Byte) /\ Len(e) = 1 + FieldBytes
          /\ \A i \in 1..1 + FieldBytes : e[i] = IF i <= 1 THEN <<0>>[i] ELSE piece[i - 1]
      BY <2>1, <2>2, ConcatProperties
    <2> HIDE DEF e
    <2>4. ASSUME NEW i \in 1..FieldBytes + 1 PROVE e[i] = 0
      <3>1. CASE i = 1
        BY <1>1, <2>1, <2>3, <3>1
      <3>2. CASE i # 1
        <4>1. i \in 1..1 + FieldBytes /\ ~(i <= 1) /\ i - 1 \in 1..FieldBytes
          BY <1>1, <3>2
        <4> QED
          BY <2>2, <2>3, <4>1
      <3> QED
        BY <3>1, <3>2
    <2>5. DOMAIN e = 1..FieldBytes + 1 /\ e = [i \in 1..FieldBytes + 1 |-> e[i]]
      <3>1. DOMAIN e = 1..1 + FieldBytes /\ e = [i \in DOMAIN e |-> e[i]]
        BY <2>3, LenProperties
      <3>2. 1..1 + FieldBytes = 1..FieldBytes + 1
        BY <1>1
      <3> QED
        BY <3>1, <3>2
    <2>6. e = zero
      BY <2>4, <2>5
    <2> QED
      BY <2>6 DEF e, piece
  <1>5. /\ base + FieldBytes + 1 \in Nat /\ base + FieldBytes + 1 >= base + 1
        /\ base + 2 * FieldBytes + 2 \in Nat /\ base + 2 * FieldBytes + 2 >= base + 1
        /\ base + 3 * FieldBytes + 3 \in Nat /\ base + 3 * FieldBytes + 3 >= base + 1
    BY <1>1
  <1>6. /\ 0 = Stream(c, base + FieldBytes + 1) /\ 0 = Stream(c, base + 2 * FieldBytes + 2)
        /\ 0 = Stream(c, base + 3 * FieldBytes + 3)
    BY <1>2, <1>5
  <1>7. /\ <<0>> \o Piece(c, base, FieldBytes) = zero
        /\ <<0>> \o Piece(c, base + FieldBytes + 1, FieldBytes) = zero
        /\ <<0>> \o Piece(c, base + 2 * FieldBytes + 2, FieldBytes) = zero
        /\ <<0>> \o Piece(c, base + 3 * FieldBytes + 3, FieldBytes) = zero
    <2>1. \A from \in Nat : from >= base => <<0>> \o Piece(c, from, FieldBytes) = zero
      BY <1>4
    <2>2. /\ base >= base /\ base + FieldBytes + 1 >= base
          /\ base + 2 * FieldBytes + 2 >= base /\ base + 3 * FieldBytes + 3 >= base
      BY <1>1
    <2> QED
      BY <1>5, <2>1, <2>2
  <1>8. DecodeIteration(
          <<FirstOfX(0)>> \o Piece(c, base, FieldBytes),
          <<FirstOfY(0, 0)>> \o Piece(c, base + FieldBytes + 1, FieldBytes),
          <<FirstOfZ(0)>> \o Piece(c, base + 2 * FieldBytes + 2, FieldBytes),
          <<FirstOfRest(0, 0)>> \o Piece(c, base + 3 * FieldBytes + 3, FieldBytes))
        = Piece(c, base, DataSizePerIteration)
    BY <1>6, IterationDecodes
  <1> QED
    BY <1>3, <1>7, <1>8

\* The iterations made for a chunk.
LEMMA IterationsType ==
    ASSUME NEW size \in Nat
    PROVE  Iterations(size) \in Nat /\ Iterations(size) <= MaxIterations
  <1>1. size \div DataSizePerIteration \in Nat
    <2>1. DataSizePerIteration \in Nat /\ DataSizePerIteration > 0
      BY IterationSize, BlobAssumption
    <2>2. \A d \in Nat : d > 0 => size \div d \in Nat
      OBVIOUS
    <2> QED
      BY <2>1, <2>2
  <1> DEFINE q == size \div DataSizePerIteration
  <1> HIDE DEF q
  <1>2. Iterations(size) = IF q + 1 < MaxIterations THEN q + 1 ELSE MaxIterations
    BY DEF Iterations, q
  <1>3. q \in Nat
    BY <1>1 DEF q
  <1> QED
    BY <1>2, <1>3, BlobAssumption

\* A blob that is complete holds its chunk, if the chunk fits.
LEMMA FinishHolds ==
    ASSUME BlobInv, PackInv, FinishBlob
    PROVE  PackInv'
  <1> DEFINE k == Len(blobs)
             m == Iteration
             size == ChunkLength(k)
             c == Chunk(k)
             zero == [j \in 1..FieldBytes + 1 |-> 0]
             length == 4 * MaxIterations - Len(blob)
             rest == [i \in 1..length |-> zero]
             full == blob \o rest
  <1>1. /\ blobs' = Append(blobs, full) /\ blob' = <<>> /\ read' = 0 /\ data' = data
        /\ m = Iterations(size)
    BY DEF FinishBlob
  <1>2. /\ blob \in Seq(Element) /\ Len(blob) \in Nat /\ m \in Nat /\ Len(blob) = 4 * m
        /\ Holds(blob, c, m) /\ k \in Nat /\ blobs \in Seq(Seq(Element)) /\ data \in Seq(Byte)
    BY DEF BlobInv, PackInv, Iteration
  <1>3. /\ c \in Seq(Byte) /\ Len(c) = size /\ size \in Nat /\ ChunkStart(k) < Len(data)
    <2>1. ChunkStart(k) \in Nat
      BY <1>2, BlobSize DEF ChunkStart
    <2>2. ChunkStart(k) < Len(data)
      BY <1>2, <2>1 DEF FinishBlob, Encoded
    <2> QED
      BY <1>2, <2>2, ChunkSize
  <1> HIDE DEF size, c, m
  <1>4. m <= MaxIterations /\ MaxIterations \in Nat
    BY <1>1, <1>3, IterationsType, BlobAssumption
  <1>5. length \in Nat /\ Len(blob) + length = 4 * MaxIterations
    BY <1>2, <1>4
  <1> HIDE DEF length
  <1>6. zero \in Element
    BY ZeroElement
  <1> HIDE DEF zero
  <1>7. rest \in Seq(Element) /\ Len(rest) = length /\ \A i \in 1..length : rest[i] = zero
    BY <1>5, <1>6
  <1> HIDE DEF rest
  <1>8. /\ full \in Seq(Element) /\ Len(full) = 4 * MaxIterations
        /\ \A i \in 1..4 * MaxIterations :
              full[i] = IF i <= Len(blob) THEN blob[i] ELSE rest[i - Len(blob)]
    <2>1. /\ full \in Seq(Element) /\ Len(full) = Len(blob) + Len(rest)
          /\ \A i \in 1..Len(blob) + Len(rest) :
                full[i] = IF i <= Len(blob) THEN blob[i] ELSE rest[i - Len(blob)]
      BY <1>2, <1>7, ConcatProperties
    <2> HIDE DEF full
    <2> QED
      BY <1>5, <1>7, <2>1
  <1> HIDE DEF full
  <1>9. /\ \A i \in 1..4 * m : full[i] = blob[i]
        /\ \A i \in 4 * m + 1..4 * MaxIterations : full[i] = zero
    <2>1. ASSUME NEW i \in 1..4 * m PROVE full[i] = blob[i]
      <3>1. i \in 1..4 * MaxIterations /\ i <= Len(blob)
        BY <1>2, <1>4
      <3> QED
        BY <1>8, <3>1
    <2>2. ASSUME NEW i \in 4 * m + 1..4 * MaxIterations PROVE full[i] = zero
      <3>1. /\ i \in 1..4 * MaxIterations /\ ~(i <= Len(blob))
            /\ i - Len(blob) \in 1..length
        BY <1>2, <1>4, <1>5
      <3> QED
        BY <1>7, <1>8, <3>1
    <2> QED
      BY <2>1, <2>2
  <1>10. ASSUME Fits(size) PROVE Holds(full, c, MaxIterations)
    <2>1. Holds(full, c, m)
      BY <1>2, <1>9, HoldsStays
    <2> SUFFICES ASSUME NEW j \in 1..MaxIterations
                 PROVE  Decode(full, j)
                        = Piece(c, DataSizePerIteration * (j - 1), DataSizePerIteration)
      BY DEF Holds
    <2>2. CASE j <= m
      <3>1. j \in 1..m
        BY <1>2, <2>2
      <3> QED
        BY <2>1, <3>1 DEF Holds
    <2>3. CASE ~(j <= m)
      <3>1. /\ 4 * j - 3 \in 4 * m + 1..4 * MaxIterations
            /\ 4 * j - 2 \in 4 * m + 1..4 * MaxIterations
            /\ 4 * j - 1 \in 4 * m + 1..4 * MaxIterations
            /\ 4 * j \in 4 * m + 1..4 * MaxIterations
            /\ j - 1 \in Nat /\ m <= j - 1
        BY <1>2, <1>4, <2>3
      <3>2. Decode(full, j) = DecodeIteration(zero, zero, zero, zero)
        BY <1>9, <3>1 DEF Decode
      <3> DEFINE base == DataSizePerIteration * (j - 1)
                 written == DataSizePerIteration * m
      <3>3. base \in Nat /\ written \in Nat /\ written <= base
        BY <1>2, <3>1, IterationSize, Times, TimesMonotonic
      <3>4. size + 4 <= written
        BY <1>1, <1>10 DEF Fits, MetadataLength
      <3> HIDE DEF base, written
      <3>5. base >= Len(c) + 4
        BY <1>3, <3>3, <3>4
      <3>6. DecodeIteration(zero, zero, zero, zero) = Piece(c, base, DataSizePerIteration)
        BY <1>3, <3>3, <3>5, ZeroDecodes DEF zero
      <3> QED
        BY <3>2, <3>6 DEF base
    <2> QED
      BY <1>2, <2>2, <2>3
  <1>11. BlobHolds(full, k)
    BY <1>3, <1>8, <1>10 DEF BlobHolds, size, c
  <1>12. /\ Len(blobs') = k + 1 /\ blobs'[k + 1] = full
         /\ \A i \in 1..k : blobs'[i] = blobs[i]
    BY <1>1, <1>2, <1>8, AppendProperties
  <1>13. ASSUME NEW i \in 1..Len(blobs')
         PROVE  /\ ChunkStart(i - 1) < Len(data)
                /\ Len(blobs'[i]) = 4 * MaxIterations
                /\ Fits(ChunkLength(i - 1)) => Holds(blobs'[i], Chunk(i - 1), MaxIterations)
    <2>1. CASE i = k + 1
      <3>1. i - 1 = k
        BY <1>2, <2>1
      <3>2. BlobHolds(blobs'[i], i - 1)
        BY <1>11, <1>12, <2>1, <3>1
      <3> QED
        BY <3>2 DEF BlobHolds
    <2>2. CASE i # k + 1
      <3>1. i \in 1..k
        BY <1>2, <1>12, <2>2
      <3>2. BlobHolds(blobs'[i], i - 1)
        BY <1>12, <3>1 DEF PackInv
      <3> QED
        BY <3>2 DEF BlobHolds
    <2> QED
      BY <2>1, <2>2
  <1>14. /\ \A i : ChunkStart(i)' = ChunkStart(i) /\ Chunk(i)' = Chunk(i)
                   /\ ChunkLength(i)' = ChunkLength(i)
         /\ Len(data)' = Len(data)
    BY <1>1 DEF Chunk, ChunkStart, ChunkLength
  <1>15. \A i \in 1..Len(blobs)' : BlobHolds(blobs[i], i - 1)'
    BY <1>13, <1>14 DEF BlobHolds, Holds, Decode
  <1>16. Len(blob') = 0 /\ Iteration' = 0
    <2>1. Len(blob') = 0
      BY <1>1
    <2> QED
      BY <2>1 DEF Iteration
  <1>17. Holds(blob, Chunk(Len(blobs)), Iteration)'
    BY <1>16 DEF Holds
  <1> QED
    BY <1>1, <1>15, <1>16, <1>17 DEF PackInv

-----------------------------------------------------------------------------
(* What the nodes read.                                                    *)

\* A size has 24 bits and the number of blobs 8: neither is checked in the code,
\* where a blob has room for 130044 bytes and L1 takes nine of them.
SizesFit ==
    /\ MaxBlobDataSize < 256 * 65536
    /\ \A s \in Streams : Len(s) <= 255 * MaxBlobDataSize

\* The stream of a blob that holds its chunk.
LEMMA StreamIs ==
    ASSUME NEW c \in Seq(Byte), NEW fields, Len(fields) = 4 * MaxIterations,
           Holds(fields, c, MaxIterations)
    PROVE  FlattenSeq([j \in 1..Len(fields) \div 4 |->
                DecodeIteration(fields[4 * j - 3], fields[4 * j - 2],
                                fields[4 * j - 1], fields[4 * j])])
           = Piece(c, 0, DataSizePerIteration * MaxIterations)
  <1> DEFINE D == DataSizePerIteration
             n == MaxIterations
             seqs == [j \in 1..n |-> Decode(fields, j)]
             g == [j \in 1..n |-> Piece(c, 0, D * j)]
  <1>1. n \in Nat \ {0} /\ Len(fields) \div 4 = n
    <2>1. n \in Nat \ {0}
      BY BlobAssumption
    <2>2. \A i \in Nat : (4 * i) \div 4 = i
      OBVIOUS
    <2> QED
      BY <2>1, <2>2
  <1>2. [j \in 1..Len(fields) \div 4 |->
            DecodeIteration(fields[4 * j - 3], fields[4 * j - 2],
                            fields[4 * j - 1], fields[4 * j])] = seqs
    BY <1>1 DEF Decode
  <1>3. \A j \in 1..n : seqs[j] = Piece(c, D * (j - 1), D)
    BY DEF Holds
  <1>4. Len(seqs) = n
    BY <1>1
  <1> HIDE DEF seqs, n
  <1>5. D \in Nat
    BY IterationSize
  <1> HIDE DEF D
  <1>6. g[1] = seqs[1]
    <2>1. 1 \in 1..n /\ D * 1 = D /\ 1 - 1 = 0 /\ D * 0 = 0
      BY <1>1, <1>5
    <2>2. g[1] = Piece(c, 0, D)
      BY <2>1
    <2>3. seqs[1] = Piece(c, 0, D)
      BY <1>3, <2>1
    <2> QED
      BY <2>2, <2>3
  <1>7. ASSUME NEW j \in 2..n PROVE g[j] = g[j - 1] \o seqs[j]
    <2>1. j \in 1..n /\ j - 1 \in 1..n /\ j - 1 \in Nat /\ (j - 1) + 1 = j
      BY <1>1
    <2> DEFINE before == D * (j - 1)
               upto == D * j
    <2>2. before \in Nat /\ upto = before + D /\ before = 0 + before
      BY <1>5, <2>1, Times
    <2>3. g[j] = Piece(c, 0, upto) /\ g[j - 1] = Piece(c, 0, before)
          /\ seqs[j] = Piece(c, before, D)
      BY <1>3, <2>1
    <2> HIDE DEF before, upto, g
    <2>4. Cat(Piece(c, 0, before), Piece(c, before, D)) = Piece(c, 0, upto)
      BY <1>5, <2>2, PieceConcat
    <2> QED
      BY <2>3, <2>4 DEF Cat
  <1>8. g[n] = Piece(c, 0, D * n)
    BY <1>1
  <1> HIDE DEF g
  <1>9. FlattenSeq(seqs) = g[n]
    <2>1. Len(seqs) \in Nat \ {0} /\ \A j \in 2..Len(seqs) : g[j] = g[j - 1] \o seqs[j]
      BY <1>1, <1>4, <1>7
    <2>2. FlattenSeq(seqs) = g[Len(seqs)]
      BY <1>6, <2>1, FlattenIs
    <2> QED
      BY <1>4, <2>2
  <1> QED
    BY <1>2, <1>8, <1>9 DEF D, n

\* A size of 24 bits is read from its bytes.
LEMMA SizeRead ==
    ASSUME NEW s \in Nat, s < 256 * 65536
    PROVE  VersionAndSize(s)[2] * 65536 + VersionAndSize(s)[3] * 256 + VersionAndSize(s)[4] = s
  <1>1. s \div 65536 \in 0..255
    OBVIOUS
  <1>2. (s \div 65536) % 256 = s \div 65536
    BY <1>1
  <1>3. (s \div 256) \div 256 = s \div 65536
    OBVIOUS
  <1>4. s \div 256 = 256 * ((s \div 256) \div 256) + ((s \div 256) % 256)
    OBVIOUS
  <1>5. s = 256 * (s \div 256) + (s % 256)
    OBVIOUS
  <1> DEFINE a == s \div 65536
             b == (s \div 256) % 256
             c == s % 256
             d == s \div 256
  <1>6. a \in Int /\ b \in Int /\ c \in Int /\ d \in Int
    OBVIOUS
  <1>7. d = 256 * a + b /\ s = 256 * d + c /\ (s \div 65536) % 256 = a
    BY <1>2, <1>3, <1>4, <1>5
  <1> HIDE DEF a, b, c, d
  <1>8. a * 65536 + b * 256 + c = s
    BY <1>6, <1>7
  <1>9. VersionAndSize(s)[2] = a /\ VersionAndSize(s)[3] = b /\ VersionAndSize(s)[4] = c
    <2>1. VersionAndSize(s) = <<0, a, b, c>>
      BY <1>7 DEF VersionAndSize, b, c
    <2> QED
      BY <2>1
  <1> QED
    BY <1>8, <1>9

\* A node reads the chunk.
LEMMA DecodeBlobIs ==
    ASSUME SizesFit, data \in Seq(Byte), NEW k \in Nat, NEW fields,
           BlobHolds(fields, k), Fits(ChunkLength(k))
    PROVE  DecodeBlob(fields) = Chunk(k)
  <1> DEFINE c == Chunk(k)
             all == DataSizePerIteration * MaxIterations
             stream == Piece(c, 0, all)
             s == Len(c)
  <1>1. c \in Seq(Byte) /\ s = ChunkLength(k) /\ s \in Nat /\ s <= MaxBlobDataSize
    BY ChunkSize DEF BlobHolds
  <1>2. /\ Len(fields) = 4 * MaxIterations /\ Holds(fields, c, MaxIterations)
    BY DEF BlobHolds
  <1> HIDE DEF c
  <1>3. all \in Nat /\ s + 4 <= all
    <2>1. MaxBlobDataSize = all - 4
      BY DEF MaxBlobDataSize, MetadataLength
    <2>2. all \in Nat
      BY IterationSize, BlobAssumption
    <2> HIDE DEF all
    <2> QED
      BY <1>1, <2>1, <2>2
  <1>4. FlattenSeq([j \in 1..Len(fields) \div 4 |->
                DecodeIteration(fields[4 * j - 3], fields[4 * j - 2],
                                fields[4 * j - 1], fields[4 * j])]) = stream
    BY <1>1, <1>2, StreamIs
  <1> HIDE DEF all
  <1>5. /\ stream \in Seq(Byte) /\ Len(stream) = all
        /\ \A q \in 1..all : stream[q] = Stream(c, q)
    <2>1. \A q \in 1..all : 0 + q = q
      BY <1>3
    <2>2. /\ stream \in Seq(Byte) /\ Len(stream) = all
          /\ \A q \in 1..all : stream[q] = Stream(c, 0 + q)
      BY <1>1, <1>3, PieceType
    <2> QED
      BY <2>1, <2>2
  <1> HIDE DEF stream
  <1>6. stream[2] * 65536 + stream[3] * 256 + stream[4] = s
    <2>1. 2 \in 1..all /\ 3 \in 1..all /\ 4 \in 1..all
      BY <1>1, <1>3
    <2>2. /\ stream[2] = VersionAndSize(s)[2] /\ stream[3] = VersionAndSize(s)[3]
          /\ stream[4] = VersionAndSize(s)[4]
      BY <1>5, <2>1 DEF Stream
    <2> HIDE DEF s, stream
    <2>3. s < 256 * 65536
      BY <1>1, BlobSize DEF SizesFit
    <2>4. VersionAndSize(s)[2] * 65536 + VersionAndSize(s)[3] * 256 + VersionAndSize(s)[4] = s
      BY <1>1, <2>3, SizeRead
    <2> QED
      BY <2>2, <2>4
  <1> DEFINE sub == SubSeq(stream, 5, 4 + s)
  <1>7. /\ sub \in Seq(Byte) /\ Len(sub) = s
        /\ \A i \in 1..s : sub[i] = stream[4 + i]
    <2>1. /\ 5 \in Int /\ 4 + s \in Int /\ \A i \in 5..4 + s : i \in 1..all
          /\ (IF 5 <= 4 + s THEN 4 + s - 5 + 1 ELSE 0) = s /\ 4 + s - 5 + 1 = s
      BY <1>1, <1>3
    <2>2. \A i \in 5..4 + s : stream[i] \in Byte
      BY <1>5, <2>1, ElementOfSeq
    <2>3. /\ sub \in Seq(Byte) /\ Len(sub) = IF 5 <= 4 + s THEN 4 + s - 5 + 1 ELSE 0
          /\ \A i \in 1..4 + s - 5 + 1 : sub[i] = stream[5 + i - 1]
      BY <2>1, <2>2, SubSeqProperties
    <2>4. \A i \in 1..s : 5 + i - 1 = 4 + i
      BY <1>1
    <2> HIDE DEF sub
    <2> QED
      BY <2>1, <2>3, <2>4
  <1> HIDE DEF sub
  <1>8. ASSUME NEW i \in 1..s PROVE sub[i] = c[i]
    <2>1. 4 + i \in 1..all /\ ~(4 + i <= 4) /\ 4 + i - 5 = i - 1 /\ i - 1 < s /\ (i - 1) + 1 = i
      BY <1>1, <1>3
    <2>2. sub[i] = Stream(c, 4 + i)
      BY <1>5, <1>7, <2>1
    <2>3. Stream(c, 4 + i) = ReadByte(c, i - 1)
      BY <2>1 DEF Stream
    <2>4. ReadByte(c, i - 1) = c[i]
      BY <2>1 DEF ReadByte
    <2> QED
      BY <2>2, <2>3, <2>4
  <1>9. sub = c
    BY <1>1, <1>7, <1>8, SeqEqual
  <1>10. DecodeBlob(fields) = SubSeq(stream, 5, 4 + s)
    <2> DEFINE flat == FlattenSeq([j \in 1..Len(fields) \div 4 |->
                         DecodeIteration(fields[4 * j - 3], fields[4 * j - 2],
                                         fields[4 * j - 1], fields[4 * j])])
    <2>1. DecodeBlob(fields)
          = SubSeq(flat, 4 + 1, 4 + (flat[2] * 65536 + flat[3] * 256 + flat[4]))
      BY DEF DecodeBlob, MetadataLength
    <2>2. flat = stream
      BY <1>4
    <2> HIDE DEF flat
    <2>3. flat[2] * 65536 + flat[3] * 256 + flat[4] = s
      BY <1>6, <2>2
    <2>4. DecodeBlob(fields) = SubSeq(flat, 4 + 1, 4 + s)
      BY <2>1, <2>3
    <2> QED
      BY <2>2, <2>4
  <1> QED
    BY <1>9, <1>10 DEF sub, c

\* The nodes read the data, and there are at most 255 blobs.
LEMMA DecodedIs ==
    ASSUME SizesFit, BlobInv, PackInv, Encoded, AllFit, data # <<>>, data \in Streams
    PROVE  Decoded = data /\ Len(blobs) % 256 # 0
  <1> DEFINE n == Len(blobs)
             End(k) == ChunkStart(k - 1) + ChunkLength(k - 1)
             g == [k \in 1..n |-> SubSeq(data, 1, End(k))]
             seqs == [k \in DOMAIN blobs |-> DecodeBlob(blobs[k])]
  <1>1. /\ data \in Seq(Byte) /\ n \in Nat /\ DOMAIN blobs = 1..n
        /\ Len(data) \in Nat \ {0} /\ MaxBlobDataSize \in Nat
    BY BlobSize, EmptySeq DEF BlobInv
  <1>2. n # 0
    <2>1. MaxBlobDataSize * 0 = 0 /\ 0 * MaxBlobDataSize = 0
      BY <1>1
    <2>2. n = 0 => ChunkStart(n) = 0
      BY <2>1 DEF ChunkStart
    <2> QED
      BY <1>1, <2>2 DEF Encoded
  <1>3. ASSUME NEW k \in 1..n
        PROVE  /\ BlobHolds(blobs[k], k - 1) /\ ChunkStart(k - 1) < Len(data)
               /\ Fits(ChunkLength(k - 1)) /\ k - 1 \in Nat
               /\ ChunkStart(k - 1) \in Nat /\ ChunkLength(k - 1) \in Nat
               /\ ChunkStart(k) = ChunkStart(k - 1) + MaxBlobDataSize
    <2>1. BlobHolds(blobs[k], k - 1) /\ k - 1 \in Nat /\ k - 1 \in 0..n - 1
      BY <1>1 DEF PackInv
    <2>2. ChunkStart(k - 1) < Len(data) /\ Fits(ChunkLength(k - 1))
      BY <2>1 DEF BlobHolds, AllFit
    <2>3. ChunkStart(k - 1) \in Nat /\ ChunkLength(k - 1) \in Nat
      BY <1>1, <2>1, <2>2, ChunkSize
    <2>4. k * MaxBlobDataSize = (k - 1) * MaxBlobDataSize + MaxBlobDataSize
      BY <1>1
    <2> QED
      BY <2>1, <2>2, <2>3, <2>4 DEF ChunkStart
  <1>4. \A k \in 1..n : seqs[k] = Chunk(k - 1)
    BY <1>1, <1>3, DecodeBlobIs
  <1>5. Len(seqs) = n
    BY <1>1
  <1> HIDE DEF seqs
  <1>6. \A k \in 1..n : End(k) \in 1..Len(data) \/ End(k) = 0
    <2> SUFFICES ASSUME NEW k \in 1..n PROVE End(k) \in 1..Len(data) \/ End(k) = 0
      OBVIOUS
    <2>1. /\ ChunkStart(k - 1) \in Nat /\ ChunkLength(k - 1) \in Nat
          /\ ChunkStart(k - 1) + ChunkLength(k - 1) <= Len(data)
      BY <1>1, <1>3, ChunkSize
    <2> QED
      BY <1>1, <2>1
  <1>7. g[1] = seqs[1]
    <2>1. 1 \in 1..n /\ 1 - 1 = 0
      BY <1>1, <1>2
    <2>2. ChunkStart(0) = 0 /\ ChunkStart(0) + 1 = 1
      BY <1>1 DEF ChunkStart
    <2>3. Chunk(0) = SubSeq(data, 1, ChunkStart(0) + ChunkLength(0))
      BY <2>2 DEF Chunk
    <2> QED
      BY <1>4, <2>1, <2>3
  <1>8. ASSUME NEW k \in 2..n PROVE g[k] = g[k - 1] \o seqs[k]
    <2>1. k \in 1..n /\ k - 1 \in 1..n /\ (k - 1) - 1 \in Nat
      BY <1>1
    <2>2. /\ ChunkStart(k - 1) < Len(data) /\ ChunkStart(k - 1) \in Nat
          /\ ChunkLength(k - 1) \in Nat
          /\ ChunkStart((k - 1) - 1) \in Nat
          /\ ChunkStart(k - 1) = ChunkStart((k - 1) - 1) + MaxBlobDataSize
      BY <1>3, <2>1
    <2>3. ChunkLength((k - 1) - 1) = MaxBlobDataSize
      BY <1>1, <2>2 DEF ChunkLength
    <2>4. End(k - 1) = ChunkStart(k - 1)
      BY <2>2, <2>3
    <2>5. End(k) \in End(k - 1)..Len(data) /\ End(k - 1) \in 0..Len(data) /\ End(k) \in Nat
      BY <1>1, <1>6, <2>1, <2>2, <2>4
    <2>6. seqs[k] = SubSeq(data, End(k - 1) + 1, End(k))
      BY <1>4, <2>1, <2>4 DEF Chunk
    <2>7. g[k] = SubSeq(data, 1, End(k)) /\ g[k - 1] = SubSeq(data, 1, End(k - 1))
      BY <2>1
    <2> DEFINE mid == End(k - 1)
               end == End(k)
    <2> HIDE DEF End, g
    <2>8. 1 \in 1..Len(data) + 1 /\ mid \in 1 - 1..Len(data) /\ end \in mid..Len(data)
      BY <1>1, <2>5
    <2> HIDE DEF mid, end
    <2>9. SubSeq(data, 1, mid) \o SubSeq(data, mid + 1, end) = SubSeq(data, 1, end)
      BY <1>1, <2>8, ConcatAdjacentSubSeq
    <2> QED
      BY <2>6, <2>7, <2>9 DEF mid, end
  <1>9. End(n) = Len(data)
    <2>1. n \in 1..n
      BY <1>1, <1>2
    <2>2. /\ ChunkStart(n - 1) < Len(data) /\ ChunkStart(n - 1) \in Nat
          /\ ChunkStart(n) = ChunkStart(n - 1) + MaxBlobDataSize
      BY <1>3, <2>1
    <2>3. ChunkStart(n) >= Len(data)
      BY DEF Encoded
    <2> QED
      BY <1>1, <2>2, <2>3 DEF ChunkLength
  <1>10. Decoded = data
    <2>1. n \in 1..n
      BY <1>1, <1>2
    <2>2. g[n] = SubSeq(data, 1, Len(data))
      BY <1>9, <2>1
    <2>3. SubSeq(data, 1, Len(data)) = data
      BY <1>1, SubSeqFull
    <2>4. Len(seqs) \in Nat \ {0} /\ \A k \in 2..Len(seqs) : g[k] = g[k - 1] \o seqs[k]
      BY <1>1, <1>2, <1>5, <1>8
    <2> HIDE DEF g
    <2>5. FlattenSeq(seqs) = g[Len(seqs)]
      BY <1>7, <2>4, FlattenIs
    <2> QED
      BY <1>5, <2>2, <2>3, <2>5 DEF Decoded, seqs
  <1>11. n <= 255
    <2> SUFFICES ASSUME ~(n <= 255) PROVE FALSE
      OBVIOUS
    <2>1. n \in 1..n /\ 255 <= n - 1 /\ n - 1 \in Nat
      BY <1>1
    <2>2. (n - 1) * MaxBlobDataSize < Len(data)
      BY <1>3, <2>1 DEF ChunkStart
    <2>3. Len(data) <= 255 * MaxBlobDataSize
      BY DEF SizesFit
    <2>4. MaxBlobDataSize * 255 <= MaxBlobDataSize * (n - 1)
      BY <1>1, <2>1, TimesMonotonic
    <2>5. MaxBlobDataSize * 255 = 255 * MaxBlobDataSize
          /\ MaxBlobDataSize * (n - 1) = (n - 1) * MaxBlobDataSize
      BY <1>1, <2>1
    <2>6. (n - 1) * MaxBlobDataSize \in Nat /\ 255 * MaxBlobDataSize \in Nat
      BY <1>1, <2>1
    <2> QED
      BY <1>1, <2>2, <2>3, <2>4, <2>5, <2>6
  <1>12. n % 256 # 0
    <2>1. \A i \in 1..255 : i % 256 = i
      OBVIOUS
    <2> QED
      BY <1>1, <1>2, <1>11, <2>1
  <1> QED
    BY <1>10, <1>12

-----------------------------------------------------------------------------
(* Transactions and timestamps.                                            *)

Transactions == UNION {Range(blocks[i].txs) : i \in 1..Len(blocks)}

\* Where the transactions of each block end in the list.
Ends(ends) ==
    /\ ends \in [0..Len(params) -> Nat]
    /\ ends[0] = 0 /\ ends[Len(params)] = Len(txs)
    /\ \A i \in 1..Len(params) :
          /\ ends[i] = ends[i - 1] + params[i].numTransactions
          /\ ends[i] <= Len(txs)
          /\ \A q \in 1..params[i].numTransactions :
                txs[ends[i - 1] + q] = WithoutAnchor(blocks[i])[q]

TxsInv == txs \in Seq(Transactions) /\ \E ends : Ends(ends)

\* A block is its timestamp, its anchor transaction and the others.
LEMMA BlockParts ==
    ASSUME NEW chain \in Chains, NEW i \in 1..Len(chain)
    PROVE  /\ chain[i] = [timestamp |-> chain[i].timestamp, txs |-> chain[i].txs]
           /\ WithoutAnchor(chain[i]) \in Seq(Range(chain[i].txs))
           /\ Len(WithoutAnchor(chain[i])) = Len(chain[i].txs) - 1
           /\ Len(chain[i].txs) \in Nat \ {0}
           /\ chain[i].txs = <<Anchor>> \o WithoutAnchor(chain[i])
  <1>1. chain[i] \in Range(chain)
    <2>1. chain \in Seq(Range(chain))
      BY ChainsAssumption
    <2> QED
      BY <2>1, ElementOfSeq
  <1> DEFINE all == chain[i].txs
             S == Range(all)
             rest == Tail(all)
             new == <<Anchor>> \o rest
  <1>2. /\ chain[i] = [timestamp |-> chain[i].timestamp, txs |-> all]
        /\ all # <<>> /\ all \in Seq(S) /\ Head(all) = Anchor
    BY <1>1, ChainsAssumption
  <1>3. WithoutAnchor(chain[i]) = rest
    BY DEF WithoutAnchor
  <1> HIDE DEF all, S
  <1>4. /\ Head(all) \in S /\ rest \in Seq(S) /\ Len(rest) = Len(all) - 1
        /\ \A j \in 1..Len(rest) : rest[j] = all[j + 1]
        /\ Len(all) \in Nat \ {0}
    BY <1>2, HeadTailProperties, EmptySeq
  <1> HIDE DEF rest
  <1>5. <<Anchor>> \in Seq(S) /\ Len(<<Anchor>>) = 1 /\ <<Anchor>>[1] = Anchor /\ all[1] = Anchor
    <2>1. Head(all) = all[1]
      BY <1>2
    <2> QED
      BY <1>2, <1>4, <2>1
  <1>6. /\ new \in Seq(S) /\ Len(new) = 1 + Len(rest)
        /\ \A j \in 1..1 + Len(rest) : new[j] = IF j <= 1 THEN <<Anchor>>[j] ELSE rest[j - 1]
    BY <1>4, <1>5, ConcatProperties
  <1> HIDE DEF new
  <1>7. ASSUME NEW j \in 1..Len(all) PROVE new[j] = all[j]
    <2>1. CASE j = 1
      BY <1>4, <1>5, <1>6, <2>1
    <2>2. CASE j # 1
      <3>1. j \in 1..1 + Len(rest) /\ ~(j <= 1) /\ j - 1 \in 1..Len(rest) /\ (j - 1) + 1 = j
        BY <1>4, <2>2
      <3>2. rest[j - 1] = all[(j - 1) + 1]
        BY <1>4, <3>1
      <3> QED
        BY <1>6, <3>1, <3>2
    <2> QED
      BY <2>1, <2>2
  <1>8. new = all
    <2>1. Len(new) = Len(all)
      BY <1>4, <1>6
    <2> QED
      BY <1>2, <1>6, <1>7, <2>1, SeqEqual
  <1> QED
    BY <1>2, <1>3, <1>4, <1>8 DEF all, S, new

\* The next block's transactions follow.
LEMMA ReadBlockTxs ==
    ASSUME ProposalInv, TxsInv, ReadBlock
    PROVE  TxsInv'
  <1> DEFINE n == Len(params) + 1
             new == WithoutAnchor(blocks[n])
             count == Len(blocks[n].txs) - 1
  <1>1. /\ params \in Seq(BlockParams) /\ Len(params) \in Nat /\ n \in 1..Len(blocks) /\ n \in Nat
        /\ blocks \in Chains /\ Len(blocks) \in Nat /\ n = Len(params) + 1
    BY ChainBlocks DEF ProposalInv, ParamsInv, ReadBlock, TakeBlock
  <1> HIDE DEF n
  <1>2. blocks' = blocks /\ txs' = txs \o new
    BY DEF n, ReadBlock, TakeBlock
  <1>3. /\ params' \in Seq(BlockParams)
        /\ \A i \in 1..Len(params') : \E t :
              params'[i] = [numTransactions |-> Len(blocks'[i].txs) - 1, timeShift |-> t]
    BY ReadBlockKeeps DEF ProposalInv, ParamsInv
  <1>4. PICK p : params' = Append(params, p)
    BY DEF ReadBlock, TakeBlock
  <1>5. /\ Len(params') = n /\ params'[n].numTransactions = count
        /\ \A i \in 1..Len(params) : params'[i] = params[i]
    <2>1. /\ Len(params') = n /\ \A i \in 1..Len(params) : params'[i] = params[i]
      BY <1>1, <1>4
    <2>2. params'[n].numTransactions = Len(blocks'[n].txs) - 1
      <3>1. n \in 1..Len(params')
        BY <1>1, <2>1
      <3>2. PICK t :
              params'[n] = [numTransactions |-> Len(blocks'[n].txs) - 1, timeShift |-> t]
        BY <1>3, <3>1
      <3> QED
        BY <3>2
    <2> QED
      BY <1>2, <2>1, <2>2
  <1>6. /\ new \in Seq(Transactions) /\ Len(new) = count /\ count \in Nat
    <2>1. /\ new \in Seq(Range(blocks[n].txs)) /\ Len(new) = count /\ count \in Nat
      <3>1. \A chain \in Chains : \A i \in 1..Len(chain) :
              /\ WithoutAnchor(chain[i]) \in Seq(Range(chain[i].txs))
              /\ Len(WithoutAnchor(chain[i])) = Len(chain[i].txs) - 1
              /\ Len(chain[i].txs) \in Nat \ {0}
        BY BlockParts
      <3> QED
        BY <1>1, <3>1
    <2>2. Range(blocks[n].txs) \subseteq Transactions
      BY <1>1 DEF Transactions
    <2> HIDE DEF new
    <2> QED
      BY <2>1, <2>2, SeqMonotonic
  <1>7. PICK ends : Ends(ends)
    BY DEF TxsInv
  <1>8. txs \in Seq(Transactions) /\ Len(txs) \in Nat
    BY DEF TxsInv
  <1> HIDE DEF new, count
  <1>9. /\ txs' \in Seq(Transactions) /\ Len(txs') = Len(txs) + count
        /\ \A i \in 1..Len(txs) + count :
              txs'[i] = IF i <= Len(txs) THEN txs[i] ELSE new[i - Len(txs)]
    BY <1>2, <1>6, <1>8, ConcatProperties
  <1> DEFINE ends2 == [i \in 0..n |-> IF i = n THEN Len(txs) + count ELSE ends[i]]
  <1>10. /\ ends \in [0..Len(params) -> Nat] /\ ends[0] = 0 /\ ends[Len(params)] = Len(txs)
         /\ \A i \in 1..Len(params) :
               /\ ends[i] = ends[i - 1] + params[i].numTransactions
               /\ ends[i] <= Len(txs)
               /\ \A q \in 1..params[i].numTransactions :
                     txs[ends[i - 1] + q] = WithoutAnchor(blocks[i])[q]
    BY <1>7 DEF Ends
  <1>11. /\ ends2 \in [0..n -> Nat] /\ ends2[n] = Len(txs) + count
         /\ \A i \in 0..Len(params) : ends2[i] = ends[i]
    BY <1>1, <1>6, <1>8, <1>10
  <1> HIDE DEF ends2
  <1>12. ASSUME NEW i \in 1..n
         PROVE  /\ ends2[i] = ends2[i - 1] + params'[i].numTransactions
                /\ ends2[i] <= Len(txs')
                /\ \A q \in 1..params'[i].numTransactions :
                      txs'[ends2[i - 1] + q] = WithoutAnchor(blocks[i])[q]
    <2>1. CASE i = n
      <3>1. ends2[i - 1] = Len(txs)
        BY <1>1, <1>10, <1>11, <2>1
      <3>2. \A q \in 1..count : txs'[Len(txs) + q] = new[q]
        <4> SUFFICES ASSUME NEW q \in 1..count PROVE txs'[Len(txs) + q] = new[q]
          OBVIOUS
        <4>1. /\ Len(txs) + q \in 1..Len(txs) + count /\ ~(Len(txs) + q <= Len(txs))
              /\ Len(txs) + q - Len(txs) = q
          BY <1>6, <1>8
        <4> QED
          BY <1>9, <4>1
      <3>3. ends2[i] = Len(txs) + count /\ ends2[i] <= Len(txs')
        BY <1>6, <1>8, <1>9, <1>11, <2>1
      <3> QED
        BY <1>5, <2>1, <3>1, <3>2, <3>3 DEF new
    <2>2. CASE i # n
      <3>1. /\ i \in 1..Len(params) /\ i \in 0..Len(params) /\ i - 1 \in 0..Len(params)
        BY <1>1, <2>2
      <3>2. /\ ends2[i] = ends[i] /\ ends2[i - 1] = ends[i - 1] /\ params'[i] = params[i]
            /\ ends[i] \in Nat /\ ends[i - 1] \in Nat
        BY <1>5, <1>10, <1>11, <3>1
      <3>3. params[i].numTransactions \in Nat
        <4>1. params[i] \in BlockParams
          BY <1>1, <3>1, ElementOfSeq
        <4> QED
          BY <4>1 DEF BlockParams
      <3> DEFINE m == params[i].numTransactions
      <3>4. ends[i] = ends[i - 1] + m /\ ends[i] <= Len(txs)
        BY <1>10, <3>1
      <3> HIDE DEF m
      <3>5. ASSUME NEW q \in 1..m PROVE txs'[ends[i - 1] + q] = txs[ends[i - 1] + q]
        <4>1. m \in Nat
          BY <3>3 DEF m
        <4>2. ends[i - 1] + q \in 1..Len(txs) + count /\ ends[i - 1] + q <= Len(txs)
          BY <1>6, <1>8, <3>2, <3>4, <4>1
        <4> QED
          BY <1>9, <4>2
      <3>6. ends[i] <= Len(txs')
        BY <1>6, <1>8, <1>9, <3>2, <3>4
      <3>7. \A q \in 1..m : txs[ends[i - 1] + q] = WithoutAnchor(blocks[i])[q]
        BY <1>10, <3>1 DEF m
      <3> QED
        BY <3>2, <3>4, <3>5, <3>6, <3>7 DEF m
    <2> QED
      BY <2>1, <2>2
  <1>13. ends2[0] = 0 /\ ends2[n] = Len(txs')
    BY <1>1, <1>9, <1>10, <1>11
  <1>14. \E e : Ends(e)'
    <2>1. \A i : WithoutAnchor(blocks[i])' = WithoutAnchor(blocks[i])
      BY <1>2 DEF WithoutAnchor
    <2>2. \A e : /\ e \in [0..n -> Nat] /\ e[0] = 0 /\ e[n] = Len(txs')
                 /\ \A i \in 1..n :
                       /\ e[i] = e[i - 1] + params'[i].numTransactions
                       /\ e[i] <= Len(txs')
                       /\ \A q \in 1..params'[i].numTransactions :
                             txs'[e[i - 1] + q] = WithoutAnchor(blocks[i])[q]
                 => Ends(e)'
      <3> SUFFICES ASSUME NEW e,
                          /\ e \in [0..n -> Nat] /\ e[0] = 0 /\ e[n] = Len(txs')
                          /\ \A i \in 1..n :
                                /\ e[i] = e[i - 1] + params'[i].numTransactions
                                /\ e[i] <= Len(txs')
                                /\ \A q \in 1..params'[i].numTransactions :
                                      txs'[e[i - 1] + q] = WithoutAnchor(blocks[i])[q]
                   PROVE  Ends(e)'
        OBVIOUS
      <3> QED
        BY <1>5, <2>1 DEF Ends
    <2> QED
      BY <1>11, <1>12, <1>13, <2>2
  <1>15. Transactions' = Transactions
    BY <1>2 DEF Transactions
  <1> QED
    BY <1>9, <1>14, <1>15 DEF TxsInv

\* What the two fields of a block's parameters say.
LEMMA ParamsFields ==
    ASSUME ParamsInv
    PROVE  \A i \in 1..Len(params) : /\ params[i].numTransactions = Len(blocks[i].txs) - 1
                                     /\ params[i].timeShift = Distance(i)
  <1>1. ASSUME NEW param, NEW a, NEW d, param = [numTransactions |-> a, timeShift |-> d]
        PROVE  param.numTransactions = a /\ param.timeShift = d
    BY <1>1
  <1> SUFFICES ASSUME NEW i \in 1..Len(params)
               PROVE  /\ params[i].numTransactions = Len(blocks[i].txs) - 1
                      /\ params[i].timeShift = Distance(i)
    OBVIOUS
  <1> DEFINE param == params[i]
             count == Len(blocks[i].txs) - 1
             shift == Distance(i)
  <1>2. param = [numTransactions |-> count, timeShift |-> shift]
    BY DEF ParamsInv
  <1> HIDE DEF param, count, shift
  <1>3. param.numTransactions = count /\ param.timeShift = shift
    BY <1>1, <1>2
  <1> QED
    BY <1>3 DEF param, count, shift

\* The sum of the distances after block i is how far it is from the last one.
LEMMA ShiftsSum ==
    ASSUME ParamsInv, NEW i \in 1..Len(params)
    PROVE  SumOf([j \in 1..Len(params) |-> params[j].timeShift], i + 1, Len(params))
           = blocks[Len(params)].timestamp - blocks[i].timestamp
  <1> DEFINE n == Len(params)
             f == [j \in 1..n |-> params[j].timeShift]
             T(j) == blocks[j].timestamp
             g == [j \in i..n |-> T(j) - T(i)]
  <1>1. /\ n \in Nat /\ n <= Len(blocks) /\ blocks \in Chains /\ Len(blocks) \in Nat
        /\ i \in 1..n /\ i \in Nat
    BY ChainBlocks DEF ParamsInv
  <1>2. \A j \in 1..n : T(j) \in Nat
    BY <1>1, ChainBlocks
  <1>3. \A j \in 1..n : params[j].timeShift = Distance(j)
    BY ParamsFields
  <1> HIDE DEF n
  <1>4. ASSUME NEW j \in i + 1..n PROVE g[j] = g[j - 1] + f[j]
    <2>1. j \in 1..n /\ j - 1 \in 1..n /\ j \in i..n /\ j - 1 \in i..n /\ j # 1
      BY <1>1
    <2>2. f[j] = T(j) - T(j - 1)
      BY <1>3, <2>1 DEF Distance
    <2>3. g[j] = T(j) - T(i) /\ g[j - 1] = T(j - 1) - T(i)
      BY <2>1
    <2>4. T(j) \in Nat /\ T(j - 1) \in Nat /\ T(i) \in Nat
      BY <1>1, <1>2, <2>1
    <2> HIDE DEF f, g, T
    <2> QED
      BY <2>2, <2>3, <2>4
  <1>5. g[(i + 1) - 1] = 0
    <2>1. (i + 1) - 1 = i /\ i \in i..n /\ T(i) \in Nat
      BY <1>1, <1>2
    <2> QED
      BY <2>1
  <1>6. g[n] = T(n) - T(i)
    <2>1. n \in i..n
      BY <1>1
    <2> QED
      BY <2>1
  <1> HIDE DEF f, g, T
  <1>7. i + 1 \in Int /\ n \in Int /\ i + 1 <= n + 1
    BY <1>1
  <1>8. SumOf(f, i + 1, n) = g[n]
    <2> DEFINE from == i + 1
    <2>1. from \in Int /\ n \in Int /\ from <= n + 1 /\ AddsUp(g, f, from, n)
      BY <1>4, <1>5, <1>7 DEF AddsUp
    <2> HIDE DEF from
    <2>2. SumOf(f, from, n) = g[n]
      BY <2>1, SumIs
    <2> QED
      BY <2>2 DEF from
  <1> QED
    BY <1>6, <1>8 DEF f, T, n

\* The sum of the counts before block i is where its transactions begin.
LEMMA CountsSum ==
    ASSUME ParamsInv, NEW ends, Ends(ends), NEW i \in 1..Len(params)
    PROVE  SumOf([j \in 1..Len(params) |-> params[j].numTransactions], 1, i - 1) = ends[i - 1]
  <1> DEFINE f == [j \in 1..Len(params) |-> params[j].numTransactions]
             m == i - 1
  <1>1. Len(params) \in Nat /\ m \in Nat /\ m <= Len(params)
    BY DEF ParamsInv
  <1>2. ends[1 - 1] = 0
    <2>1. 1 - 1 = 0
      OBVIOUS
    <2> QED
      BY <2>1 DEF Ends
  <1>3. \A j \in 1..m : ends[j] = ends[j - 1] + f[j]
    <2> SUFFICES ASSUME NEW j \in 1..m PROVE ends[j] = ends[j - 1] + f[j]
      OBVIOUS
    <2>1. j \in 1..Len(params)
      BY <1>1
    <2>2. ends[j] = ends[j - 1] + params[j].numTransactions
      BY <2>1 DEF Ends
    <2>3. f[j] = params[j].numTransactions
      BY <2>1
    <2> HIDE DEF f
    <2> QED
      BY <2>2, <2>3
  <1> HIDE DEF f, m
  <1>4. 1 \in Int /\ m \in Int /\ 1 <= m + 1 /\ AddsUp(ends, f, 1, m)
    BY <1>1, <1>2, <1>3 DEF AddsUp
  <1>5. SumOf(f, 1, m) = ends[m]
    BY <1>4, SumIs
  <1> QED
    BY <1>5 DEF f, m

\* With all transactions the nodes derive the blocks.
LEMMA DerivedIs ==
    ASSUME ProposalInv, TxsInv, stage = "proposed", InflatedTxs = txs
    PROVE  Derived = SubSeq(blocks, 1, Len(params))
  <1> DEFINE n == Len(params)
             cached == SubSeq(blocks, 1, n)
             shifts == [i \in 1..n |-> params[i].timeShift]
             counts == [i \in 1..n |-> params[i].numTransactions]
  <1>1. /\ n \in Nat /\ n <= Len(blocks) /\ blocks \in Chains /\ Len(blocks) \in Nat
        /\ params \in Seq(BlockParams) /\ ParamsInv
    BY ChainBlocks DEF ProposalInv, ParamsInv
  <1>2. /\ batch.params.blocks = params /\ LastBlockId = n
        /\ batch.params.lastBlockTimestamp = LastTimestamp
    <2>1. batch = [params |-> [blocks |-> params, lastBlockTimestamp |-> LastTimestamp,
                               blobParams |-> GetBlobParams],
                   txList |-> IF usesBlobs THEN <<>> ELSE data,
                   sidecar |-> IF usesBlobs THEN blobs ELSE <<>>]
      BY DEF ProposalInv, BatchInv
    <2> QED
      BY <2>1 DEF LastBlockId
  <1>3. Derived = [i \in 1..n |->
            [timestamp |-> LastTimestamp - SumOf(shifts, i + 1, n),
             txs |-> <<Anchor>> \o TxsAfter(SumOf(counts, 1, i - 1), counts[i])]]
    BY <1>2 DEF Derived
  <1>4. PICK ends : Ends(ends)
    BY DEF TxsInv
  <1>5. ASSUME NEW i \in 1..n
        PROVE  [timestamp |-> LastTimestamp - SumOf(shifts, i + 1, n),
                txs |-> <<Anchor>> \o TxsAfter(SumOf(counts, 1, i - 1), counts[i])] = blocks[i]
    <2>1. i \in 1..Len(blocks) /\ n \in 1..Len(blocks) /\ params # <<>>
      BY <1>1, EmptySeq
    <2>2. LastTimestamp - SumOf(shifts, i + 1, n) = blocks[i].timestamp
      <3>1. LastTimestamp = blocks[n].timestamp
        BY <2>1 DEF LastTimestamp
      <3>2. SumOf(shifts, i + 1, n) = blocks[n].timestamp - blocks[i].timestamp
        BY <1>1, ShiftsSum
      <3>3. blocks[n].timestamp \in Nat /\ blocks[i].timestamp \in Nat
        BY <1>1, <2>1, ChainBlocks
      <3> DEFINE a == blocks[n].timestamp
                 b == blocks[i].timestamp
                 sum == SumOf(shifts, i + 1, n)
      <3> HIDE DEF a, b, sum
      <3>4. a \in Nat /\ b \in Nat /\ sum = a - b /\ LastTimestamp = a
        BY <3>1, <3>2, <3>3 DEF a, b, sum
      <3>5. LastTimestamp - sum = b
        BY <3>4
      <3> QED
        BY <3>5 DEF b, sum
    <2> DEFINE own == WithoutAnchor(blocks[i])
               from == ends[i - 1]
               end == ends[i]
    <2>3. /\ own \in Seq(Range(blocks[i].txs)) /\ Len(own) = Len(blocks[i].txs) - 1
          /\ Len(blocks[i].txs) \in Nat \ {0}
          /\ blocks[i].txs = <<Anchor>> \o own
          /\ blocks[i] = [timestamp |-> blocks[i].timestamp, txs |-> blocks[i].txs]
      <3>1. \A chain \in Chains : \A j \in 1..Len(chain) :
              /\ WithoutAnchor(chain[j]) \in Seq(Range(chain[j].txs))
              /\ Len(WithoutAnchor(chain[j])) = Len(chain[j].txs) - 1
              /\ Len(chain[j].txs) \in Nat \ {0}
              /\ chain[j].txs = <<Anchor>> \o WithoutAnchor(chain[j])
              /\ chain[j] = [timestamp |-> chain[j].timestamp, txs |-> chain[j].txs]
        BY BlockParts
      <3> QED
        BY <1>1, <2>1, <3>1
    <2>4. counts[i] = Len(own) /\ params[i].numTransactions = Len(own)
      <3>1. params[i].numTransactions = Len(blocks[i].txs) - 1
        BY <1>1, ParamsFields
      <3> QED
        BY <2>3, <3>1
    <2>5. SumOf(counts, 1, i - 1) = from
      BY <1>1, <1>4, CountsSum
    <2>6. /\ from \in Nat /\ end \in Nat /\ end = from + Len(own) /\ end <= Len(txs)
          /\ \A q \in 1..Len(own) : txs[from + q] = own[q]
      <3>1. i - 1 \in 0..n /\ i \in 0..n
        BY <1>1
      <3>2. from \in Nat /\ end \in Nat
        BY <1>4, <3>1 DEF Ends
      <3>3. /\ end = from + params[i].numTransactions /\ end <= Len(txs)
            /\ \A q \in 1..params[i].numTransactions : txs[from + q] = own[q]
        BY <1>4 DEF Ends
      <3> QED
        BY <2>4, <3>2, <3>3
    <2>7. txs \in Seq(Transactions) /\ Len(txs) \in Nat
      BY DEF TxsInv
    <2> HIDE DEF own, from, end, counts
    <2>8. TxsAfter(from, Len(own)) = SubSeq(txs, from + 1, end)
      <3>1. (IF from + Len(own) < Len(txs) THEN from + Len(own) ELSE Len(txs)) = end
        BY <2>6, <2>7
      <3>2. TxsAfter(from, Len(own))
            = SubSeq(txs, from + 1,
                     IF from + Len(own) < Len(txs) THEN from + Len(own) ELSE Len(txs))
        BY DEF TxsAfter
      <3> QED
        BY <3>1, <3>2
    <2>9. SubSeq(txs, from + 1, end) = own
      <3> DEFINE sub == SubSeq(txs, from + 1, end)
                 S == Transactions \cup Range(blocks[i].txs)
      <3>1. Len(own) \in Nat
        BY <2>3
      <3>2. /\ from + 1 \in Int /\ end \in Int
            /\ \A q \in from + 1..end : q \in 1..Len(txs)
            /\ (IF from + 1 <= end THEN end - (from + 1) + 1 ELSE 0) = Len(own)
            /\ end - (from + 1) + 1 = Len(own)
        BY <2>6, <2>7, <3>1
      <3>3. \A q \in from + 1..end : txs[q] \in Transactions
        BY <2>7, <3>2, ElementOfSeq
      <3>4. /\ sub \in Seq(Transactions)
            /\ Len(sub) = IF from + 1 <= end THEN end - (from + 1) + 1 ELSE 0
            /\ \A q \in 1..end - (from + 1) + 1 : sub[q] = txs[from + 1 + q - 1]
        BY <3>2, <3>3, SubSeqProperties
      <3> HIDE DEF sub
      <3>5. Len(sub) = Len(own) /\ \A q \in 1..Len(own) : sub[q] = own[q]
        <4>1. \A q \in 1..Len(own) : from + 1 + q - 1 = from + q
          BY <2>6, <3>1
        <4> QED
          BY <2>6, <3>2, <3>4, <4>1
      <3>6. sub \in Seq(S) /\ own \in Seq(S)
        <4>1. Transactions \subseteq S /\ Range(blocks[i].txs) \subseteq S
          OBVIOUS
        <4> HIDE DEF S
        <4> QED
          BY <2>3, <3>4, <4>1, SeqMonotonic DEF own
      <3> HIDE DEF S
      <3>7. sub = own
        BY <3>5, <3>6, SeqEqual
      <3> QED
        BY <3>7 DEF sub
    <2>10. <<Anchor>> \o TxsAfter(SumOf(counts, 1, i - 1), counts[i]) = blocks[i].txs
      BY <2>3, <2>4, <2>5, <2>8, <2>9
    <2> QED
      BY <2>2, <2>3, <2>10
  <1>6. cached = [i \in 1..n |-> blocks[i]]
    <2>1. \A i \in 1..n : blocks[i] \in Range(blocks)
      <3>1. blocks \in Seq(Range(blocks)) /\ \A i \in 1..n : i \in 1..Len(blocks)
        BY <1>1, ChainBlocks
      <3> QED
        BY <3>1, ElementOfSeq
    <2>2. /\ cached \in Seq(Range(blocks)) /\ Len(cached) = n
          /\ \A i \in 1..n : cached[i] = blocks[i]
      BY <1>1, <2>1, SubSeqProperties
    <2> HIDE DEF cached
    <2>3. DOMAIN cached = 1..n /\ cached = [i \in DOMAIN cached |-> cached[i]]
      BY <2>2, LenProperties
    <2> QED
      BY <2>2, <2>3
  <1> HIDE DEF shifts, counts, cached, n
  <1>7. Derived = [i \in 1..n |-> blocks[i]]
    BY <1>3, <1>5
  <1> QED
    BY <1>6, <1>7 DEF cached, n

-----------------------------------------------------------------------------
(* From the stages.                                                        *)

StageInv ==
    /\ stage = "reading" => blobs = <<>> /\ blob = <<>> /\ read = 0
    /\ stage # "reading" => data \in Streams
    /\ stage = "proposed" /\ usesBlobs => Encoded

DerivInv == ProposalInv /\ PackInv /\ TxsInv /\ StageInv

\* Nothing is packed.
LEMMA NothingPacked ==
    ASSUME blobs = <<>>, blob = <<>>, read = 0
    PROVE  PackInv
  <1>1. Len(blob) = 0 /\ Iteration = 0 /\ Len(blobs) = 0
    BY DEF Iteration
  <1>2. Holds(blob, Chunk(Len(blobs)), Iteration)
    BY <1>1 DEF Holds
  <1> QED
    BY <1>1, <1>2 DEF PackInv

\* It holds at the start.
LEMMA DerivInit == Init => DerivInv
  <1> SUFFICES ASSUME Init PROVE DerivInv
    OBVIOUS
  <1>1. ProposalInv
    BY ProposalInit
  <1>2. PackInv /\ StageInv
    BY NothingPacked DEF Init, BlobInit, StageInv
  <1>3. TxsInv
    <2>1. params = <<>> /\ txs = <<>> /\ Len(params) = 0 /\ Len(txs) = 0
      BY DEF Init
    <2>2. txs \in Seq(Transactions)
      BY <2>1, EmptySeq
    <2> DEFINE e == [i \in 0..0 |-> 0]
    <2>3. e \in [0..0 -> Nat] /\ e[0] = 0
      OBVIOUS
    <2> HIDE DEF e
    <2>4. Ends(e)
      BY <2>1, <2>3 DEF Ends
    <2> QED
      BY <2>2, <2>4 DEF TxsInv
  <1> QED
    BY <1>1, <1>2, <1>3 DEF DerivInv

\* Every step keeps it.
LEMMA DerivStep == DerivInv /\ [Next]_vars => DerivInv'
  <1> SUFFICES ASSUME DerivInv, [Next]_vars PROVE DerivInv'
    OBVIOUS
  <1>1. ProposalInv'
    BY ProposalStep DEF DerivInv
  <1>2. ASSUME UNCHANGED <<blocks, params, txs>> PROVE TxsInv'
    <2>1. \A e : Ends(e)' <=> Ends(e)
      BY <1>2 DEF Ends, WithoutAnchor
    <2>2. Transactions' = Transactions
      BY <1>2 DEF Transactions
    <2> QED
      BY <1>2, <2>1, <2>2 DEF DerivInv, TxsInv
  <1>3. ASSUME UNCHANGED blobVars PROVE PackInv'
    BY <1>3 DEF DerivInv, PackInv, blobVars, Iteration, Holds, Decode, BlobHolds, Chunk,
                ChunkStart, ChunkLength
  <1>4. CASE ReadBlock
    <2>1. UNCHANGED blobVars /\ stage' = stage /\ usesBlobs' = usesBlobs /\ stage = "reading"
      BY <1>4 DEF ReadBlock, TakeBlock
    <2>2. TxsInv'
      BY <1>4, ReadBlockTxs DEF DerivInv
    <2> QED
      BY <1>1, <1>3, <2>1, <2>2 DEF DerivInv, StageInv, blobVars
  <1>5. CASE Compress
    <2>1. /\ stage = "reading" /\ stage' = "packing" /\ data' \in Streams
          /\ UNCHANGED <<blobs, blob, read, blocks, params, txs>>
      BY <1>5 DEF Compress
    <2>2. blobs' = <<>> /\ blob' = <<>> /\ read' = 0
      BY <2>1 DEF DerivInv, StageInv
    <2>3. PackInv'
      <3>1. Len(blob') = 0 /\ Iteration' = 0 /\ Len(blobs') = 0
        BY <2>2 DEF Iteration
      <3>2. Holds(blob, Chunk(Len(blobs)), Iteration)'
        BY <3>1 DEF Holds
      <3> QED
        BY <2>2, <3>1, <3>2 DEF PackInv
    <2> QED
      BY <1>1, <1>2, <2>1, <2>3 DEF DerivInv, StageInv
  <1>6. CASE PackBlobs
    <2>1. /\ UNCHANGED batchVars /\ stage = "packing" /\ data' = data
          /\ (WriteIteration \/ FinishBlob)
      BY <1>6 DEF PackBlobs, Encode, WriteIteration, FinishBlob
    <2>2. PackInv'
      BY <2>1, WriteHolds, FinishHolds DEF DerivInv, ProposalInv
    <2>3. StageInv'
      BY <2>1 DEF DerivInv, StageInv, batchVars
    <2> QED
      BY <1>1, <1>2, <2>1, <2>2, <2>3 DEF DerivInv, batchVars
  <1>7. CASE Propose
    <2>1. /\ UNCHANGED <<blobVars, blocks, usesBlobs, verifiesBlobs, params, txs>>
          /\ stage = "packing" /\ stage' = "proposed" /\ (usesBlobs => Encoded)
      BY <1>7 DEF Propose
    <2>2. StageInv'
      BY <2>1 DEF DerivInv, StageInv, blobVars, Encoded, ChunkStart
    <2> QED
      BY <1>1, <1>2, <1>3, <2>1, <2>2 DEF DerivInv
  <1>8. CASE UNCHANGED vars
    <2>1. StageInv'
      BY <1>8 DEF DerivInv, StageInv, vars, blobVars, batchVars, Encoded, ChunkStart
    <2> QED
      BY <1>1, <1>2, <1>3, <1>8, <2>1 DEF DerivInv, vars, batchVars
  <1> QED
    BY <1>4, <1>5, <1>6, <1>7, <1>8 DEF Next, Done

\* The invariant implies that the nodes derive the blocks.
LEMMA DerivesFollows == SizesFit /\ DerivInv => DerivesBlocksIfFit
  <1> SUFFICES ASSUME SizesFit, DerivInv, usesBlobs => AllFit, stage = "proposed"
               PROVE  Derived = SubSeq(blocks, 1, Len(params))
    BY DEF DerivesBlocksIfFit, DerivesBlocks
  <1>1. batch = [params |-> [blocks |-> params, lastBlockTimestamp |-> LastTimestamp,
                             blobParams |-> GetBlobParams],
                 txList |-> IF usesBlobs THEN <<>> ELSE data,
                 sidecar |-> IF usesBlobs THEN blobs ELSE <<>>]
    BY DEF DerivInv, ProposalInv, BatchInv
  <1>2. /\ batch.params.blobParams.numBlobs = IF usesBlobs THEN Len(blobs) % 256 ELSE 0
        /\ batch.params.blobParams.byteSize = Len(data)
        /\ batch.txList = IF usesBlobs THEN <<>> ELSE data
    BY <1>1 DEF GetBlobParams
  <1>3. data \in Streams /\ data # <<>> /\ data \in Seq(Byte)
    BY ProposalAssumption DEF DerivInv, StageInv
  <1>4. InflatedTxs = txs
    <2>1. CASE usesBlobs
      <3>1. Encoded /\ AllFit /\ BlobInv /\ PackInv
        BY <2>1 DEF DerivInv, StageInv, ProposalInv
      <3>2. Decoded = data /\ Len(blobs) % 256 # 0
        BY <1>3, <3>1, DecodedIs
      <3>3. SubSeq(data, 1, Len(data)) = data
        BY <1>3, SubSeqFull
      <3> QED
        BY <1>2, <2>1, <3>2, <3>3 DEF InflatedTxs
    <2>2. CASE ~usesBlobs
      BY <1>2, <2>2 DEF InflatedTxs
    <2> QED
      BY <2>1, <2>2
  <1> QED
    BY <1>4, DerivedIs DEF DerivInv

-----------------------------------------------------------------------------
(* Theorems.                                                               *)

\* Every variable has its type: the numbers of a proposal fit the fields of
\* the contract (Proposal.TypeOK).
THEOREM TypeCorrect == Spec => []TypeOK
  <1> QED
    BY ProposalInit, ProposalStep, TypeFollows, PTL DEF Spec

\* Every field element create_blob writes is canonical, whatever the
\* compression returned, so that get_tx_bytes_and_sidecar does not panic
\* (Blob.FieldsCanonical).
THEOREM FieldsCanonicalCorrect == Spec => []FieldsCanonical
  <1> QED
    BY ProposalInit, ProposalStep, CanonicalFollows, PTL DEF Spec

\* compute_batch_meta_hash agrees with the inbox for every chain, also where
\* it cuts a distance that read_blocks has checked (Proposal.VerifierAgreesIfAlike).
THEOREM VerifierAgreesCorrect == Spec => []VerifierAgreesIfAlike
  <1> QED
    BY ProposalInit, ProposalStep, VerifierFollows, PTL DEF Spec

\* The nodes derive from a batch the blocks it was made of, for chains, bytes and
\* field elements of every size, wherever the bytes fit into the iterations that
\* create_blob makes for them (Proposal.DerivesBlocksIfFit).
THEOREM DerivesBlocksCorrect == SizesFit => (Spec => []DerivesBlocksIfFit)
  <1> SUFFICES ASSUME SizesFit PROVE Spec => []DerivesBlocksIfFit
    OBVIOUS
  <1>1. DerivInv => DerivesBlocksIfFit
    BY DerivesFollows
  <1> QED
    BY <1>1, DerivInit, DerivStep, PTL DEF Spec
=============================================================================
