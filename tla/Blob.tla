--------------------------------- MODULE Blob ---------------------------------
(***************************************************************************)
(* The encoding of the compressed transactions of a batch as blobs         *)
(* (blob.rs).  A blob is a sequence of field elements: a first byte that   *)
(* must stay below 64 and FieldBytes bytes that may be anything.  One      *)
(* iteration of create_blob writes four of them and spreads the bits of    *)
(* the three bytes x, y and z over their first bytes.                      *)
(*                                                                         *)
(* The field elements of the code have 31 bytes and there are 4096 of      *)
(* them; both numbers are constants here.  A field element holds data in   *)
(* the order of the code, and all arithmetic on bytes is that of the code. *)
(***************************************************************************)
EXTENDS Integers, Sequences, SequencesExt

CONSTANTS
    FieldBytes,     \* the bytes of a field element after the first one (31)
    MaxIterations   \* MAX_ITERATIONS (1024)

MetadataLength == 4
DataSizePerIteration == 4 * FieldBytes + 3
MaxBlobDataSize == DataSizePerIteration * MaxIterations - MetadataLength

ASSUME BlobAssumption ==
    FieldBytes \in Nat /\ FieldBytes >= MetadataLength /\ MaxIterations \in Nat \ {0}

VARIABLES
    data,    \* tx_bytes: what is to be encoded
    blobs,   \* the blobs that are complete
    blob,    \* the one being written: the field elements the ByteWriter has written
    read     \* read_bytes of the ByteReader

blobVars == <<data, blobs, blob, read>>

Byte == 0..255
LowBits == 0..63
FieldElement == Seq(Byte)

-----------------------------------------------------------------------------
\* tx_bytes.chunks(MAX_BLOB_DATA_SIZE), from 0.
ChunkStart(k) == k * MaxBlobDataSize
ChunkLength(k) ==
    LET rest == Len(data) - ChunkStart(k)
    IN  IF rest < MaxBlobDataSize THEN rest ELSE MaxBlobDataSize
Chunk(k) == SubSeq(data, ChunkStart(k) + 1, ChunkStart(k) + ChunkLength(k))

\* ByteReader: past the end of the chunk every byte is zero.  Whether the
\* reader counts on there, which `read' does, makes no difference.
ReadByte(chunk, pos) == IF pos < Len(chunk) THEN chunk[pos + 1] ELSE 0
ReadBytes(chunk, pos, n) == [i \in 1..n |-> ReadByte(chunk, pos + i - 1)]

\* write_version_and_data_size: version 0 and a size of 24 bits.
VersionAndSize(size) ==
    <<0, (size \div 65536) % 256, (size \div 256) % 256, size % 256>>

\* How many iterations write the chunk.  The metadata, which takes room in the
\* first of them, is not counted.
Iterations(size) ==
    IF size \div DataSizePerIteration + 1 < MaxIterations
    THEN size \div DataSizePerIteration + 1
    ELSE MaxIterations

\* The first bytes of the four field elements.
FirstOfX(x) == x % 64
\* Mistake: the high bits of x are not shifted into place.
FirstOfYUnshifted(y, x) == (y % 16) + (x \div 64) * 64
FirstOfY(y, x) == (y % 16) + (x \div 64) * 16
FirstOfZ(z) == z % 64
\* Mistake: the lower half of y a second time.
FirstOfRestLow(z, y) == (z \div 64) * 16 + (y % 16)
FirstOfRest(z, y) == (z \div 64) * 16 + y \div 16

-----------------------------------------------------------------------------
Iteration == Len(blob) \div 4
Encoded == ChunkStart(Len(blobs)) >= Len(data)

BlobInit(bytes) == data = bytes /\ blobs = <<>> /\ blob = <<>> /\ read = 0

\* An iteration of create_blob.  The first field element begins with the
\* metadata.
WriteIteration ==
    /\ ~Encoded
    /\ LET chunk == Chunk(Len(blobs))
           meta == IF blob = <<>> THEN VersionAndSize(Len(chunk)) ELSE <<>>
           n == FieldBytes - Len(meta)
           afterX == read + n + 1
           afterY == afterX + FieldBytes + 1
           afterZ == afterY + FieldBytes + 1
           x == ReadByte(chunk, afterX - 1)
           y == ReadByte(chunk, afterY - 1)
           z == ReadByte(chunk, afterZ - 1)
       IN  /\ Iteration < Iterations(Len(chunk))
           /\ blob' = blob \o
                << <<FirstOfX(x)>> \o meta \o ReadBytes(chunk, read, n),
                   <<FirstOfY(y, x)>> \o ReadBytes(chunk, afterX, FieldBytes),
                   <<FirstOfZ(z)>> \o ReadBytes(chunk, afterY, FieldBytes),
                   <<FirstOfRest(z, y)>> \o ReadBytes(chunk, afterZ, FieldBytes) >>
           /\ read' = afterZ + FieldBytes
    /\ UNCHANGED <<data, blobs>>

\* The end of create_blob: the rest of the blob is zero.  tx_bytes_to_blobs
\* goes on to the next chunk with a new reader and a new writer.
FinishBlob ==
    /\ ~Encoded
    /\ Iteration = Iterations(ChunkLength(Len(blobs)))
    /\ blobs' = Append(blobs,
         blob \o [i \in 1..4 * MaxIterations - Len(blob) |->
                    [j \in 1..FieldBytes + 1 |-> 0]])
    /\ blob' = <<>>
    /\ read' = 0
    /\ UNCHANGED data

\* tx_bytes_to_sidecar: commitment and proof of a blob follow from the blob.
Encode == WriteIteration \/ FinishBlob

-----------------------------------------------------------------------------
\* How the nodes of the rollup read a blob: the bytes of the field elements
\* in the order they were written in, x, y and z put together again, and of
\* those as many as the metadata says.
DecodeIteration(a, b, c, d) ==
    Tail(a) \o <<a[1] + 64 * (b[1] \div 16)>>
    \o Tail(b) \o <<(b[1] % 16) + 16 * (d[1] % 16)>>
    \o Tail(c) \o <<c[1] + 64 * (d[1] \div 16)>>
    \o Tail(d)

DecodeBlob(fields) ==
    LET stream == FlattenSeq([k \in 1..Len(fields) \div 4 |->
                    DecodeIteration(fields[4 * k - 3], fields[4 * k - 2],
                                    fields[4 * k - 1], fields[4 * k])])
        size == stream[2] * 65536 + stream[3] * 256 + stream[4]
    IN  SubSeq(stream, MetadataLength + 1, MetadataLength + size)

Decoded == FlattenSeq([k \in DOMAIN blobs |-> DecodeBlob(blobs[k])])

\* A chunk whose bytes all fit into the iterations made for it, beside the
\* metadata.
Fits(size) == size + MetadataLength <= DataSizePerIteration * Iterations(size)
AllFit == \A k \in 0..Len(blobs) - 1 : Fits(ChunkLength(k))

\* A field element is a number below the order of the curve, for which its
\* first byte must leave the upper two bits free; KZG commitments exist for
\* blobs of such elements only, and get_tx_bytes_and_sidecar panics on others.
Canonical(field) == Len(field) = FieldBytes + 1 /\ field[1] \in LowBits

\* Whatever the bytes, every field element that was written is canonical.
FieldsCanonical ==
    /\ \A i \in DOMAIN blob : Canonical(blob[i])
    /\ \A k \in DOMAIN blobs : \A i \in DOMAIN blobs[k] : Canonical(blobs[k][i])
=============================================================================
