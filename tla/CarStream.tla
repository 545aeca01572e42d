------------------------------ MODULE CarStream ------------------------------
(***************************************************************************)
(* The reading side of src/src/utils/db/car_stream.rs: what CarStream::new *)
(* and CarStream::new_with_header_v2 return for a file,                    *)
(* and the blocks the stream then yields until it ends or fails.     *)
(* Each is an operator over the file's bytes; a result is a record        *)
(*   [open: "ok" or the io error kind (or "panic"), header, blocks, tail]  *)
(* where blocks are the Ok items of the stream and tail the error it ends *)
(* with, or "none".                                                        *)
(*                                                                         *)
(* The input is raw: zstd detection is modelled as false (no input starts *)
(* with a zstd frame header) and decompression is not modelled.  The only  *)
(* multihash code is identity (0), whose digest is the data itself.       *)
(***************************************************************************)
EXTENDS CarFormat, SequencesExt

Incomplete == [val |-> 0, len |-> 0]    \* a varint runs past its bytes
NoV2 == [present |-> FALSE, data_offset |-> 0, data_size |-> 0]   \* None

Fail(kind) == [open |-> kind, header |-> <<>>, blocks |-> <<>>, tail |-> "none"]

(* unsigned_varint's decoder: the value and the bytes it took, or         *)
(* Incomplete when no byte below 128 ends it.                             *)
RECURSIVE DecodeVarint(_)
DecodeVarint(s) ==
    IF s = <<>> THEN Incomplete
    ELSE IF Head(s) < 128 THEN [val |-> Head(s), len |-> 1]
    ELSE LET r == DecodeVarint(Tail(s)) IN
         IF r = Incomplete THEN Incomplete
         ELSE [val |-> (Head(s) - 128) + 128 * r.val, len |-> r.len + 1]

(* FramedRead over UviBytes: the frames in order and how the stream ends: *)
(* "none" at a clean EOF, "Other" when bytes remain that make no frame    *)
(* (decode_eof's "bytes remaining on stream").                            *)
RECURSIVE Frames(_)
Frames(s) ==
    IF s = <<>> THEN [frames |-> <<>>, err |-> "none"]
    ELSE LET v == DecodeVarint(s) IN
         IF v = Incomplete \/ v.len + v.val > Len(s)
         THEN [frames |-> <<>>, err |-> "Other"]
         ELSE LET r == Frames(SubSeq(s, v.len + v.val + 1, Len(s))) IN
              [frames |-> <<SubSeq(s, v.len + 1, v.len + v.val)>> \o r.frames,
               err |-> r.err]

(* k varints read one after the other from the start of s. *)
RECURSIVE ReadVarints(_, _)
ReadVarints(s, k) ==
    IF k = 0 THEN [ok |-> TRUE, vals |-> <<>>, len |-> 0]
    ELSE LET v == DecodeVarint(s) IN
         IF v = Incomplete THEN [ok |-> FALSE, vals |-> <<>>, len |-> 0]
         ELSE LET r == ReadVarints(SubSeq(s, v.len + 1, Len(s)), k - 1) IN
              [ok |-> r.ok, vals |-> <<v.val>> \o r.vals, len |-> v.len + r.len]

(* CarBlock::from_bytes: Cid::read_bytes reads version, codec, multihash  *)
(* code and digest size, then the digest; the rest of the frame is the    *)
(* data.  ok is FALSE, an InvalidData error, when the CID does not parse *)
(* (only CIDv1 is modelled).                                              *)
FromBytes(frame) ==
    LET p == ReadVarints(frame, 4) IN
    IF ~p.ok \/ p.vals[1] # 1 \/ p.len + p.vals[4] > Len(frame)
    THEN [ok |-> FALSE, block |-> [cid |-> <<>>, data |-> <<>>]]
    ELSE [ok |-> TRUE,
          block |-> [cid |-> SubSeq(frame, 1, p.len + p.vals[4]),
                     data |-> SubSeq(frame, p.len + p.vals[4] + 1, Len(frame))]]

(* CarBlock::validate: Cid::new_v1(codec, code.digest(data)) equals the   *)
(* block's CID; a code MultihashCode does not know fails.                 *)
Valid(blk) ==
    LET p == ReadVarints(blk.cid, 4) IN
    /\ p.ok
    /\ p.vals[3] = 0
    /\ blk.cid = <<1>> \o VarintOf[p.vals[2]] \o VarintOf[0]
                       \o VarintOf[Len(blk.data)] \o blk.data

(* from_slice_with_fallback::<CarV1Header>: a frame is a CarV1Header when *)
(* it has HeaderCbor's layout, whose last byte is the version.            *)
CarV1HeaderOf(frame) ==
    IF /\ Len(frame) = Len(HeaderCbor)
       /\ Front(frame) = Front(HeaderCbor)
       /\ Last(frame) < 24
    THEN [ok |-> TRUE, version |-> Last(frame), cbor |-> frame]
    ELSE [ok |-> FALSE, version |-> 0, cbor |-> frame]

(* read_v1_header is Some: there is a first frame, not an error, that is  *)
(* a CarV1Header of version 1.                                            *)
ReadV1Header(fr) ==
    /\ fr.frames # <<>>
    /\ CarV1HeaderOf(fr.frames[1]).ok
    /\ CarV1HeaderOf(fr.frames[1]).version = 1

(* The stream after the first block: from_bytes on every frame, ending at *)
(* the first that fails or with the framing's own end.                    *)
RECURSIVE StreamRest(_, _)
StreamRest(frames, err) ==
    IF frames = <<>> THEN [blocks |-> <<>>, err |-> err]
    ELSE LET b == FromBytes(Head(frames)) IN
         IF ~b.ok THEN [blocks |-> <<>>, err |-> "InvalidData"]
         ELSE LET r == StreamRest(Tail(frames), err) IN
              [blocks |-> <<b.block>> \o r.blocks, err |-> r.err]

(* data_offset as usize: a negative i64 becomes a length of at least 2^63 *)
(* bytes and vec![0; _] panics with "capacity overflow".  data_size as    *)
(* u64: a negative i64 becomes at least 2^63, more than any file has.     *)
SkipFails(h) == h.present /\ h.data_offset < 0
TakeAll(h) == ~h.present \/ h.data_size < 0

(* Mutant: the payload is not capped at data_size. *)
PayloadNoTake(file, h) ==
    IF ~h.present THEN file ELSE SubSeq(file, h.data_offset + 1, Len(file))

(* The v1 payload: the data_offset bytes read_exact skips, then at most   *)
(* data_size bytes (take).                                                *)
Payload(file, h) ==
    LET rest == IF ~h.present THEN file ELSE SubSeq(file, h.data_offset + 1, Len(file))
    IN IF TakeAll(h) THEN rest
       ELSE SubSeq(rest, 1, IF h.data_size < Len(rest) THEN h.data_size ELSE Len(rest))

(* CarStream::new_with_header_v2 and the stream it returns. *)
NewWithHeaderV2(file, h) ==
    IF SkipFails(h) THEN Fail("panic")
    ELSE IF h.present /\ h.data_offset > Len(file) THEN Fail("UnexpectedEof")
    ELSE LET fr == Frames(Payload(file, h))
             hdr == CarV1HeaderOf(fr.frames[1]).cbor
         IN IF ~ReadV1Header(fr) THEN Fail("InvalidData")
            ELSE IF Len(fr.frames) = 1
            THEN IF fr.err # "none" THEN Fail(fr.err)
                 ELSE [open |-> "ok", header |-> hdr, blocks |-> <<>>, tail |-> "none"]
            ELSE LET first == FromBytes(fr.frames[2]) IN
                 IF ~first.ok \/ ~Valid(first.block) THEN Fail("InvalidData")
                 ELSE LET r == StreamRest(SubSeq(fr.frames, 3, Len(fr.frames)), fr.err) IN
                      [open |-> "ok", header |-> hdr,
                       blocks |-> <<first.block>> \o r.blocks, tail |-> r.err]

-----------------------------------------------------------------------------
(* The CARv2 pragma: varint 10, then the CBOR map {"version": 2}. *)
Pragma == <<10, 161, 103, 118, 101, 114, 115, 105, 111, 110, 2>>

V2HeaderLen == 51

(* A signed little-endian integer from its bytes (two's complement). *)
SignedLE(bs) ==
    FoldRight(LAMBDA b, acc : b + 256 * acc, Front(bs),
              IF Last(bs) >= 128 THEN Last(bs) - 256 ELSE Last(bs))

(* read_v2_header on the 51 bytes it is given: a CarV2Header when they    *)
(* start with the pragma, None otherwise.                                 *)
ReadV2Header(bytes) ==
    IF SubSeq(bytes, 1, 11) = Pragma
    THEN [present |-> TRUE,
          data_offset |-> SignedLE(SubSeq(bytes, 28, 35)),
          data_size |-> SignedLE(SubSeq(bytes, 36, 43))]
    ELSE NoV2

(* extract_header_v2: read_exact of 51 bytes, then read_v2_header. *)
ExtractHeaderV2(file) == ReadV2Header(SubSeq(file, 1, V2HeaderLen))

(* CarStream::new: the header is extracted, the position reset to where   *)
(* it was, and the stream opened with it; a file shorter than 51 bytes    *)
(* fails in read_exact with UnexpectedEof.                                *)
New(file) ==
    IF Len(file) < V2HeaderLen THEN Fail("UnexpectedEof")
    ELSE NewWithHeaderV2(file, ExtractHeaderV2(file))

-----------------------------------------------------------------------------
(* i64 in little-endian bytes, as a CARv2 header stores its fields. *)
RECURSIVE LEBytes(_, _)
LEBytes(x, k) == IF k = 0 THEN <<>> ELSE <<x % 256>> \o LEBytes(x \div 256, k - 1)

Zeros(k) == [i \in 1..k |-> 0]

(* A CARv2 file around the v1 bytes v1: pragma, header with the given    *)
(* data_offset and data_size, padding up to the payload, the payload and  *)
(* an index region.                                                       *)
WrapV2(v1, offset, size, pad, index) ==
    Pragma \o Zeros(16) \o LEBytes(offset, 8) \o LEBytes(size, 8)
           \o LEBytes(V2HeaderLen + pad + Len(v1), 8) \o Zeros(pad) \o v1 \o index
=============================================================================
