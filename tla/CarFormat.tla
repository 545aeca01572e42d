------------------------------ MODULE CarFormat ------------------------------
(***************************************************************************)
(* The byte encoding of a CARv1 stream as src/src/utils/db/car_stream.rs   *)
(* writes it: an unsigned-varint (LEB128) length prefixed frame holding    *)
(* the CBOR header, then one frame per block holding the CID's bytes and  *)
(* the block's data.                                                      *)
(*                                                                         *)
(* A CID is kept as its binary form, a CIDv1:                              *)
(*   varint(1) varint(codec) varint(hash code) varint(digest length) digest *)
(* with codec, hash code and digest length below 128, so each varint of   *)
(* the prefix is one byte.  The CBOR serialisation of CarV1Header is not  *)
(* spelled out: HeaderCbor is the byte string to_vec(&car_header) gives   *)
(* for the roots and version of the writer.                               *)
(***************************************************************************)
EXTENDS Naturals, Sequences

CONSTANTS
    Blocks,       \* the CarBlocks a writer may be given
    HeaderCbor    \* to_vec(&CarV1Header { roots, version: 1 })

Byte == 0..255

ASSUME HeaderCborAssumption == HeaderCbor \in Seq(Byte) /\ HeaderCbor # <<>>

(* The unsigned varint of n, least significant group first, the top bit  *)
(* of every byte but the last set (integer_encoding's encode_var and      *)
(* unsigned_varint's encoder agree on it).                                *)
VarintOf[n \in Nat] ==
    IF n < 128 THEN <<n>> ELSE <<(n % 128) + 128>> \o VarintOf[n \div 128]

(* UviBytes::encode: the varint of the payload's length, then the payload. *)
UviFrame(payload) == VarintOf[Len(payload)] \o payload

(* Mutant: the frame length leaves out the CID's encoded length. *)
FrameDataLen(b) == VarintOf[Len(b.data)] \o b.cid \o b.data

(* CarBlock::write: varint(cid.encoded_len() + data.len()), the CID's      *)
(* bytes, the data.                                                       *)
Frame(b) == VarintOf[Len(b.cid) + Len(b.data)] \o b.cid \o b.data

(* CarWriter::new_carv1 starts its buffer with the header's UviBytes frame. *)
HeaderFrame == UviFrame(HeaderCbor)

ASSUME FrameAssumption ==
    /\ HeaderFrame \in Seq(Byte)
    /\ \A b \in Blocks : Frame(b) \in Seq(Byte)
=============================================================================
