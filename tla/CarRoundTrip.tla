----------------------------- MODULE CarRoundTrip -----------------------------
(***************************************************************************)
(* The CAR writer and reader of src/src/utils/db/car_stream.rs together:   *)
(* the bytes a CarWriter has written once poll_close returned are read    *)
(* back with the CarStream constructors, as a v1 file and wrapped in a    *)
(* CARv2 header with an index region behind the payload.                  *)
(***************************************************************************)
EXTENDS CarWriter, CarStream

CONSTANT Index    \* bytes of the index region of a CARv2 file

ASSUME IndexAssumption == Index \in Seq(Byte)

(* What reading back the blocks b1..bn written behind the header gives:   *)
(* the first block is validated when the stream opens (the file is        *)
(* refused when it does not hash to its CID), the later ones are yielded  *)
(* as they are.                                                           *)
Expected(s) ==
    IF s # <<>> /\ ~Valid(s[1]) THEN Fail("InvalidData")
    ELSE [open |-> "ok", header |-> HeaderCbor, blocks |-> s, tail |-> "none"]

(* The payload of a well-formed CARv2 file around out with pad bytes of   *)
(* padding: data_offset is where out starts and data_size its length.     *)
V2Around(pad) == WrapV2(out, V2HeaderLen + pad, Len(out), pad, Index)

-----------------------------------------------------------------------------
(* Spec round-trip 6 and E5, through new_with_header_v2 with no v2 header: *)
(* a closed writer's bytes read back as its header and the blocks sent to  *)
(* it, in order, or are refused when the first block is not valid.        *)
RoundTrip == closed => NewWithHeaderV2(out, NoV2) = Expected(sent)

(* Spec round-trip 6 through CarStream::new, the constructor for seekable *)
(* input: a v1 file written by CarWriter opens and reads back its blocks. *)
RoundTripNew == closed => New(out) = Expected(sent)

(* Spec round-trip 7 and E6: CarStream::new of the v1 bytes wrapped in a  *)
(* CARv2 header, with padding and an index region that holds a CAR frame, *)
(* reads exactly what the v1 bytes read: the reader skips to data_offset  *)
(* and stops after data_size bytes.                                       *)
V2Transparent ==
    closed => \A pad \in 0..1 : New(V2Around(pad)) = NewWithHeaderV2(out, NoV2)
=============================================================================
