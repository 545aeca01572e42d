---------------------------- MODULE MCCarRoundTrip ----------------------------
(***************************************************************************)
(* Constants of CarRoundTrip for TLC.  Blocks use the raw codec (0x55) and *)
(* the identity multihash, so a CID is 1, 0x55, 0, the data's length and  *)
(* the data; bad's CID names the data <<7>> but it holds <<8>>.  The      *)
(* header is the DAG-CBOR of {roots: [CID of empty], version: 1}:         *)
(*   a2 65 "roots" 81 d8 2a 45 00 01 55 00 00 67 "version" 01             *)
(***************************************************************************)
EXTENDS CarRoundTrip, TLC

MCEmpty == [cid |-> <<1, 85, 0, 0>>, data |-> <<>>]
MCSeven == [cid |-> <<1, 85, 0, 1, 7>>, data |-> <<7>>]
MCBad == [cid |-> <<1, 85, 0, 1, 7>>, data |-> <<8>>]

MCBlocks == {MCEmpty, MCSeven, MCBad}

MCHeaderCbor ==
    <<162, 101, 114, 111, 111, 116, 115, 129, 216, 42, 69, 0, 1, 85, 0, 0,
      103, 118, 101, 114, 115, 105, 111, 110, 1>>

(* An index region that itself looks like a CAR frame. *)
MCIndex == Frame(MCSeven)
=============================================================================
