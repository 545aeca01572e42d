------------------------- MODULE MCMessagePoolQueries -------------------------
(* Small instances of MessagePoolQueries for TLC.                         *)
EXTENDS MessagePoolQueries, MCMessagePool
=============================================================================
