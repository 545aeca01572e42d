------------------------------- MODULE CarSink -------------------------------
(***************************************************************************)
(* What a CAR writer promises (spec, section on the CAR writer contract):  *)
(* the bytes the underlying writer receives are always a prefix of the     *)
(* CARv1 encoding of the header and of the blocks sent so far, partial     *)
(* writes lose nothing across suspensions, and the sink is closed only     *)
(* after the whole encoding has been written.                             *)
(***************************************************************************)
EXTENDS CarFormat

VARIABLES
    stream,   \* the encoding of the header and of every block sent
    file,     \* the bytes the underlying writer has taken
    done      \* the sink has been closed

svars == <<stream, file, done>>

SInit ==
    /\ stream = HeaderFrame
    /\ file = <<>>
    /\ done = FALSE

(* A block is sent: its frame is added to the encoding. *)
Submit(b) ==
    /\ ~done
    /\ stream' = stream \o Frame(b)
    /\ UNCHANGED <<file, done>>

(* The underlying writer takes some more of the encoding. *)
Emit(k) ==
    /\ k \in (Len(file) + 1)..Len(stream)
    /\ file' = SubSeq(stream, 1, k)
    /\ UNCHANGED <<stream, done>>

(* The sink is closed once the writer has taken everything. *)
Finish ==
    /\ ~done
    /\ file = stream
    /\ done' = TRUE
    /\ UNCHANGED <<stream, file>>

SNext ==
    \/ \E b \in Blocks : Submit(b)
    \/ \E k \in 1..Len(stream) : Emit(k)
    \/ Finish

SSpec == SInit /\ [][SNext]_svars
=============================================================================
