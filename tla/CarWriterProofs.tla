--------------------------- MODULE CarWriterProofs ---------------------------
(***************************************************************************)
(* Proofs about CarWriter, for every capacity, bound and set of blocks:    *)
(* the writer keeps its type, and it implements CarSink under the mapping *)
(* stream <- out \o buffer, file <- out, done <- closed.  The refinement  *)
(* rests on one fact about poll_ready's loop: handing the first n bytes   *)
(* of the buffer to the inner writer and advancing the buffer by n leaves *)
(* out \o buffer as it was and extends out along it.                      *)
(***************************************************************************)
EXTENDS CarWriter, SequenceTheorems, TLAPS

(* The inductive invariant: the type, and a closed sink is in no call.   *)
(* The second conjunct is what makes poll_close's return a step of       *)
(* CarSink's Finish, which needs the sink not closed yet.               *)
WInv ==
    /\ WTypeOK
    /\ closed => call = "none"

(* Concatenation of byte strings is associative. *)
LEMMA ConcatAssocBytes ==
    ASSUME NEW s \in Seq(Byte), NEW t \in Seq(Byte), NEW u \in Seq(Byte)
    PROVE  (s \o t) \o u = s \o (t \o u)
  BY ConcatAssociative

(* One turn of poll_ready's loop: the bytes written and the bytes left    *)
(* make up what there was, and out grows along out \o buffer.            *)
LEMMA DrainSplit ==
    ASSUME NEW o \in Seq(Byte), NEW bf \in Seq(Byte), NEW n \in 1..Len(bf)
    PROVE  /\ SubSeq(bf, 1, n) \in Seq(Byte)
           /\ SubSeq(bf, n + 1, Len(bf)) \in Seq(Byte)
           /\ (o \o SubSeq(bf, 1, n)) \o SubSeq(bf, n + 1, Len(bf)) = o \o bf
           /\ o \o SubSeq(bf, 1, n) = SubSeq(o \o bf, 1, Len(o) + n)
  <1> DEFINE w == SubSeq(bf, 1, n)
             r == SubSeq(bf, n + 1, Len(bf))
  <1>1. w \in Seq(Byte) /\ r \in Seq(Byte) /\ Len(w) = n
    BY SubSeqProperties
  <1>2. w \o r = bf
    <2>1. w \o r = SubSeq(bf, 1, Len(bf))
      BY ConcatAdjacentSubSeq
    <2>2. QED
      BY <2>1, SubSeqFull
  <1>3. (o \o w) \o r = o \o bf
    <2>2. (o \o w) \o r = o \o (w \o r)
      BY <1>1, ConcatAssocBytes
    <2>3. QED
      BY <2>2, <1>2
  <1>4. o \o w \in Seq(Byte) /\ Len(o \o w) = Len(o) + n
    BY <1>1, ConcatProperties
  <1>5. SubSeq((o \o w) \o r, 1, Len(o) + n) = SubSeq(o \o w, 1, Len(o) + n)
    BY <1>1, <1>4, SubSeqOfConcat1
  <1>6. SubSeq(o \o w, 1, Len(o) + n) = o \o w
    BY <1>4, SubSeqFull
  <1>7. QED
    BY <1>1, <1>3, <1>5, <1>6

(* The caller's step CarWriter::new_carv1 starts from satisfies WInv. *)
LEMMA InitWInv == WInit => WInv
  <1> SUFFICES ASSUME WInit PROVE WInv
    OBVIOUS
  <1>1. buffer \in Seq(Byte)
    BY FrameAssumption DEF WInit
  <1>2. out \in Seq(Byte) /\ sent \in Seq(Blocks)
    BY EmptySeq DEF WInit
  <1>3. QED
    BY <1>1, <1>2 DEF WInit, WInv, WTypeOK, Calls

(* Every step of the writer and of its caller keeps WInv. *)
LEMMA StepWInv == WInv /\ [WNext]_wvars => WInv'
  <1> SUFFICES ASSUME WInv, [WNext]_wvars PROVE WInv'
    OBVIOUS
  <1>1. CASE \E c \in Calls : Call(c)
    BY <1>1 DEF Call, WInv, WTypeOK
  <1>2. CASE \E b \in Blocks : StartSend(b)
    <2>1. PICK b \in Blocks : StartSend(b)
      BY <1>2
    <2>2. Frame(b) \in Seq(Byte)
      BY FrameAssumption
    <2>3. buffer' \in Seq(Byte)
      BY <2>1, <2>2, ConcatProperties DEF StartSend, WInv, WTypeOK
    <2>4. sent' \in Seq(Blocks)
      BY <2>1, AppendProperties DEF StartSend, WInv, WTypeOK
    <2>5. QED
      BY <2>1, <2>3, <2>4 DEF StartSend, WInv, WTypeOK
  <1>3. CASE \E n \in 1..Len(buffer) : WriteSome(n)
    <2>1. PICK n \in 1..Len(buffer) : WriteSome(n)
      BY <1>3
    <2>2. out' \in Seq(Byte) /\ buffer' \in Seq(Byte)
      BY <2>1, DrainSplit, ConcatProperties DEF WriteSome, WInv, WTypeOK
    <2>3. QED
      BY <2>1, <2>2 DEF WriteSome, WInv, WTypeOK
  <1>4. CASE InnerFail
    BY <1>4 DEF InnerFail, WInv, WTypeOK
  <1>5. CASE ReadyDone
    BY <1>5 DEF ReadyDone, WInv, WTypeOK
  <1>6. CASE FlushDone
    BY <1>6 DEF FlushDone, WInv, WTypeOK
  <1>7. CASE CloseDone
    BY <1>7 DEF CloseDone, WInv, WTypeOK
  <1>8. CASE UNCHANGED wvars
    BY <1>8 DEF wvars, WInv, WTypeOK
  <1>9. QED
    BY <1>1, <1>2, <1>3, <1>4, <1>5, <1>6, <1>7, <1>8 DEF WNext, TaskStep

(* The writer keeps its type in every state: the buffer and the written  *)
(* bytes stay byte strings through every partial write and start_send.   *)
THEOREM WriterTypeOK == WSpec => []WTypeOK
  <1>1. WInit => WInv
    BY InitWInv
  <1>2. WInv /\ [WNext]_wvars => WInv'
    BY StepWInv
  <1>3. WInv => WTypeOK
    BY DEF WInv
  <1>4. QED
    BY <1>1, <1>2, <1>3, PTL DEF WSpec
(* Every step of the writer is a step of CarSink or leaves what CarSink   *)
(* sees unchanged: a partial write is Emit, start_send is Submit, the     *)
(* return of poll_close is Finish.                                        *)
LEMMA StepRefines == WInv /\ [WNext]_wvars => [Sink!SNext]_Sink!svars
  <1> SUFFICES ASSUME WInv, [WNext]_wvars PROVE [Sink!SNext]_Sink!svars
    OBVIOUS
  <1>1. CASE \E c \in Calls : Call(c)
    BY <1>1 DEF Call, Sink!svars
  <1>2. CASE \E b \in Blocks : StartSend(b)
    <2>1. PICK b \in Blocks : StartSend(b)
      BY <1>2
    <2>2. Frame(b) \in Seq(Byte) /\ out \in Seq(Byte) /\ buffer \in Seq(Byte)
      BY FrameAssumption DEF WInv, WTypeOK
    <2>3. out \o (buffer \o Frame(b)) = (out \o buffer) \o Frame(b)
      BY <2>2, ConcatAssocBytes
    <2>4. out' \o buffer' = (out \o buffer) \o Frame(b)
      BY <2>1, <2>3 DEF StartSend
    <2>5. Sink!Frame(b) = Frame(b)
      BY DEF Sink!Frame, Frame, Sink!VarintOf, VarintOf
    <2>6. (out \o buffer)' = (out \o buffer) \o Sink!Frame(b)
      BY <2>4, <2>5
    <2>7. Sink!Submit(b)
      BY <2>1, <2>6 DEF StartSend, Sink!Submit
    <2>8. QED
      BY <2>7 DEF Sink!SNext
  <1>3. CASE \E n \in 1..Len(buffer) : WriteSome(n)
    <2>1. PICK n \in 1..Len(buffer) : WriteSome(n)
      BY <1>3
    <2>2. out \in Seq(Byte) /\ buffer \in Seq(Byte)
      BY DEF WInv, WTypeOK
    <2>3. /\ out' \o buffer' = out \o buffer
          /\ out' = SubSeq(out \o buffer, 1, Len(out) + n)
      BY <2>1, <2>2, DrainSplit DEF WriteSome
    <2>4. Len(out \o buffer) = Len(out) + Len(buffer)
      BY <2>2, ConcatProperties
    <2>5. (out \o buffer)' = out \o buffer
      BY <2>3
    <2>6. Len(out) + n \in (Len(out) + 1)..Len(out \o buffer)
      BY <2>2, <2>4
    <2>7. Sink!Emit(Len(out) + n)
      BY <2>1, <2>3, <2>5, <2>6 DEF WriteSome, Sink!Emit
    <2>8. Len(out) + n \in 1..Len(out \o buffer)
      BY <2>2, <2>6
    <2>9. QED
      BY <2>7, <2>8 DEF Sink!SNext
  <1>4. CASE InnerFail
    BY <1>4 DEF InnerFail, Sink!svars
  <1>5. CASE ReadyDone
    BY <1>5 DEF ReadyDone, Sink!svars
  <1>6. CASE FlushDone
    BY <1>6 DEF FlushDone, Sink!svars
  <1>7. CASE CloseDone
    <2>1. out \o buffer = out
      BY <1>7, ConcatEmptySeq DEF CloseDone, WInv, WTypeOK
    <2>2. ~closed
      BY <1>7 DEF CloseDone, WInv
    <2>3. Sink!Finish
      BY <1>7, <2>1, <2>2 DEF CloseDone, Sink!Finish
    <2>4. QED
      BY <2>3 DEF Sink!SNext
  <1>8. CASE UNCHANGED wvars
    BY <1>8 DEF wvars, Sink!svars
  <1>9. QED
    BY <1>1, <1>2, <1>3, <1>4, <1>5, <1>6, <1>7, <1>8 DEF WNext, TaskStep

(* CarWriter implements the CarSink contract: the inner writer only ever *)
(* holds a prefix of the encoding of the header and of the blocks sent,  *)
(* no partial write loses or repeats a byte, and poll_close returns only *)
(* when the whole encoding has been written.                             *)
THEOREM WriterRefinesSink == WSpec => SinkRefined
  <1>1. WInit => Sink!SInit
    <2> SUFFICES ASSUME WInit PROVE Sink!SInit
      OBVIOUS
    <2>1. out \o buffer = HeaderFrame
      BY FrameAssumption, ConcatEmptySeq DEF WInit
    <2>2. Sink!HeaderFrame = HeaderFrame
      BY DEF Sink!HeaderFrame, HeaderFrame, Sink!UviFrame, UviFrame, Sink!VarintOf, VarintOf
    <2>3. QED
      BY <2>1, <2>2 DEF WInit, Sink!SInit
  <1>2. WInv /\ [WNext]_wvars => [Sink!SNext]_Sink!svars
    BY StepRefines
  <1>3. QED
    BY <1>1, <1>2, InitWInv, StepWInv, PTL DEF WSpec, SinkRefined, Sink!SSpec
=============================================================================
