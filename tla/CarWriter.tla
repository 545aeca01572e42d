------------------------------ MODULE CarWriter ------------------------------
(***************************************************************************)
(* CarWriter<W>, the Sink<CarBlock> of src/src/utils/db/car_stream.rs,     *)
(* driven by a caller that keeps the futures Sink contract: poll_ready     *)
(* until it is Ready(Ok), then one start_send, and poll_flush / poll_close. *)
(*                                                                         *)
(* The writer keeps its unwritten bytes in buffer.  poll_ready loops       *)
(*     while !buffer.is_empty() { n = ready!(inner.poll_write(buffer))?;    *)
(*                                buffer.advance(n) }                      *)
(* and poll_flush / poll_close run that loop before flushing or shutting   *)
(* down the inner writer.  The inner writer W takes any number of bytes    *)
(* from 1 up to its room per poll_write, returns Pending (the task sleeps *)
(* and is polled again: a stutter), or, when InnerMayFail, an error.  It  *)
(* can take at most Capacity bytes in all: a writer over a fixed buffer,   *)
(* such as tokio's Cursor<&mut [u8]>, answers Ok(0) once it is full.      *)
(***************************************************************************)
EXTENDS CarFormat

CONSTANTS
    Capacity,      \* bytes the inner writer can take in all
    MaxSends,      \* blocks the caller sends at most
    InnerMayFail   \* poll_write, poll_flush and poll_shutdown may fail

ASSUME CapacityAssumption == Capacity \in Nat
ASSUME MaxSendsAssumption == MaxSends \in Nat
ASSUME InnerMayFailAssumption == InnerMayFail \in BOOLEAN

VARIABLES
    buffer,    \* CarWriter.buffer: encoded bytes not yet written
    out,       \* the bytes the inner writer has taken
    sent,      \* the blocks given to start_send, in order
    call,      \* the poll_* method the caller is in, or "none"
    accepted,  \* poll_ready returned Ready(Ok) and no start_send followed
    closed     \* poll_close returned Ready(Ok)

wvars == <<buffer, out, sent, call, accepted, closed>>

Calls == {"ready", "flush", "close"}

WTypeOK ==
    /\ buffer \in Seq(Byte)
    /\ out \in Seq(Byte)
    /\ sent \in Seq(Blocks)
    /\ call \in Calls \cup {"none"}
    /\ accepted \in BOOLEAN
    /\ closed \in BOOLEAN

(* CarWriter::new_carv1: the buffer holds the header's frame. *)
WInit ==
    /\ buffer = HeaderFrame
    /\ out = <<>>
    /\ sent = <<>>
    /\ call = "none"
    /\ accepted = FALSE
    /\ closed = FALSE

-----------------------------------------------------------------------------
(* The caller polls one of the Sink methods; it asks for poll_ready only  *)
(* when it has a block to send, and uses nothing once the sink is closed. *)
Call(c) ==
    /\ call = "none"
    /\ ~closed
    /\ c = "ready" => ~accepted /\ Len(sent) < MaxSends
    /\ call' = c
    /\ UNCHANGED <<buffer, out, sent, accepted, closed>>

(* Mutant: poll_write is handed all of the buffer but its last byte. *)
WriteSomeShort(n) ==
    /\ call # "none"
    /\ buffer # <<>>
    /\ n \in 1..(Capacity - Len(out))
    /\ n <= Len(buffer) - 1
    /\ out' = out \o SubSeq(buffer, 1, n)
    /\ buffer' = SubSeq(buffer, n + 1, Len(buffer))
    /\ UNCHANGED <<sent, call, accepted, closed>>

(* One turn of poll_ready's loop: poll_write took n bytes and the buffer  *)
(* advances by n.  When the inner writer is full it answers Ok(0): the    *)
(* loop advances by nothing and turns again, which changes no state.      *)
WriteSome(n) ==
    /\ call # "none"
    /\ buffer # <<>>
    /\ n \in 1..(Capacity - Len(out))
    /\ n <= Len(buffer)
    /\ out' = out \o SubSeq(buffer, 1, n)
    /\ buffer' = SubSeq(buffer, n + 1, Len(buffer))
    /\ UNCHANGED <<sent, call, accepted, closed>>

(* poll_write returns Err inside the loop, or the inner poll_flush or     *)
(* poll_shutdown does after it: the poll method returns the error, the    *)
(* buffer keeps what is left.                                             *)
InnerFail ==
    /\ InnerMayFail
    /\ call # "none"
    /\ buffer # <<>> \/ call # "ready"
    /\ call' = "none"
    /\ UNCHANGED <<buffer, out, sent, accepted, closed>>

(* poll_ready leaves its loop with an empty buffer: Ready(Ok(())). *)
ReadyDone ==
    /\ call = "ready"
    /\ buffer = <<>>
    /\ call' = "none"
    /\ accepted' = TRUE
    /\ UNCHANGED <<buffer, out, sent, closed>>

(* start_send: CarBlock::write appends the block's frame to the buffer;  *)
(* the caller sends after a Ready(Ok) of poll_ready and never once closed. *)
StartSend(b) ==
    /\ call = "none"
    /\ accepted
    /\ ~closed
    /\ buffer' = buffer \o Frame(b)
    /\ sent' = Append(sent, b)
    /\ accepted' = FALSE
    /\ UNCHANGED <<out, call, closed>>

(* poll_flush after its poll_ready: the inner poll_flush returns Ok. *)
FlushDone ==
    /\ call = "flush"
    /\ buffer = <<>>
    /\ call' = "none"
    /\ UNCHANGED <<buffer, out, sent, accepted, closed>>

(* Mutant: poll_close shuts the inner writer down without poll_ready. *)
CloseDoneNoDrain ==
    /\ call = "close"
    /\ call' = "none"
    /\ closed' = TRUE
    /\ UNCHANGED <<buffer, out, sent, accepted>>

(* poll_close after its poll_ready: the inner poll_shutdown returns Ok. *)
CloseDone ==
    /\ call = "close"
    /\ buffer = <<>>
    /\ call' = "none"
    /\ closed' = TRUE
    /\ UNCHANGED <<buffer, out, sent, accepted>>

(* The steps of the task that is inside a poll method. *)
TaskStep ==
    \/ \E n \in 1..Len(buffer) : WriteSome(n)
    \/ InnerFail
    \/ ReadyDone
    \/ FlushDone
    \/ CloseDone

WNext ==
    \/ \E c \in Calls : Call(c)
    \/ \E b \in Blocks : StartSend(b)
    \/ TaskStep

WSpec == WInit /\ [][WNext]_wvars

(* The runtime polls a task that is inside a poll method again until the  *)
(* method returns: the task is woken whenever its inner writer is ready,  *)
(* so a write, flush or shutdown that can complete eventually does.  An   *)
(* error of the inner writer is not something the scheduler brings about, *)
(* so InnerFail gets no fairness.                                          *)
Progress ==
    \/ \E n \in 1..Len(buffer) : WriteSome(n)
    \/ ReadyDone
    \/ FlushDone
    \/ CloseDone

WLiveSpec == WSpec /\ WF_wvars(Progress)

-----------------------------------------------------------------------------
(* The writer implements the contract of CarSink: what the inner writer   *)
(* has taken followed by the buffer is the encoding of the header and of  *)
(* every block sent, so a partial write loses or repeats no byte across   *)
(* suspensions, and poll_close returns only once all of it is written.    *)
Sink == INSTANCE CarSink WITH stream <- out \o buffer, file <- out, done <- closed

SinkRefined == Sink!SSpec

(* Every poll method the caller enters eventually returns: poll_ready,    *)
(* poll_flush and poll_close do not spin for ever inside their loop.      *)
CallReturns == (call # "none") ~> (call = "none")
=============================================================================
