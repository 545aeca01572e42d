------------------------- MODULE MessagePoolQueries -------------------------
(***************************************************************************)
(* The read side of the message pool beside the writers of MessagePool: a  *)
(* reader that calls get_sequence(addr) and pending() of                  *)
(* src/src/message_pool/msgpool/msg_pool.rs while callers admit messages  *)
(* and the head-change task removes them.  Neither query holds a lock for *)
(* its whole run:                                                         *)
(*   - get_sequence clones cur_tipset under its mutex, reads the state     *)
(*     sequence at that tipset, and only then takes the pending read lock; *)
(*   - pending() clones the pending map under one read lock and then calls *)
(*     pending_for(addr), one read lock each, for every sender of the      *)
(*     clone, failing with InvalidFromAddr when a sender has gone.         *)
(***************************************************************************)
EXTENDS MessagePool

CONSTANT NoSeq     \* get_sequence has not returned for a sender yet

ASSUME NoSeqAssumption == NoSeq \notin Nat

VARIABLES
    rdr,       \* the reader: which query it is in and what it has read
    lastSeq,   \* per sender, the value get_sequence returned last
    listErr    \* a pending() call has returned Err(InvalidFromAddr)

qvars == <<rdr, lastSeq, listErr>>
allVars == <<vars, qvars>>

RdrIdle == [pc |-> "idle", a |-> CHOOSE a \in Addrs : TRUE, ts |-> 1, snap |-> {}]

QInit ==
    /\ Init
    /\ rdr = RdrIdle
    /\ lastSeq = [a \in Addrs |-> NoSeq]
    /\ listErr = FALSE

-----------------------------------------------------------------------------
(* get_sequence, first half: cur_tipset cloned under its mutex; the state *)
(* sequence is read at that tipset, whose state no later step changes.    *)
SeqBegin(a) ==
    /\ rdr.pc = "idle"
    /\ rdr' = [rdr EXCEPT !.pc = "seq", !.a = a, !.ts = curTs]
    /\ UNCHANGED <<vars, lastSeq, listErr>>

(* The value get_sequence returns for sender a with state sequence        *)
(* sequence, given the pending map it reads.                              *)
SequenceResult(p, a, sequence) ==
    IF p[a] = NoSet \/ sequence > p[a].next THEN sequence ELSE p[a].next

(* get_sequence, second half: under the pending read lock, the larger of  *)
(* the state sequence and the set's next_sequence.                        *)
SeqRead ==
    /\ rdr.pc = "seq"
    /\ lastSeq' = [lastSeq EXCEPT ![rdr.a] =
                      SequenceResult(pending, rdr.a, StateSequence(rdr.ts, rdr.a))]
    /\ rdr' = RdrIdle
    /\ UNCHANGED <<vars, listErr>>

(* pending(): the map cloned under one read lock; its senders are kept.   *)
ListBegin ==
    /\ rdr.pc = "idle"
    /\ rdr' = [rdr EXCEPT !.pc = "list",
                          !.snap = {a \in Addrs : pending[a] # NoSet}]
    /\ UNCHANGED <<vars, lastSeq, listErr>>

(* pending_for(a) under its own read lock: None when a has no set or an   *)
(* empty one, which pending() turns into Err(InvalidFromAddr) and returns. *)
ListFor(a) ==
    /\ rdr.pc = "list"
    /\ a \in rdr.snap
    /\ IF pending[a] = NoSet \/ Keys(pending[a]) = {}
       THEN /\ listErr' = TRUE
            /\ rdr' = RdrIdle
       ELSE /\ rdr' = [rdr EXCEPT !.snap = @ \ {a}]
            /\ UNCHANGED listErr
    /\ UNCHANGED <<vars, lastSeq>>

(* pending() returns Ok((out, cur_tipset)) once every sender is listed.   *)
ListEnd ==
    /\ rdr.pc = "list"
    /\ rdr.snap = {}
    /\ rdr' = RdrIdle
    /\ UNCHANGED <<vars, lastSeq, listErr>>

ReaderStep ==
    \/ \E a \in Addrs : SeqBegin(a)
    \/ SeqRead
    \/ ListBegin
    \/ \E a \in Addrs : ListFor(a)
    \/ ListEnd

QNext ==
    \/ CodeNext /\ UNCHANGED qvars
    \/ ReaderStep

QSpec == QInit /\ [][QNext]_allVars

-----------------------------------------------------------------------------
(* The sequence get_sequence returns for a sender never goes below one it *)
(* returned before while no message is pruned: the nonce is a monotonic   *)
(* per-sender counter (spec, glossary) that wallets take the next nonce   *)
(* from.                                                                  *)
SequenceNeverRegresses ==
    [][\A a \in Addrs :
         (lastSeq[a] # NoSeq /\ lastSeq'[a] # lastSeq[a])
            => lastSeq'[a] >= lastSeq[a]]_allVars

(* When pending() fails, the cause is a sender the head-change task     *)
(* removed after pending() cloned the map, never a set left empty in the  *)
(* map: remove drops a set once rm has emptied it, so pending_for returns *)
(* None only for a sender with no set.  A call fails when it ends before  *)
(* it has listed every sender of its clone.                               *)
ListErrOnlyRemoved ==
    [][(rdr.pc = "list" /\ rdr'.pc = "idle" /\ rdr.snap # {})
         => \E a \in rdr.snap : pending[a] = NoSet]_allVars

(* pending() never fails with InvalidFromAddr: that error stands for a    *)
(* sender unknown to the pool (spec, error taxonomy), and every sender    *)
(* pending() asks pending_for about is one it found in the pool.          *)
ListNeverFails == ~listErr
=============================================================================
