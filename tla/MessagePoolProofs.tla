-------------------------- MODULE MessagePoolProofs --------------------------
(***************************************************************************)
(* Proofs about MessagePool: the type invariant and NextSeqBound hold in   *)
(* every state of Spec, for all values of the constants.  Neither holds    *)
(* alone as an inductive invariant: an applied remove of a sequence the   *)
(* set has no message for runs rm's while loop, and only NextSeqBound     *)
(* shows that the loop stops at once, on a sequence in range, so the type *)
(* of next_sequence needs NextSeqBound; NextSeqBound of the set a caller  *)
(* adds to needs the type.  Their conjunction is inductive.              *)
(***************************************************************************)
EXTENDS MessagePool, MsgSetProofs, SequenceTheorems

(* The pending map has its type and each of its sets is Bounded.          *)
PoolOK(p) ==
    /\ p \in [Addrs -> MsgSets \cup {NoSet}]
    /\ \A a \in Addrs : p[a] # NoSet => Bounded(p[a])

(* The inductive invariant.                                               *)
IInv == TypeOK /\ NextSeqBound

(* remove(from, pending, sequence, true) keeps PoolOK.                    *)
LEMMA RemoveAppliedOK ==
    ASSUME NEW p, PoolOK(p), NEW from \in Addrs, NEW s \in Seqs
    PROVE  PoolOK(Remove(p, from, s, TRUE))
  <1>1. CASE p[from] = NoSet
    BY <1>1 DEF Remove
  <1>2. CASE p[from] # NoSet
    <2> DEFINE ms == MsgSetRm(p[from], s, TRUE)
    <2>1. p[from] \in MsgSets /\ Bounded(p[from])
      BY <1>2 DEF PoolOK
    <2>2. ms \in MsgSets /\ Bounded(ms)
      BY <2>1, MsgSetRmApplied
    <2>3. Remove(p, from, s, TRUE)
            = [p EXCEPT ![from] = IF Keys(ms) = {} THEN NoSet ELSE ms]
      BY <1>2 DEF Remove
    <2>4. QED
      BY <2>2, <2>3 DEF PoolOK
  <1>3. QED
    BY <1>1, <1>2

(* add_helper keeps PoolOK.                                               *)
LEMMA AddHelperOK ==
    ASSUME NEW p, PoolOK(p), NEW m \in Msgs
    PROVE  PoolOK(AddHelper(p, m))
  <1>1. m.from \in Addrs
    BY DEF Msgs
  <1>2. AddHelperSet(p, m) \in MsgSets /\ Bounded(AddHelperSet(p, m))
    <2>1. CASE p[m.from] = NoSet
      <3>1. NewMsgSet(0) \in MsgSets /\ Keys(NewMsgSet(0)) = {}
        BY NewMsgSetType
      <3>2. QED
        BY <2>1, <3>1 DEF AddHelperSet, Bounded
    <2>2. CASE p[m.from] # NoSet
      BY <2>2, <1>1 DEF AddHelperSet, PoolOK
    <2>3. QED
      BY <2>1, <2>2
  <1>3. MsgSetAdd(AddHelperSet(p, m), m, TRUE) \in MsgSets
        /\ Bounded(MsgSetAdd(AddHelperSet(p, m), m, TRUE))
    BY <1>2, MsgSetAddType, MsgSetAddBounded
  <1>4. QED
    BY <1>1, <1>3 DEF AddHelper, PoolOK

-----------------------------------------------------------------------------
LEMMA InitIInv == Init => IInv
  <1> SUFFICES ASSUME Init PROVE IInv
    OBVIOUS
  <1>1. [a \in Addrs |-> 0] \in Tipsets
    BY MaxSeqAssumption DEF Tipsets
  <1>2. client \in [Clients -> ClientStates]
    BY DEF Init, ClientStates
  <1>3. chain \in Seq(Tipsets) /\ Len(chain) = 1
    BY <1>1 DEF Init
  <1>4. events \in Seq(2..Len(chain))
    BY EmptySeq DEF Init
  <1>5. 1 <= Len(chain) /\ Len(chain) <= MaxEpoch /\ curTs \in 1..Len(chain)
    BY <1>3, MaxEpochAssumption DEF Init
  <1>6. reactor \in [pc : {"recv", "apply", "dead"}, ts : 1..Len(chain),
                     todo : SUBSET (Addrs \X Seqs)]
    BY <1>3 DEF Init
  <1>7. pending \in [Addrs -> MsgSets \cup {NoSet}] /\ NextSeqBound
    BY DEF Init, NextSeqBound
  <1>8. QED
    BY <1>2, <1>3, <1>4, <1>5, <1>6, <1>7 DEF Init, IInv, TypeOK

(* Each step of the code keeps IInv: one step per action.                 *)
LEMMA StepIInv == IInv /\ [CodeNext]_vars => IInv'
  <1> SUFFICES ASSUME IInv, [CodeNext]_vars PROVE IInv'
    OBVIOUS
  <1>0. PoolOK(pending)
    BY DEF IInv, TypeOK, NextSeqBound, PoolOK
  <1>1. ASSUME NEW t \in Tipsets, NewHead(t) PROVE IInv'
    <2> DEFINE T == 2..(Len(chain) + 1)
    <2>1. chain \in Seq(Tipsets) /\ Len(chain) \in Nat /\ events \in Seq(2..Len(chain))
      BY LenProperties DEF IInv, TypeOK
    <2>2. chain' \in Seq(Tipsets) /\ Len(chain') = Len(chain) + 1
      BY <1>1, <2>1, AppendProperties DEF NewHead
    <2>3. events \in Seq(T) /\ Len(chain) + 1 \in T
      BY <2>1, SeqMonotonic DEF IInv, TypeOK
    <2>4. events' \in Seq(T)
      <3>1. CASE Len(events) = EventCap
        <4>1. events # <<>>
          BY <3>1, <2>3, EventCapAssumption, EmptySeq
        <4>2. Tail(events) \in Seq(T)
          BY <2>3, <4>1, HeadTailProperties
        <4>3. Append(Tail(events), Len(chain) + 1) \in Seq(T)
          BY <4>2, <2>3, AppendProperties
        <4>4. events' = Append(Tail(events), Len(chain) + 1)
          BY <3>1, <1>1 DEF NewHead
        <4>5. QED
          BY <4>3, <4>4
      <3>2. CASE Len(events) # EventCap
        <4>1. Append(events, Len(chain) + 1) \in Seq(T)
          BY <2>3, AppendProperties
        <4>2. events' = Append(events, Len(chain) + 1)
          BY <3>2, <1>1 DEF NewHead
        <4>3. QED
          BY <4>1, <4>2
      <3>3. QED
        BY <3>1, <3>2
    <2>5. Len(chain') <= MaxEpoch
      BY <1>1, <2>1, <2>2, MaxEpochAssumption DEF NewHead
    <2>6. curTs' \in 1..Len(chain') /\ reactor'.ts \in 1..Len(chain')
      BY <1>1, <2>1, <2>2 DEF NewHead, IInv, TypeOK
    <2>7. lagged' \in BOOLEAN
      BY <1>1 DEF NewHead, IInv, TypeOK
    <2>8. UNCHANGED <<pending, client, localAddrs, localMsgs>>
      BY <1>1 DEF NewHead
    <2>9. reactor' \in [pc : {"recv", "apply", "dead"}, ts : 1..Len(chain'),
                        todo : SUBSET (Addrs \X Seqs)]
      BY <2>6, <2>8, <1>1 DEF NewHead, IInv, TypeOK
    <2>10. QED
      BY <2>2, <2>4, <2>5, <2>6, <2>7, <2>8, <2>9 DEF IInv, TypeOK, NextSeqBound
  <1>2. CASE ReactorLagged
    BY <1>2 DEF ReactorLagged, IInv, TypeOK, NextSeqBound
  <1>3. CASE ReactorRecv
    <2>1. events \in Seq(2..Len(chain)) /\ events # <<>>
      BY <1>3 DEF ReactorRecv, IInv, TypeOK
    <2>2. Head(events) \in 2..Len(chain) /\ Tail(events) \in Seq(2..Len(chain))
      BY <2>1, HeadTailProperties
    <2>3. Len(chain) \in Nat
      BY LenProperties DEF IInv, TypeOK
    <2>4. AppliedIn(Head(events)) \subseteq Addrs \X Seqs
      BY DEF AppliedIn
    <2>5. reactor' \in [pc : {"recv", "apply", "dead"}, ts : 1..Len(chain),
                        todo : SUBSET (Addrs \X Seqs)]
      BY <1>3, <2>2, <2>3, <2>4 DEF ReactorRecv
    <2>6. QED
      BY <1>3, <2>2, <2>5 DEF ReactorRecv, IInv, TypeOK, NextSeqBound
  <1>4. ASSUME NEW a \in Addrs, NEW s \in Seqs, ReactorRemove(a, s) PROVE IInv'
    <2>1. PoolOK(pending')
      BY <1>4, <1>0, RemoveAppliedOK DEF ReactorRemove
    <2>2. QED
      BY <1>4, <2>1 DEF ReactorRemove, IInv, TypeOK, NextSeqBound, PoolOK
  <1>5. CASE ReactorDone
    BY <1>5 DEF ReactorDone, IInv, TypeOK, NextSeqBound
  <1>6. CASE ReactorFail
    BY <1>6 DEF ReactorFail, IInv, TypeOK, NextSeqBound
  <1>7. ASSUME NEW c \in Clients, NEW m \in Msgs, NEW local \in BOOLEAN,
               AdmitBegin(c, m, local)
        PROVE IInv'
    <2>1. [pc |-> "adding", msg |-> m, local |-> local] \in ClientStates
      BY DEF ClientStates
    <2>2. QED
      BY <1>7, <2>1 DEF AdmitBegin, IInv, TypeOK, NextSeqBound
  <1>8. ASSUME NEW c \in Clients, NEW m \in Msgs, AdmitRejected(c, m) PROVE IInv'
    BY <1>8 DEF AdmitRejected, vars, IInv, TypeOK, NextSeqBound
  <1>9. ASSUME NEW c \in Clients, AdmitInsert(c) PROVE IInv'
    <2>1. client[c].pc = "adding"
      BY <1>9 DEF AdmitInsert
    <2>2. client[c].msg \in Msgs
      BY <2>1 DEF IInv, TypeOK, ClientStates, Idle
    <2>3. PoolOK(pending')
      BY <1>9, <1>0, <2>2, AddHelperOK DEF AdmitInsert
    <2>4. Idle \in ClientStates
      BY DEF ClientStates
    <2>5. localAddrs' \subseteq Addrs /\ localMsgs' \subseteq Msgs
      BY <1>9, <2>2 DEF AdmitInsert, IInv, TypeOK, Msgs
    <2>6. QED
      BY <1>9, <2>3, <2>4, <2>5 DEF AdmitInsert, IInv, TypeOK, NextSeqBound, PoolOK
  <1>10. CASE UNCHANGED vars
    BY <1>10 DEF vars, IInv, TypeOK, NextSeqBound
  <1>11. QED
    BY <1>1, <1>2, <1>3, <1>4, <1>5, <1>6, <1>7, <1>8, <1>9, <1>10
       DEF CodeNext, ReliableNext, ReactorStep

(* Every reachable state has its type, and every message of every sender  *)
(* has a sequence below its set's next_sequence (spec invariant 1).       *)
THEOREM NextSeqBoundInvariant == Spec => [](TypeOK /\ NextSeqBound)
  <1>1. IInv => TypeOK /\ NextSeqBound
    BY DEF IInv
  <1>2. QED
    BY InitIInv, StepIInv, <1>1, PTL DEF Spec
=============================================================================
