----------------------- MODULE MessagePoolActionProofs -----------------------
(***************************************************************************)
(* Proofs of the action properties of MessagePool for every value of the   *)
(* constants: next_sequence never goes back while a sender's set stays in  *)
(* the pool (NextSeqMonotone), and a message replaces another only at a   *)
(* premium above MinPrice (ReplaceByFee).                                 *)
(*                                                                         *)
(* Both rest on one fact about a step of the code: a set that is in the    *)
(* pool before and after it is unchanged, or is the result of an applied   *)
(* rm (head_change's remove), or of add on it (add_helper).  An add on a  *)
(* set that holds no message takes next_sequence from the message, which  *)
(* may lower it; that never happens because no empty set is ever in the   *)
(* pool: remove drops a set that rm has emptied, and add_helper inserts a  *)
(* new set only when add succeeded.  So the invariant these proofs need is *)
(* IInv /\ NonEmptySets.                                                  *)
(***************************************************************************)
EXTENDS MessagePoolProofs

(* Every set in the pending map holds a message.                          *)
NonEmptySets == \A a \in Addrs : pending[a] # NoSet => Keys(pending[a]) # {}

MInv == IInv /\ NonEmptySets

(* add_helper(m) changes only the entry of m's sender: to add's result on *)
(* the sender's set, or, for a sender with no set, to a set that holds m. *)
LEMMA AddHelperAt ==
    ASSUME NEW p, PoolOK(p), NEW m \in Msgs, NEW a \in Addrs
    PROVE  \/ AddHelper(p, m)[a] = p[a]
           \/ /\ a = m.from /\ p[a] # NoSet
              /\ AddHelper(p, m)[a] = MsgSetAdd(p[a], m, TRUE)
           \/ /\ a = m.from /\ p[a] = NoSet
              /\ m.seq \in Keys(AddHelper(p, m)[a])
  <1>1. m.from \in Addrs /\ m.seq \in Seqs /\ m # NoMsg
    BY NoMsgAssumption DEF Msgs
  <1>2. CASE a # m.from
    BY <1>2 DEF AddHelper, PoolOK
  <1>3. CASE a = m.from /\ p[a] # NoSet
    BY <1>1, <1>3 DEF AddHelper, AddHelperSet, PoolOK
  <1>4. CASE a = m.from /\ p[a] = NoSet /\ ~AddHelperOk(p, m)
    BY <1>4 DEF AddHelper
  <1>5. CASE a = m.from /\ p[a] = NoSet /\ AddHelperOk(p, m)
    <2>1. NewMsgSet(0) \in MsgSets
      BY NewMsgSetType
    <2>2. MsgSetAdd(NewMsgSet(0), m, TRUE).msgs[m.seq] = m
      BY <1>5, <2>1, MsgSetAddKeys DEF AddHelperOk, AddHelperSet
    <2>3. MsgSetAdd(NewMsgSet(0), m, TRUE) \in MsgSets
      BY <2>1, MsgSetAddType
    <2>4. AddHelper(p, m)[a] = MsgSetAdd(NewMsgSet(0), m, TRUE)
      BY <1>5, <1>1 DEF AddHelper, AddHelperSet, PoolOK
    <2>5. QED
      BY <1>1, <1>5, <2>2, <2>3, <2>4 DEF Keys
  <1>6. QED
    BY <1>2, <1>3, <1>4, <1>5

-----------------------------------------------------------------------------
(* What a step of the code does to the entry of one sender: nothing, an   *)
(* applied rm on its set (dropped when emptied), add on its set, or a new *)
(* set that holds the message add_helper added.                           *)
PendingStepAt(a) ==
    \/ pending'[a] = pending[a]
    \/ /\ pending[a] # NoSet
       /\ \E s \in Seqs : pending'[a] \in {NoSet, MsgSetRm(pending[a], s, TRUE)}
       /\ pending'[a] # NoSet => Keys(pending'[a]) # {}
    \/ /\ pending[a] # NoSet
       /\ \E m \in Msgs : pending'[a] = MsgSetAdd(pending[a], m, TRUE)
    \/ /\ pending[a] = NoSet
       /\ \E m \in Msgs : m.seq \in Keys(pending'[a])

LEMMA PendingStep ==
    ASSUME IInv, [CodeNext]_vars, NEW a \in Addrs
    PROVE  PendingStepAt(a)
  <1>0. PoolOK(pending)
    BY DEF IInv, TypeOK, NextSeqBound, PoolOK
  <1>1. ASSUME NEW f \in Addrs, NEW s \in Seqs, ReactorRemove(f, s)
        PROVE  PendingStepAt(a)
    <2>1. pending' = Remove(pending, f, s, TRUE)
      BY <1>1 DEF ReactorRemove
    <2>2. \/ Remove(pending, f, s, TRUE)[a] = pending[a]
          \/ /\ a = f /\ pending[a] # NoSet
             /\ Remove(pending, f, s, TRUE)[a] \in {NoSet, MsgSetRm(pending[a], s, TRUE)}
             /\ Remove(pending, f, s, TRUE)[a] # NoSet =>
                    Keys(Remove(pending, f, s, TRUE)[a]) # {}
      BY <1>0 DEF Remove, PoolOK
    <2>3. QED
      BY <2>1, <2>2 DEF PendingStepAt
  <1>2. ASSUME NEW c \in Clients, AdmitInsert(c)
        PROVE  PendingStepAt(a)
    <2> DEFINE m == client[c].msg
    <2>1. m \in Msgs
      BY <1>2 DEF AdmitInsert, IInv, TypeOK, ClientStates, Idle
    <2>2. pending' = AddHelper(pending, m)
      BY <1>2 DEF AdmitInsert
    <2>3. \/ AddHelper(pending, m)[a] = pending[a]
          \/ /\ pending[a] # NoSet
             /\ AddHelper(pending, m)[a] = MsgSetAdd(pending[a], m, TRUE)
          \/ /\ pending[a] = NoSet
             /\ m.seq \in Keys(AddHelper(pending, m)[a])
      BY <1>0, <2>1, AddHelperAt
    <2>4. QED
      BY <2>1, <2>2, <2>3 DEF PendingStepAt
  <1>3. ASSUME NEW t \in Tipsets, NewHead(t) PROVE UNCHANGED pending
    BY <1>3 DEF NewHead
  <1>4. ASSUME NEW c \in Clients, NEW m \in Msgs, NEW local \in BOOLEAN,
               AdmitBegin(c, m, local)
        PROVE  UNCHANGED pending
    BY <1>4 DEF AdmitBegin
  <1>5. ASSUME NEW c \in Clients, NEW m \in Msgs, AdmitRejected(c, m)
        PROVE  UNCHANGED pending
    BY <1>5 DEF AdmitRejected, vars
  <1>6. ReactorLagged \/ ReactorRecv \/ ReactorDone \/ ReactorFail
          => UNCHANGED pending
    BY DEF ReactorLagged, ReactorRecv, ReactorDone, ReactorFail
  <1>7. UNCHANGED vars => UNCHANGED pending
    BY DEF vars
  <1>8. UNCHANGED pending => PendingStepAt(a)
    BY DEF PendingStepAt
  <1>9. QED
    BY <1>1, <1>2, <1>3, <1>4, <1>5, <1>6, <1>7, <1>8
       DEF CodeNext, ReliableNext, ReactorStep

-----------------------------------------------------------------------------
(* No step of the code leaves an empty set in the pool.                   *)
LEMMA StepNonEmpty ==
    ASSUME IInv, NonEmptySets, [CodeNext]_vars
    PROVE  NonEmptySets'
  <1> SUFFICES ASSUME NEW a \in Addrs, pending'[a] # NoSet
               PROVE  Keys(pending'[a]) # {}
    BY DEF NonEmptySets
  <1>1. PendingStepAt(a)
    BY PendingStep
  <1>2. pending[a] # NoSet => pending[a] \in MsgSets /\ Keys(pending[a]) # {}
    BY DEF NonEmptySets, IInv, TypeOK
  <1>3. ASSUME pending[a] # NoSet, NEW m \in Msgs,
               pending'[a] = MsgSetAdd(pending[a], m, TRUE)
        PROVE  Keys(pending'[a]) # {}
    BY <1>2, <1>3, MsgSetAddKeys
  <1>4. QED
    BY <1>1, <1>2, <1>3 DEF PendingStepAt

LEMMA InitMInv == Init => MInv
  BY InitIInv DEF Init, MInv, NonEmptySets

LEMMA StepMInv == MInv /\ [CodeNext]_vars => MInv'
  BY StepIInv, StepNonEmpty DEF MInv

-----------------------------------------------------------------------------
(* The step of NextSeqMonotone and of ReplaceByFee for one sender.        *)
MonotoneAt(a) ==
    (pending[a] # NoSet /\ pending'[a] # NoSet) => pending'[a].next >= pending[a].next

ReplaceAt(a, s) ==
    (/\ pending[a] # NoSet /\ pending'[a] # NoSet
     /\ s \in Keys(pending[a]) /\ s \in Keys(pending'[a])
     /\ pending'[a].msgs[s] # pending[a].msgs[s])
        => pending'[a].msgs[s].premium > MinPrice(pending[a].msgs[s].premium)

LEMMA StepMonotone ==
    ASSUME MInv, [CodeNext]_vars, NEW a \in Addrs
    PROVE  MonotoneAt(a)
  <1> SUFFICES ASSUME pending[a] # NoSet, pending'[a] # NoSet
               PROVE  pending'[a].next >= pending[a].next
    BY DEF MonotoneAt
  <1>1. pending[a] \in MsgSets /\ Bounded(pending[a]) /\ Keys(pending[a]) # {}
    BY DEF MInv, IInv, TypeOK, NextSeqBound, NonEmptySets
  <1>2. pending[a].next \in Nat
    BY <1>1 DEF MsgSets
  <1>3. PendingStepAt(a)
    BY PendingStep DEF MInv
  <1>4. CASE pending'[a] = pending[a]
    BY <1>2, <1>4
  <1>5. ASSUME NEW s \in Seqs, pending'[a] = MsgSetRm(pending[a], s, TRUE)
        PROVE  pending'[a].next >= pending[a].next
    BY <1>1, <1>5, MsgSetRmMonotone
  <1>6. ASSUME NEW m \in Msgs, pending'[a] = MsgSetAdd(pending[a], m, TRUE)
        PROVE  pending'[a].next >= pending[a].next
    BY <1>1, <1>6, MsgSetAddMonotone
  <1>7. QED
    BY <1>3, <1>4, <1>5, <1>6 DEF PendingStepAt

LEMMA StepReplace ==
    ASSUME MInv, [CodeNext]_vars, NEW a \in Addrs, NEW s \in Seqs
    PROVE  ReplaceAt(a, s)
  <1> SUFFICES ASSUME pending[a] # NoSet, pending'[a] # NoSet,
                      s \in Keys(pending[a]), s \in Keys(pending'[a]),
                      pending'[a].msgs[s] # pending[a].msgs[s]
               PROVE  pending'[a].msgs[s].premium > MinPrice(pending[a].msgs[s].premium)
    BY DEF ReplaceAt
  <1>1. pending[a] \in MsgSets
    BY DEF MInv, IInv, TypeOK
  <1>2. PendingStepAt(a)
    BY PendingStep DEF MInv
  <1>3. ASSUME NEW r \in Seqs, pending'[a] = MsgSetRm(pending[a], r, TRUE)
        PROVE  FALSE
    <2>1. s \in Keys(MsgSetRm(pending[a], r, TRUE))
      BY <1>3
    <2>2. MsgSetRm(pending[a], r, TRUE).msgs[s] = pending[a].msgs[s]
      BY <1>1, <2>1, MsgSetRmKeepsMsgs
    <2>3. QED
      BY <1>3, <2>2
  <1>4. ASSUME NEW m \in Msgs, pending'[a] = MsgSetAdd(pending[a], m, TRUE)
        PROVE  pending'[a].msgs[s].premium > MinPrice(pending[a].msgs[s].premium)
    BY <1>1, <1>4, MsgSetAddReplaces
  <1>5. QED
    BY <1>2, <1>3, <1>4 DEF PendingStepAt

-----------------------------------------------------------------------------
(* Every reachable state has its type (TypeOK of MessagePool).            *)
THEOREM PoolTypeOK == Spec => []TypeOK
  BY NextSeqBoundInvariant, PTL

(* A sender's next_sequence never goes back while its set stays in the    *)
(* pool, through every interleaving of admissions (add never lowers it on *)
(* a set that holds a message) and head-change removes (an applied rm     *)
(* only raises it).                                                       *)
THEOREM PoolNextSeqMonotone == Spec => NextSeqMonotone
  <1>1. MInv /\ [CodeNext]_vars => [\A a \in Addrs : MonotoneAt(a)]_vars
    BY StepMonotone
  <1>2. QED
    BY <1>1, InitMInv, StepMInv, PTL DEF Spec, NextSeqMonotone, MonotoneAt

(* A message takes the place of another at the same sender and sequence   *)
(* only through add, whose replace-by-fee check lets it in only at a      *)
(* premium above MinPrice of the old one; head-change removes take       *)
(* messages out and put none in (spec invariant 4).                      *)
THEOREM PoolReplaceByFee == Spec => ReplaceByFee
  <1>1. MInv /\ [CodeNext]_vars => [\A a \in Addrs, s \in Seqs : ReplaceAt(a, s)]_vars
    BY StepReplace
  <1>2. QED
    BY <1>1, InitMInv, StepMInv, PTL DEF Spec, ReplaceByFee, ReplaceAt

(* The behaviours of a pool whose chain provider answers every call are   *)
(* behaviours of Spec, so every safety property proved of Spec holds of  *)
(* ReliableLiveSpec, the specification of the pool_safety run.           *)
THEOREM ReliableRefinesSpec == ReliableLiveSpec => Spec
  <1>1. [ReliableNext]_vars => [CodeNext]_vars
    BY DEF CodeNext
  <1>2. QED
    BY <1>1, PTL DEF ReliableLiveSpec, Spec

=============================================================================
