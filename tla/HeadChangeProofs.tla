--------------------------- MODULE HeadChangeProofs ---------------------------
(***************************************************************************)
(* Proofs about the head-change task of MessagePool for every value of the *)
(* constants: no message leaves the pending map before the chain has      *)
(* applied its sequence (NoMessageLost).                                  *)
(***************************************************************************)
EXTENDS MessagePoolActionProofs

(* The facts of TypeOK the steps below use.                               *)
LEMMA ReactorType ==
    ASSUME IInv
    PROVE  /\ Len(chain) \in Nat
           /\ events \in Seq(2..Len(chain))
           /\ reactor = [pc |-> reactor.pc, ts |-> reactor.ts, todo |-> reactor.todo]
           /\ reactor.ts \in 1..Len(chain) /\ curTs \in 1..Len(chain)
  BY LenProperties DEF IInv, TypeOK

-----------------------------------------------------------------------------
(* No message is lost.  head_change removes (a, s) only for a message of  *)
(* a block of the tipset it applies, so s is below a's sequence after     *)
(* that tipset, and so after the head, since the chain never lowers an   *)
(* account's sequence.  The invariant: sequences grow along the chain,   *)
(* and every pair the task has still to remove was applied by its        *)
(* tipset.                                                                 *)

ChainMonotone ==
    \A i, j \in 1..Len(chain), a \in Addrs : i <= j => chain[i][a] <= chain[j][a]

TodoApplied == \A p \in reactor.todo : p[2] < chain[reactor.ts][p[1]]

LInv == IInv /\ ChainMonotone /\ TodoApplied

LEMMA InitLInv == Init => LInv
  BY InitIInv DEF Init, LInv, ChainMonotone, TodoApplied

(* The tipsets of the chain map every sender to a natural.                *)
LEMMA ChainType ==
    ASSUME IInv
    PROVE  /\ chain \in Seq(Tipsets)
           /\ \A i \in 1..Len(chain), a \in Addrs : chain[i][a] \in Nat
  BY DEF IInv, TypeOK, Tipsets

(* A new head keeps every account's sequence at least where it was.      *)
LEMMA NewHeadMonotone ==
    ASSUME IInv, ChainMonotone, NEW t \in Tipsets, NewHead(t)
    PROVE  ChainMonotone'
  <1> DEFINE L == Len(chain)
  <1>1. chain' = Append(chain, t) /\ \A a \in Addrs : t[a] >= chain[L][a]
    BY DEF NewHead
  <1>2. chain \in Seq(Tipsets) /\ L \in Nat /\ L >= 1
    BY ChainType, LenProperties DEF IInv, TypeOK
  <1>3. /\ Len(chain') = L + 1
        /\ \A i \in 1..L : chain'[i] = chain[i]
        /\ chain'[L + 1] = t
    BY <1>1, <1>2, AppendProperties
  <1>4. \A i \in 1..L, a \in Addrs : chain[i][a] \in Nat
    BY ChainType
  <1>5. \A a \in Addrs : t[a] \in Nat
    BY DEF Tipsets
  <1> SUFFICES ASSUME NEW i \in 1..(L + 1), NEW j \in 1..(L + 1), NEW a \in Addrs,
                        i <= j
                 PROVE  chain'[i][a] <= chain'[j][a]
    BY <1>3 DEF ChainMonotone
  <1>7. CASE j <= L
    <2>1. i \in 1..L /\ j \in 1..L
      BY <1>2, <1>7
    <2>2. chain[i][a] <= chain[j][a]
      BY <2>1 DEF ChainMonotone
    <2>3. QED
      BY <1>3, <2>1, <2>2
  <1>8. CASE j = L + 1 /\ i <= L
    <2>1. chain[i][a] <= chain[L][a]
      BY <1>2, <1>8 DEF ChainMonotone
    <2>2. QED
      BY <1>1, <1>3, <1>4, <1>5, <1>8, <2>1
  <1>9. CASE j = L + 1 /\ i = L + 1
    BY <1>3, <1>5, <1>9
  <1>10. QED
    BY <1>2, <1>7, <1>8, <1>9

LEMMA StepLInv == LInv /\ [CodeNext]_vars => LInv'
  <1> SUFFICES ASSUME LInv, [CodeNext]_vars PROVE LInv'
    OBVIOUS
  <1>0. IInv /\ ChainMonotone /\ TodoApplied
    BY DEF LInv
  <1>1. IInv'
    BY <1>0, StepIInv
  <1>r. reactor = [pc |-> reactor.pc, ts |-> reactor.ts, todo |-> reactor.todo]
        /\ reactor.ts \in 1..Len(chain)
    BY <1>0, ReactorType
  <1>2. ASSUME NEW t \in Tipsets, NewHead(t) PROVE ChainMonotone' /\ TodoApplied'
    <2>1. ChainMonotone'
      BY <1>0, <1>2, NewHeadMonotone
    <2>2. chain'[reactor.ts] = chain[reactor.ts] /\ UNCHANGED reactor
      BY <1>0, <1>2, <1>r, ChainType, AppendProperties DEF NewHead
    <2>3. QED
      BY <1>0, <2>1, <2>2 DEF TodoApplied
  <1>3. ASSUME ReactorRecv PROVE ChainMonotone' /\ TodoApplied'
    <2>1. reactor'.todo = AppliedIn(Head(events)) /\ reactor'.ts = Head(events)
          /\ UNCHANGED chain
      BY <1>3 DEF ReactorRecv
    <2>2. QED
      BY <1>0, <2>1 DEF TodoApplied, AppliedIn, ChainMonotone
  <1>4. ASSUME NEW f \in Addrs, NEW r \in Seqs, ReactorRemove(f, r)
        PROVE  ChainMonotone' /\ TodoApplied'
    <2>1. reactor'.todo \subseteq reactor.todo /\ reactor'.ts = reactor.ts
          /\ UNCHANGED chain
      BY <1>4, <1>r DEF ReactorRemove
    <2>2. QED
      BY <1>0, <2>1 DEF TodoApplied, ChainMonotone
  <1>5. ASSUME ReactorDone \/ ReactorFail PROVE ChainMonotone' /\ TodoApplied'
    <2>1. reactor'.todo = reactor.todo /\ reactor'.ts = reactor.ts /\ UNCHANGED chain
      BY <1>5, <1>r DEF ReactorDone, ReactorFail
    <2>2. QED
      BY <1>0, <2>1 DEF TodoApplied, ChainMonotone
  <1>6. UNCHANGED <<reactor, chain>> => ChainMonotone' /\ TodoApplied'
    BY <1>0 DEF TodoApplied, ChainMonotone
  <1>7. ASSUME NEW c \in Clients, NEW m \in Msgs, NEW local \in BOOLEAN,
               AdmitBegin(c, m, local)
        PROVE  UNCHANGED <<reactor, chain>>
    BY <1>7 DEF AdmitBegin
  <1>8. ASSUME NEW c \in Clients, NEW m \in Msgs, AdmitRejected(c, m)
        PROVE  UNCHANGED <<reactor, chain>>
    BY <1>8 DEF AdmitRejected, vars
  <1>9. ASSUME NEW c \in Clients, AdmitInsert(c)
        PROVE  UNCHANGED <<reactor, chain>>
    BY <1>9 DEF AdmitInsert
  <1>10. ReactorLagged \/ UNCHANGED vars => UNCHANGED <<reactor, chain>>
    BY DEF ReactorLagged, vars
  <1>11. ChainMonotone' /\ TodoApplied'
    BY <1>2, <1>3, <1>4, <1>5, <1>6, <1>7, <1>8, <1>9, <1>10
       DEF CodeNext, ReliableNext, ReactorStep
  <1>12. QED
    BY <1>1, <1>11 DEF LInv


(* The step of NoMessageLost for one sender and sequence.                 *)
LostAt(a, s) ==
    (/\ pending[a] # NoSet /\ s \in Keys(pending[a])
     /\ ~(pending'[a] # NoSet /\ s \in Keys(pending'[a])))
        => s < StateSequence(Len(chain), a)

(* A step keeps every key of a sender's set but those head_change removes. *)
LEMMA StepLost ==
    ASSUME LInv, [CodeNext]_vars, NEW a \in Addrs, NEW s \in Seqs
    PROVE  LostAt(a, s)
  <1> SUFFICES ASSUME pending[a] # NoSet, s \in Keys(pending[a]),
                      ~(pending'[a] # NoSet /\ s \in Keys(pending'[a]))
               PROVE  s < StateSequence(Len(chain), a)
    BY DEF LostAt
  <1>0. IInv /\ ChainMonotone /\ TodoApplied /\ PoolOK(pending)
    BY DEF LInv, IInv, TypeOK, NextSeqBound, PoolOK
  <1>1. pending[a] \in MsgSets
    BY <1>0 DEF PoolOK
  <1>2. pending'[a] # pending[a]
    OBVIOUS
  <1>3. ASSUME NEW c \in Clients, AdmitInsert(c) PROVE FALSE
    <2> DEFINE m == client[c].msg
    <2>1. m \in Msgs
      BY <1>0, <1>3 DEF AdmitInsert, IInv, TypeOK, ClientStates, Idle
    <2>2. pending' = AddHelper(pending, m)
      BY <1>3 DEF AdmitInsert
    <2>3. AddHelper(pending, m)[a] = pending[a]
          \/ AddHelper(pending, m)[a] = MsgSetAdd(pending[a], m, TRUE)
      BY <1>0, <2>1, AddHelperAt
    <2>4. MsgSetAdd(pending[a], m, TRUE) \in MsgSets
          /\ Keys(pending[a]) \subseteq Keys(MsgSetAdd(pending[a], m, TRUE))
      BY <1>1, <2>1, MsgSetAddType, MsgSetAddKeys
    <2>5. QED
      BY <1>2, <2>2, <2>3, <2>4, NoSetAssumption
  <1>4. ASSUME NEW f \in Addrs, NEW r \in Seqs, ReactorRemove(f, r)
        PROVE  s < StateSequence(Len(chain), a)
    <2> DEFINE ms == MsgSetRm(pending[a], r, TRUE)
    <2>1. pending' = Remove(pending, f, r, TRUE) /\ <<f, r>> \in reactor.todo
          /\ UNCHANGED chain
      BY <1>4 DEF ReactorRemove
    <2>2. a = f
      BY <1>0, <1>2, <2>1 DEF Remove, PoolOK
    <2>3. pending'[a] = IF Keys(ms) = {} THEN NoSet ELSE ms
      BY <1>0, <2>1, <2>2 DEF Remove, PoolOK
    <2>4. Keys(pending[a]) \ {r} \subseteq Keys(ms)
      BY <1>1, MsgSetRmKeys
    <2>5. ms \in MsgSets
      BY <1>0, <1>1, MsgSetRmApplied DEF IInv, NextSeqBound
    <2>6. ASSUME s # r PROVE FALSE
      <3>1. s \in Keys(ms)
        BY <2>4, <2>6
      <3>2. pending'[a] = ms
        BY <2>3, <3>1
      <3>3. QED
        BY <3>1, <3>2, <2>5, NoSetAssumption
    <2>7. r < chain[reactor.ts][a]
      BY <1>0, <2>1, <2>2 DEF TodoApplied
    <2>8. reactor.ts \in 1..Len(chain) /\ Len(chain) \in Nat
      BY <1>0, ReactorType
    <2>9. chain[reactor.ts][a] <= chain[Len(chain)][a]
      BY <1>0, <2>8 DEF ChainMonotone
    <2>10. chain[reactor.ts][a] \in Nat /\ chain[Len(chain)][a] \in Nat /\ r \in Nat
      BY <1>0, <2>8, ChainType DEF Seqs
    <2>11. QED
      BY <2>6, <2>7, <2>9, <2>10 DEF StateSequence
  <1>5. ASSUME NEW t \in Tipsets, NewHead(t) PROVE UNCHANGED pending
    BY <1>5 DEF NewHead
  <1>6. ASSUME NEW c \in Clients, NEW m \in Msgs, NEW local \in BOOLEAN,
               AdmitBegin(c, m, local)
        PROVE  UNCHANGED pending
    BY <1>6 DEF AdmitBegin
  <1>7. ASSUME NEW c \in Clients, NEW m \in Msgs, AdmitRejected(c, m)
        PROVE  UNCHANGED pending
    BY <1>7 DEF AdmitRejected, vars
  <1>8. ReactorLagged \/ ReactorRecv \/ ReactorDone \/ ReactorFail \/ UNCHANGED vars
          => UNCHANGED pending
    BY DEF ReactorLagged, ReactorRecv, ReactorDone, ReactorFail, vars
  <1>9. QED
    BY <1>2, <1>3, <1>4, <1>5, <1>6, <1>7, <1>8
       DEF CodeNext, ReliableNext, ReactorStep

(* No pending message is lost: it leaves the pool only once the chain's   *)
(* head has applied its sender's sequence, through lagging and dropped    *)
(* events, failed provider calls and every interleaving of admissions     *)
(* with head-change removes.                                              *)
THEOREM PoolNoMessageLost == Spec => NoMessageLost
  <1>1. LInv /\ [CodeNext]_vars => [\A a \in Addrs, s \in Seqs : LostAt(a, s)]_vars
    BY StepLost
  <1>2. QED
    BY <1>1, InitLInv, StepLInv, PTL DEF Spec, NoMessageLost, LostAt

=============================================================================
