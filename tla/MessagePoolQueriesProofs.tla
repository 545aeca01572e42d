----------------------- MODULE MessagePoolQueriesProofs -----------------------
(***************************************************************************)
(* Proofs about the queries of MessagePoolQueries, for every value of the  *)
(* constants.  The queries only read the pool, so the pool with the reader *)
(* behaves as the pool alone (QueriesRefinesPool), and what is proved of   *)
(* Spec holds with the reader running.  One consequence is about pending() *)
(* itself: it fails only for a sender removed since its clone             *)
(* (ListErrOnlyRemoved), because no set in the map is ever empty          *)
(* (NonEmptySets of MessagePoolActionProofs).                              *)
(***************************************************************************)
EXTENDS MessagePoolQueries, MessagePoolActionProofs

(* get_sequence and pending() only read the pool: every behaviour of the  *)
(* pool with the reader is a behaviour of the pool alone, so every safety *)
(* property proved of Spec (NextSeqBound, NextSeqMonotone, ReplaceByFee,  *)
(* NoMessageLost) holds with the queries running too.                     *)
THEOREM QueriesRefinesPool == QSpec => Spec
  <1>1. QInit => Init
    BY DEF QInit
  <1>2. [QNext]_allVars => [CodeNext]_vars
    BY DEF QNext, ReaderStep, SeqBegin, SeqRead, ListBegin, ListFor, ListEnd,
       allVars, vars
  <1>3. QED
    BY <1>1, <1>2, PTL DEF QSpec, Spec

(* The reader is a record of its fields.                                  *)
RdrType == rdr \in [pc : {"idle", "seq", "list"}, a : Addrs, ts : Nat,
                    snap : SUBSET Addrs]

LEMMA InitRdrType == QInit => RdrType
  <1>1. (CHOOSE a \in Addrs : TRUE) \in Addrs
    BY AddrsAssumption
  <1>2. QED
    BY <1>1 DEF QInit, RdrIdle, RdrType

LEMMA StepRdrType == RdrType /\ IInv /\ [QNext]_allVars => RdrType'
  <1> SUFFICES ASSUME RdrType, IInv, [QNext]_allVars PROVE RdrType'
    OBVIOUS
  <1>1. RdrIdle \in [pc : {"idle", "seq", "list"}, a : Addrs, ts : Nat,
                     snap : SUBSET Addrs]
    BY AddrsAssumption DEF RdrIdle
  <1>2. curTs \in Nat
    BY DEF IInv, TypeOK
  <1>3. QED
    BY <1>1, <1>2 DEF RdrType, QNext, ReaderStep, SeqBegin, SeqRead,
       ListBegin, ListFor, ListEnd, qvars, allVars

(* The step of ListErrOnlyRemoved.                                         *)
ListErrStep ==
    (rdr.pc = "list" /\ rdr'.pc = "idle" /\ rdr.snap # {})
        => \E a \in rdr.snap : pending[a] = NoSet

(* A pending() call that stops before it has listed its clone stops in    *)
(* pending_for's None branch, on a sender of the clone, and with no empty *)
(* set in the map that sender has no set.                                  *)
LEMMA StepListErr ==
    MInv /\ RdrType /\ [QNext]_allVars => [ListErrStep]_allVars
  <1> SUFFICES ASSUME MInv, RdrType, [QNext]_allVars,
                      rdr.pc = "list", rdr'.pc = "idle", rdr.snap # {}
               PROVE  \E a \in rdr.snap : pending[a] = NoSet
    BY DEF ListErrStep
  <1>1. PICK a \in Addrs : ListFor(a)
    BY DEF QNext, ReaderStep, SeqBegin, SeqRead, ListBegin, ListEnd,
       qvars, allVars
  <1>2. a \in rdr.snap
    BY <1>1 DEF ListFor
  <1>3. [rdr EXCEPT !.snap = @ \ {a}].pc = "list"
    BY DEF RdrType
  <1>4. pending[a] = NoSet \/ Keys(pending[a]) = {}
    BY <1>1, <1>3 DEF ListFor
  <1>5. pending[a] = NoSet
    BY <1>4 DEF MInv, NonEmptySets
  <1>6. QED
    BY <1>2, <1>5

(* pending() fails only for a sender whose last message the head-change   *)
(* task removed after the clone, through every interleaving of its        *)
(* pending_for calls with admissions and head changes.                    *)
THEOREM QueriesListErrOnlyRemoved == QSpec => ListErrOnlyRemoved
  <1>1. QSpec => []MInv
    BY QueriesRefinesPool, InitMInv, StepMInv, PTL DEF Spec
  <1>2. MInv => IInv
    BY DEF MInv
  <1>3. QSpec => []RdrType
    BY <1>1, <1>2, InitRdrType, StepRdrType, PTL DEF QSpec
  <1>4. QED
    BY <1>1, <1>3, StepListErr, PTL DEF QSpec, ListErrOnlyRemoved, ListErrStep
====
