---------------------------- MODULE MsgSetProofs ----------------------------
(***************************************************************************)
(* What add and rm of MsgSet keep: the type of the set and Bounded, every *)
(* message's sequence below next_sequence.  rm is covered for an applied  *)
(* remove, the only one this repository's code makes (head_change).       *)
(***************************************************************************)
EXTENDS MsgSet, TLAPS

(* MsgSet::new gives a set of the type with no message.                   *)
LEMMA NewMsgSetType ==
    ASSUME NEW n \in Nat
    PROVE  /\ NewMsgSet(n) \in MsgSets
           /\ Keys(NewMsgSet(n)) = {}
  BY DEF NewMsgSet, MsgSets, Keys

(* add(m, trusted) returns a set of the type, whatever its Result.        *)
LEMMA MsgSetAddType ==
    ASSUME NEW ms \in MsgSets, NEW m \in Msgs, NEW trusted \in BOOLEAN
    PROVE  MsgSetAdd(ms, m, trusted) \in MsgSets
  <1>1. AddNext(ms, m) \in Nat
    BY MaxSeqAssumption DEF AddNext, MsgSets, Msgs, Seqs
  <1>2. m.seq \in Seqs
    BY DEF Msgs
  <1>3. QED
    BY <1>1, <1>2 DEF MsgSetAdd, MsgSets

(* add(m, trusted) keeps every sequence below next_sequence: it raises    *)
(* next_sequence past a message added at or above it.                     *)
LEMMA MsgSetAddBounded ==
    ASSUME NEW ms \in MsgSets, NEW m \in Msgs, NEW trusted \in BOOLEAN,
           Bounded(ms)
    PROVE  Bounded(MsgSetAdd(ms, m, trusted))
  <1> DEFINE bumped == [ms EXCEPT !.next = AddNext(ms, m)]
             added == [bumped EXCEPT !.msgs[m.seq] = m]
  <1>1. m.seq \in Seqs /\ ms.next \in Nat
    BY DEF Msgs, MsgSets
  <1>2. Keys(bumped) = Keys(ms) /\ bumped.next = AddNext(ms, m)
    BY DEF Keys, MsgSets
  <1>3. Keys(added) \subseteq Keys(ms) \cup {m.seq} /\ added.next = AddNext(ms, m)
    BY <1>1 DEF Keys, MsgSets
  <1>4. \A s \in Keys(ms) : s < AddNext(ms, m)
    <2>1. CASE Keys(ms) = {}
      BY <2>1
    <2>2. CASE Keys(ms) # {}
      BY <2>2, <1>1, MaxSeqAssumption DEF Bounded, AddNext, Keys, Seqs
    <2>3. QED
      BY <2>1, <2>2
  <1>5. \/ m.seq < AddNext(ms, m)
        \/ m.seq < ms.next /\ AddNext(ms, m) = ms.next
    BY <1>1, MaxSeqAssumption DEF AddNext, Seqs
  <1>6. Bounded(bumped)
    BY <1>2, <1>4 DEF Bounded
  <1>7. Bounded(added)
    BY <1>3, <1>4, <1>5 DEF Bounded
  <1>8. QED
    BY <1>6, <1>7 DEF MsgSetAdd

(* When every message is below next_sequence, the while loop of an        *)
(* applied rm at or above next_sequence stops at once: the sequence after *)
(* the removed one holds no message.                                      *)
LEMMA NextGapAbove ==
    ASSUME NEW ms \in MsgSets, NEW s \in Seqs, Bounded(ms), s >= ms.next
    PROVE  /\ NextGap(ms, s + 1) \in Nat
           /\ NextGap(ms, s + 1) > s
  <1>1. ms.next \in Nat /\ s \in Nat
    BY MaxSeqAssumption DEF MsgSets, Seqs
  <1>2. s + 1 \notin Keys(ms)
    BY <1>1 DEF Bounded, Keys
  <1>3. /\ s + 1 \in (s + 1)..(MaxSeq + 1)
        /\ s + 1 \notin Keys(ms)
        /\ \A k \in (s + 1)..(s + 1 - 1) : k \in Keys(ms)
    BY <1>1, <1>2, MaxSeqAssumption DEF Seqs
  <1>4. /\ NextGap(ms, s + 1) \in (s + 1)..(MaxSeq + 1)
    BY <1>3 DEF NextGap
  <1>5. QED
    BY <1>4, <1>1, MaxSeqAssumption

(* An applied rm returns a set of the type that keeps every sequence      *)
(* below next_sequence.                                                   *)
LEMMA MsgSetRmApplied ==
    ASSUME NEW ms \in MsgSets, NEW s \in Seqs, Bounded(ms)
    PROVE  /\ MsgSetRm(ms, s, TRUE) \in MsgSets
           /\ Bounded(MsgSetRm(ms, s, TRUE))
           /\ Keys(MsgSetRm(ms, s, TRUE)) \subseteq Keys(ms)
  <1>1. ms.next \in Nat /\ s \in Nat
    BY MaxSeqAssumption DEF MsgSets, Seqs
  <1>2. CASE ms.msgs[s] = NoMsg /\ s >= ms.next
    <2> DEFINE r == [ms EXCEPT !.next = NextGap(ms, s + 1)]
    <2>1. MsgSetRm(ms, s, TRUE) = r
      BY <1>2 DEF MsgSetRm
    <2>2. NextGap(ms, s + 1) \in Nat /\ NextGap(ms, s + 1) > s
      BY <1>2, NextGapAbove
    <2>3. r \in MsgSets /\ Keys(r) = Keys(ms) /\ r.next = NextGap(ms, s + 1)
      BY <2>2 DEF MsgSets, Keys
    <2>4. Bounded(r)
      BY <2>2, <2>3, <1>1, <1>2, MaxSeqAssumption DEF Bounded, Keys, Seqs
    <2>5. QED
      BY <2>1, <2>3, <2>4
  <1>3. CASE ms.msgs[s] = NoMsg /\ s < ms.next
    BY <1>3, <1>1 DEF MsgSetRm
  <1>4. CASE ms.msgs[s] # NoMsg
    <2> DEFINE r == [ms EXCEPT !.msgs[s] = NoMsg]
    <2>1. s < ms.next
      BY <1>4 DEF Bounded, Keys
    <2>2. MsgSetRm(ms, s, TRUE) = r
      BY <1>4, <2>1, <1>1 DEF MsgSetRm
    <2>3. r \in MsgSets /\ Keys(r) \subseteq Keys(ms) /\ r.next = ms.next
      BY DEF MsgSets, Keys
    <2>4. QED
      BY <2>2, <2>3 DEF Bounded
  <1>5. \/ ms.msgs[s] = NoMsg /\ s >= ms.next
        \/ ms.msgs[s] = NoMsg /\ s < ms.next
        \/ ms.msgs[s] # NoMsg
    BY <1>1
  <1>6. QED
    BY <1>2, <1>3, <1>4, <1>5

(* The smallest premium that replaces one of premium x is a natural.     *)
LEMMA MinPriceNat ==
    ASSUME NEW x \in Nat
    PROVE  MinPrice(x) \in Nat
  <1>1. x * RBF_NUM \in Nat
    BY RBFAssumption
  <1>2. (x * RBF_NUM) \div RBF_DENOM \in Nat
    BY <1>1, RBFAssumption
  <1>3. QED
    BY <1>2 DEF MinPrice

(* add(m, trusted) keeps every message of the set, and a successful add   *)
(* holds m at its sequence.                                               *)
LEMMA MsgSetAddKeys ==
    ASSUME NEW ms \in MsgSets, NEW m \in Msgs, NEW trusted \in BOOLEAN
    PROVE  /\ Keys(ms) \subseteq Keys(MsgSetAdd(ms, m, trusted))
           /\ MsgSetAddError(ms, m, trusted) = "Ok" =>
                  MsgSetAdd(ms, m, trusted).msgs[m.seq] = m
  <1>1. m.seq \in Seqs /\ m # NoMsg
    BY NoMsgAssumption DEF Msgs
  <1>2. QED
    BY <1>1 DEF MsgSetAdd, Keys, MsgSets

(* add(m, trusted) on a set that holds a message never lowers             *)
(* next_sequence: it takes the message's sequence + 1 only at or above it. *)
LEMMA MsgSetAddMonotone ==
    ASSUME NEW ms \in MsgSets, NEW m \in Msgs, NEW trusted \in BOOLEAN,
           Keys(ms) # {}
    PROVE  MsgSetAdd(ms, m, trusted).next >= ms.next
  <1>1. m.seq \in Nat /\ ms.next \in Nat
    BY MaxSeqAssumption DEF Msgs, MsgSets, Seqs
  <1>2. AddNext(ms, m) >= ms.next
    BY <1>1 DEF AddNext
  <1>3. MsgSetAdd(ms, m, trusted).next = AddNext(ms, m)
    BY DEF MsgSetAdd, MsgSets
  <1>4. QED
    BY <1>2, <1>3

(* The one message add(m, trusted) can put in the place of another is m, *)
(* and only when m is not the message there and its premium is above    *)
(* MinPrice of the one it replaces.                                       *)
LEMMA MsgSetAddReplaces ==
    ASSUME NEW ms \in MsgSets, NEW m \in Msgs, NEW trusted \in BOOLEAN,
           NEW s \in Keys(ms),
           MsgSetAdd(ms, m, trusted).msgs[s] # ms.msgs[s]
    PROVE  MsgSetAdd(ms, m, trusted).msgs[s].premium > MinPrice(ms.msgs[s].premium)
  <1> DEFINE exms == ms.msgs[m.seq]
  <1>1. m.seq \in Seqs /\ s \in Seqs
    BY DEF Msgs, Keys
  <1>2. MsgSetAddError(ms, m, trusted) = "Ok" /\ s = m.seq
    BY <1>1 DEF MsgSetAdd, MsgSets
  <1>3. MsgSetAdd(ms, m, trusted).msgs[s] = m
    BY <1>1, <1>2 DEF MsgSetAdd, MsgSets
  <1>4. exms # NoMsg /\ exms # m
    BY <1>2, <1>3 DEF Keys
  <1>5. ~(m.premium <= MinPrice(exms.premium))
    BY <1>2, <1>4 DEF MsgSetAddError
  <1>6. exms \in Msgs
    BY <1>1, <1>4 DEF MsgSets
  <1>7. m.premium \in Nat /\ exms.premium \in Nat
    BY <1>6, PremiumsAssumption DEF Msgs
  <1>9. MinPrice(exms.premium) \in Nat
    BY <1>7, MinPriceNat
  <1>8. QED
    BY <1>2, <1>3, <1>5, <1>7, <1>9

(* An applied rm never lowers next_sequence of a Bounded set.              *)
LEMMA MsgSetRmMonotone ==
    ASSUME NEW ms \in MsgSets, NEW s \in Seqs, Bounded(ms)
    PROVE  MsgSetRm(ms, s, TRUE).next >= ms.next
  <1>1. ms.next \in Nat /\ s \in Nat
    BY MaxSeqAssumption DEF MsgSets, Seqs
  <1>2. CASE ms.msgs[s] = NoMsg /\ s >= ms.next
    <2>1. NextGap(ms, s + 1) \in Nat /\ NextGap(ms, s + 1) > s
      BY <1>2, NextGapAbove
    <2>2. MsgSetRm(ms, s, TRUE).next = NextGap(ms, s + 1)
      BY <1>2 DEF MsgSetRm, MsgSets
    <2>3. NextGap(ms, s + 1) >= ms.next
      BY <1>1, <1>2, <2>1
    <2>4. QED
      BY <2>2, <2>3
  <1>3. CASE ms.msgs[s] = NoMsg /\ s < ms.next
    BY <1>3, <1>1 DEF MsgSetRm
  <1>4. CASE ms.msgs[s] # NoMsg
    <2>1. s < ms.next
      BY <1>4 DEF Bounded, Keys
    <2>2. MsgSetRm(ms, s, TRUE).next = [ms EXCEPT !.msgs[s] = NoMsg].next
      BY <1>4, <2>1, <1>1 DEF MsgSetRm
    <2>3. [ms EXCEPT !.msgs[s] = NoMsg].next = ms.next
      BY DEF MsgSets
    <2>4. ms.next >= ms.next
      BY <1>1
    <2>5. QED
      BY <2>2, <2>3, <2>4
  <1>5. \/ ms.msgs[s] = NoMsg /\ s >= ms.next
        \/ ms.msgs[s] = NoMsg /\ s < ms.next
        \/ ms.msgs[s] # NoMsg
    BY <1>1
  <1>6. QED
    BY <1>2, <1>3, <1>4, <1>5

(* rm only takes messages out: every message left is the one that was     *)
(* there.                                                                  *)
LEMMA MsgSetRmKeepsMsgs ==
    ASSUME NEW ms \in MsgSets, NEW s \in Seqs, NEW applied \in BOOLEAN,
           NEW k \in Keys(MsgSetRm(ms, s, applied))
    PROVE  MsgSetRm(ms, s, applied).msgs[k] = ms.msgs[k]
  BY DEF MsgSetRm, Keys, MsgSets

(* rm(sequence) takes out no other message: every other key stays.        *)
LEMMA MsgSetRmKeys ==
    ASSUME NEW ms \in MsgSets, NEW s \in Seqs, NEW applied \in BOOLEAN
    PROVE  Keys(ms) \ {s} \subseteq Keys(MsgSetRm(ms, s, applied))
  BY DEF MsgSetRm, Keys, MsgSets

=============================================================================
