------------------------------- MODULE MsgSet -------------------------------
(***************************************************************************)
(* The per-sender message set of the message pool (struct MsgSet of        *)
(* src/src/message_pool/msgpool/msg_pool.rs): a map from sequence (nonce)  *)
(* to the pending signed message, and the sender's next_sequence.          *)
(*                                                                         *)
(* A MsgSet is a value here, not a state machine: MessagePool keeps one    *)
(* per sender and changes it with MsgSetAdd and MsgSetRm, which model the  *)
(* methods add and rm, &mut self included.  A method that returns an error *)
(* after it has mutated self (add bumps next_sequence before its checks)   *)
(* leaves the mutated value: MsgSetAdd returns the value after the call    *)
(* and MsgSetAddError the Result.                                          *)
(***************************************************************************)
EXTENDS Naturals, FiniteSets

CONSTANTS
    Addrs,                      \* sender addresses
    MaxSeq,                     \* largest sequence a message carries
    Premiums,                   \* gas premiums a message may offer
    RBF_NUM, RBF_DENOM,         \* replace-by-fee ratio
    MaxActorPending,            \* api.max_actor_pending_messages()
    MaxUntrustedActorPending,   \* api.max_untrusted_actor_pending_messages()
    NoMsg                       \* no message at a sequence

ASSUME AddrsAssumption == Addrs # {}
ASSUME MaxSeqAssumption == MaxSeq \in Nat
ASSUME PremiumsAssumption == Premiums \subseteq Nat
ASSUME RBFAssumption == RBF_NUM \in Nat /\ RBF_DENOM \in Nat \ {0}
ASSUME CeilingAssumption ==
    MaxActorPending \in Nat /\ MaxUntrustedActorPending \in Nat

Seqs == 0..MaxSeq

(* A signed message, abstracted to what the pool looks at: the sender,    *)
(* the sequence and the gas premium.  The record is its own CID: two      *)
(* messages with the same fields are the same message.                    *)
Msgs == [from : Addrs, seq : Seqs, premium : Premiums]

ASSUME NoMsgAssumption == NoMsg \notin Msgs

MsgSets == [msgs : [Seqs -> Msgs \cup {NoMsg}], next : Nat]

(* The sequences that hold a message (the keys of the HashMap).           *)
Keys(ms) == {s \in Seqs : ms.msgs[s] # NoMsg}

(* Every message of the set has a sequence below next_sequence.          *)
Bounded(ms) == \A s \in Keys(ms) : s < ms.next

(* MsgSet::new(sequence).                                                  *)
NewMsgSet(sequence) == [msgs |-> [s \in Seqs |-> NoMsg], next |-> sequence]

(* The admission ceiling add resolves from trusted.                       *)
Ceiling(trusted) ==
    IF trusted THEN MaxActorPending ELSE MaxUntrustedActorPending

(* premium + floor(premium * RBF_NUM / RBF_DENOM) + 1.                    *)
MinPrice(premium) == premium + (premium * RBF_NUM) \div RBF_DENOM + 1

(* Mutation of AddNext: only an empty set takes next from the message.   *)
AddNextNoBump(ms, m) ==
    IF Keys(ms) = {} THEN m.seq + 1 ELSE ms.next

(* next_sequence after the first statement of add.                        *)
AddNext(ms, m) ==
    IF Keys(ms) = {} \/ m.seq >= ms.next THEN m.seq + 1 ELSE ms.next

(* Mutation of MsgSetAddError: < for <= in the replace-by-fee test.       *)
MsgSetAddErrorStrict(ms, m, trusted) ==
    LET exms == ms.msgs[m.seq] IN
    CASE exms # NoMsg /\ exms = m                      -> "DuplicateSequence"
      [] exms # NoMsg /\ m.premium < MinPrice(exms.premium) -> "GasPriceTooLow"
      [] Cardinality(Keys(ms)) >= Ceiling(trusted)     -> "TooManyPendingMessages"
      [] OTHER                                         -> "Ok"

(* The Result of add: the checks in the order the code makes them.        *)
MsgSetAddError(ms, m, trusted) ==
    LET exms == ms.msgs[m.seq] IN
    CASE exms # NoMsg /\ exms = m                      -> "DuplicateSequence"
      [] exms # NoMsg /\ m.premium <= MinPrice(exms.premium) -> "GasPriceTooLow"
      [] Cardinality(Keys(ms)) >= Ceiling(trusted)     -> "TooManyPendingMessages"
      [] OTHER                                         -> "Ok"

(* The MsgSet after add(m, trusted), whatever its Result.                 *)
MsgSetAdd(ms, m, trusted) ==
    LET bumped == [ms EXCEPT !.next = AddNext(ms, m)] IN
    IF MsgSetAddError(ms, m, trusted) = "Ok"
    THEN [bumped EXCEPT !.msgs[m.seq] = m]
    ELSE bumped

(* The value of next_sequence when the while loop of rm stops: the first  *)
(* sequence from n on that holds no message.                              *)
NextGap(ms, n) ==
    CHOOSE g \in n..(MaxSeq + 1) :
        /\ g \notin Keys(ms)
        /\ \A k \in n..(g - 1) : k \in Keys(ms)

(* Mutation of MsgSetRm: an applied remove sets next_sequence past the   *)
(* removed message without comparing.                                      *)
MsgSetRmAlwaysBump(ms, sequence, applied) ==
    IF ms.msgs[sequence] = NoMsg
    THEN IF applied /\ sequence >= ms.next
         THEN [ms EXCEPT !.next = NextGap(ms, sequence + 1)]
         ELSE ms
    ELSE LET removed == [ms EXCEPT !.msgs[sequence] = NoMsg] IN
         IF applied
         THEN [removed EXCEPT !.next = sequence + 1]
         ELSE IF sequence < ms.next
              THEN [removed EXCEPT !.next = sequence]
              ELSE removed

(* The MsgSet after rm(sequence, applied).                                *)
MsgSetRm(ms, sequence, applied) ==
    IF ms.msgs[sequence] = NoMsg
    THEN IF applied /\ sequence >= ms.next
         THEN [ms EXCEPT !.next = NextGap(ms, sequence + 1)]
         ELSE ms
    ELSE LET removed == [ms EXCEPT !.msgs[sequence] = NoMsg] IN
         IF applied
         THEN IF sequence >= ms.next
              THEN [removed EXCEPT !.next = sequence + 1]
              ELSE removed
         ELSE IF sequence < ms.next
              THEN [removed EXCEPT !.next = sequence]
              ELSE removed
=============================================================================
