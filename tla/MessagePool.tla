----------------------------- MODULE MessagePool -----------------------------
(***************************************************************************)
(* The message pool of src/src/message_pool/msgpool/msg_pool.rs and the    *)
(* two actors that change its pending map concurrently:                    *)
(*   - RPC and gossip callers of push (local) and add (remote), each a     *)
(*     client that checks the message against the state at cur_tipset and *)
(*     later, in add_helper, takes the pending write lock and inserts it;  *)
(*   - the head-change reactor spawned by MessagePool::new, which receives *)
(*     Apply events from a bounded broadcast channel (which may lag and   *)
(*     drop the oldest events), removes each applied message with one     *)
(*     call of remove (one write lock each), and then sets cur_tipset.    *)
(* The chain the provider serves is a sequence of tipsets, each the       *)
(* sequence every account has after it: get_actor_after(a, ts).sequence  *)
(* is chain[ts][a], and tipset e applies the sequences                    *)
(* chain[e-1][a] .. chain[e][a]-1 of sender a.                            *)
(***************************************************************************)
EXTENDS MsgSet, Sequences

CONSTANTS
    Clients,          \* concurrent callers of push / add
    MaxEpoch,         \* bound on the length of the chain
    EventCap,         \* capacity of the head-change broadcast channel
    ProviderMayFail,  \* whether messages_for_block may fail in head_change
    NoSet             \* no MsgSet for a sender in pending

ASSUME ClientsAssumption == Clients # {}
ASSUME MaxEpochAssumption == MaxEpoch \in Nat \ {0}
ASSUME EventCapAssumption == EventCap \in Nat \ {0}
ASSUME ProviderMayFailAssumption == ProviderMayFail \in BOOLEAN
ASSUME NoSetAssumption == NoSet \notin MsgSets

VARIABLES
    pending,      \* MessagePool.pending: sender -> MsgSet or NoSet
    chain,        \* the tipsets the provider knows, oldest first
    curTs,        \* MessagePool.cur_tipset, an index into chain
    events,       \* Apply events in the broadcast channel, oldest first
    lagged,       \* the receiver has missed events dropped from the channel
    reactor,      \* the head-change task
    client,       \* the callers of push / add
    localAddrs,   \* MessagePool.local_addrs (as a set)
    localMsgs     \* MessagePool.local_msgs

vars == <<pending, chain, curTs, events, lagged, reactor, client,
          localAddrs, localMsgs>>

Tipsets == [Addrs -> 0..(MaxSeq + 1)]

(* get_state_sequence(a, ts): the sequence of a's actor after ts.         *)
StateSequence(ts, a) == chain[ts][a]

(* Mutation of AppliedIn: the range taken up to the sequence after the   *)
(* tipset as well.                                                        *)
AppliedInInclusive(e) ==
    {p \in Addrs \X Seqs : chain[e - 1][p[1]] <= p[2] /\ p[2] <= chain[e][p[1]]}

(* The (sender, sequence) pairs of the messages tipset e applies.         *)
AppliedIn(e) ==
    {p \in Addrs \X Seqs : chain[e - 1][p[1]] <= p[2] /\ p[2] < chain[e][p[1]]}

(* Mutation of Remove: the sender's set is kept in the map after rm has  *)
(* emptied it.                                                             *)
RemoveKeepsEmpty(p, from, sequence, applied) ==
    IF p[from] = NoSet THEN p
    ELSE [p EXCEPT ![from] = MsgSetRm(p[from], sequence, applied)]

(* remove(from, pending, sequence, applied): rm on the sender's set, then *)
(* drop the set from the map when it has become empty.                    *)
Remove(p, from, sequence, applied) ==
    IF p[from] = NoSet THEN p
    ELSE LET ms == MsgSetRm(p[from], sequence, applied) IN
         [p EXCEPT ![from] = IF Keys(ms) = {} THEN NoSet ELSE ms]

(* The pending map after add_helper(msg): add_trusted into the existing   *)
(* set, or into a new one that is inserted only when add succeeds.  The   *)
(* sequence add_helper passes to MsgSet::new is overwritten by add, which *)
(* sets next_sequence from the message when the set is empty.             *)
AddHelperSet(p, m) ==
    IF p[m.from] = NoSet THEN NewMsgSet(0) ELSE p[m.from]

AddHelperOk(p, m) == MsgSetAddError(AddHelperSet(p, m), m, TRUE) = "Ok"

AddHelper(p, m) ==
    IF p[m.from] = NoSet /\ ~AddHelperOk(p, m) THEN p
    ELSE [p EXCEPT ![m.from] = MsgSetAdd(AddHelperSet(p, m), m, TRUE)]

Idle == [pc |-> "idle", msg |-> NoMsg, local |-> FALSE]

(* A caller is idle, or between its checks and add_helper with a message. *)
ClientStates == {Idle} \cup [pc : {"adding"}, msg : Msgs, local : BOOLEAN]

TypeOK ==
    /\ pending \in [Addrs -> MsgSets \cup {NoSet}]
    /\ chain \in Seq(Tipsets) /\ 1 <= Len(chain) /\ Len(chain) <= MaxEpoch
    /\ curTs \in 1..Len(chain)
    /\ events \in Seq(2..Len(chain))
    /\ lagged \in BOOLEAN
    /\ reactor \in [pc : {"recv", "apply", "dead"}, ts : 1..Len(chain),
                    todo : SUBSET (Addrs \X Seqs)]
    /\ client \in [Clients -> ClientStates]
    /\ localAddrs \subseteq Addrs
    /\ localMsgs \subseteq Msgs

(* MessagePool::new: an empty pool at the heaviest tipset; load_local has *)
(* nothing to load since local_msgs starts empty.                         *)
Init ==
    /\ pending = [a \in Addrs |-> NoSet]
    /\ chain = <<[a \in Addrs |-> 0]>>
    /\ curTs = 1
    /\ events = <<>>
    /\ lagged = FALSE
    /\ reactor = [pc |-> "recv", ts |-> 1, todo |-> {}]
    /\ client = [c \in Clients |-> Idle]
    /\ localAddrs = {}
    /\ localMsgs = {}

-----------------------------------------------------------------------------
(* The environment: the chain store gets a new head and broadcasts        *)
(* Apply(head).  A full channel drops its oldest event and the receiver   *)
(* lags.  The event source emits only Apply (spec 4.G): a reorg or fork    *)
(* switch, which would carry reverted tipsets, is not modelled, so the     *)
(* chain only grows.                                                      *)
NewHead(t) ==
    /\ Len(chain) < MaxEpoch
    /\ \A a \in Addrs : t[a] >= chain[Len(chain)][a]
    /\ t # chain[Len(chain)]
    /\ chain' = Append(chain, t)
    /\ IF Len(events) = EventCap
       THEN /\ events' = Append(Tail(events), Len(chain) + 1)
            /\ lagged' = TRUE
       ELSE /\ events' = Append(events, Len(chain) + 1)
            /\ UNCHANGED lagged
    /\ UNCHANGED <<pending, curTs, reactor, client, localAddrs, localMsgs>>

-----------------------------------------------------------------------------
(* The head-change task.                                                  *)

(* Mutation of ReactorLagged: the loop breaks on Lagged as it does on     *)
(* Closed.                                                                 *)
ReactorLaggedExits ==
    /\ reactor.pc = "recv"
    /\ lagged
    /\ lagged' = FALSE
    /\ reactor' = [reactor EXCEPT !.pc = "dead"]
    /\ UNCHANGED <<pending, chain, curTs, events, client,
                   localAddrs, localMsgs>>

(* recv returns Err(Lagged): warn and go on with the oldest kept event.   *)
ReactorLagged ==
    /\ reactor.pc = "recv"
    /\ lagged
    /\ lagged' = FALSE
    /\ UNCHANGED <<pending, chain, curTs, events, reactor, client,
                   localAddrs, localMsgs>>

(* Mutation of ReactorRecv: the tipset after the received one applied.   *)
ReactorRecvOffByOne ==
    /\ reactor.pc = "recv"
    /\ ~lagged
    /\ events # <<>>
    /\ reactor' = [pc |-> "apply", ts |-> Head(events) + 1,
                   todo |-> AppliedIn(Head(events))]
    /\ events' = Tail(events)
    /\ UNCHANGED <<pending, chain, curTs, lagged, client, localAddrs, localMsgs>>

(* recv returns Ok(Apply(ts)): head_change starts on rev = [], app = [ts] *)
(* and fetches the messages of the tipset's blocks.                        *)
ReactorRecv ==
    /\ reactor.pc = "recv"
    /\ ~lagged
    /\ events # <<>>
    /\ reactor' = [pc |-> "apply", ts |-> Head(events),
                   todo |-> AppliedIn(Head(events))]
    /\ events' = Tail(events)
    /\ UNCHANGED <<pending, chain, curTs, lagged, client, localAddrs, localMsgs>>

(* One remove(from, pending, sequence, true) of head_change; a sender's   *)
(* messages come in sequence order, senders in any order.                 *)
ReactorRemove(a, s) ==
    /\ reactor.pc = "apply"
    /\ <<a, s>> \in reactor.todo
    /\ \A p \in reactor.todo : p[1] = a => s <= p[2]
    /\ pending' = Remove(pending, a, s, TRUE)
    /\ reactor' = [reactor EXCEPT !.todo = @ \ {<<a, s>>}]
    /\ UNCHANGED <<chain, curTs, events, lagged, client, localAddrs, localMsgs>>

(* Mutation of ReactorDone: cur_tipset set one past the applied tipset.   *)
ReactorDoneOffByOne ==
    /\ reactor.pc = "apply"
    /\ reactor.todo = {}
    /\ curTs' = reactor.ts + 1
    /\ reactor' = [reactor EXCEPT !.pc = "recv"]
    /\ UNCHANGED <<pending, chain, events, lagged, client, localAddrs, localMsgs>>

(* head_change ends by setting cur_tipset to the applied tipset.          *)
ReactorDone ==
    /\ reactor.pc = "apply"
    /\ reactor.todo = {}
    /\ curTs' = reactor.ts
    /\ reactor' = [reactor EXCEPT !.pc = "recv"]
    /\ UNCHANGED <<pending, chain, events, lagged, client, localAddrs, localMsgs>>

(* A provider call in head_change fails: the ? after .context ends the    *)
(* task with the removes made so far and cur_tipset not updated.          *)
ReactorFail ==
    /\ ProviderMayFail
    /\ reactor.pc = "apply"
    /\ reactor' = [reactor EXCEPT !.pc = "dead"]
    /\ UNCHANGED <<pending, chain, curTs, events, lagged, client,
                   localAddrs, localMsgs>>

-----------------------------------------------------------------------------
(* The callers.                                                           *)

(* push (local) or add (remote) up to the pending write lock:             *)
(* check_message, cur_tipset cloned, and add_tipset's checks against the  *)
(* state at it; SequenceTooLow is the one that depends on pool state.     *)
(* A failing check returns an error and changes nothing.                  *)
AdmitBegin(c, m, local) ==
    /\ client[c].pc = "idle"
    /\ StateSequence(curTs, m.from) <= m.seq
    /\ client' = [client EXCEPT ![c] = [pc |-> "adding", msg |-> m, local |-> local]]
    /\ UNCHANGED <<pending, chain, curTs, events, lagged, reactor,
                   localAddrs, localMsgs>>

(* add_tipset fails with SequenceTooLow: the call returns an error and   *)
(* changes nothing.                                                        *)
AdmitRejected(c, m) ==
    /\ client[c].pc = "idle"
    /\ StateSequence(curTs, m.from) > m.seq
    /\ UNCHANGED vars

(* add_helper under the pending write lock, then, for push, add_local     *)
(* when add_tipset succeeded.                                             *)
AdmitInsert(c) ==
    LET m == client[c].msg
        ok == AddHelperOk(pending, m)
    IN
    /\ client[c].pc = "adding"
    /\ pending' = AddHelper(pending, m)
    /\ IF ok /\ client[c].local
       THEN /\ localAddrs' = localAddrs \cup {m.from}
            /\ localMsgs' = localMsgs \cup {m}
       ELSE UNCHANGED <<localAddrs, localMsgs>>
    /\ client' = [client EXCEPT ![c] = Idle]
    /\ UNCHANGED <<chain, curTs, events, lagged, reactor>>

-----------------------------------------------------------------------------
(* remove(from, pending, sequence, false): a message pruned.  No caller   *)
(* in this repository's sources passes applied = false; the pool's        *)
(* pruning callers do.                                                    *)
Prune(a, s) ==
    /\ pending[a] # NoSet
    /\ s \in Keys(pending[a])
    /\ pending' = Remove(pending, a, s, FALSE)
    /\ UNCHANGED <<chain, curTs, events, lagged, reactor, client,
                   localAddrs, localMsgs>>

ReactorStep ==
    \/ ReactorLagged
    \/ ReactorRecv
    \/ \E a \in Addrs, s \in Seqs : ReactorRemove(a, s)
    \/ ReactorDone

(* The steps this repository's code takes with a chain provider that     *)
(* answers every call.                                                    *)
ReliableNext ==
    \/ \E t \in Tipsets : NewHead(t)
    \/ ReactorStep
    \/ \E c \in Clients, m \in Msgs, local \in BOOLEAN : AdmitBegin(c, m, local)
    \/ \E c \in Clients, m \in Msgs : AdmitRejected(c, m)
    \/ \E c \in Clients : AdmitInsert(c)

(* The steps this repository's code takes.                                *)
CodeNext ==
    \/ ReliableNext
    \/ ReactorFail

(* With the pruning callers too.                                          *)
Next ==
    \/ CodeNext
    \/ \E a \in Addrs, s \in Seqs : Prune(a, s)

Spec == Init /\ [][CodeNext]_vars
PruneSpec == Init /\ [][Next]_vars

(* The tokio scheduler runs the head-change task whenever it can step.    *)
LiveSpec == Spec /\ WF_vars(ReactorStep)

(* The same with a provider that never fails: the setting in which the   *)
(* head-change task is meant to keep cur_tipset at the head.              *)
ReliableLiveSpec == Init /\ [][ReliableNext]_vars /\ WF_vars(ReactorStep)

-----------------------------------------------------------------------------
(* Properties.                                                            *)

(* Every message of a sender's set has a sequence below the set's         *)
(* next_sequence (spec, data model of MsgSet; invariant 1), through every *)
(* interleaving of admissions and head-change removes.                    *)
NextSeqBound ==
    \A a \in Addrs : pending[a] # NoSet => Bounded(pending[a])

(* A sender's next_sequence never goes back while its set stays in the    *)
(* pool: neither add nor an applied rm rewinds it.                        *)
NextSeqMonotone ==
    [][\A a \in Addrs :
         (pending[a] # NoSet /\ pending'[a] # NoSet)
            => pending'[a].next >= pending[a].next]_vars

(* A message that takes the place of another at the same sender and       *)
(* sequence pays more than MinPrice of the one it replaces (spec,         *)
(* invariant 4: replace-by-fee).                                          *)
ReplaceByFee ==
    [][\A a \in Addrs, s \in Seqs :
         (/\ pending[a] # NoSet /\ pending'[a] # NoSet
          /\ s \in Keys(pending[a]) /\ s \in Keys(pending'[a])
          /\ pending'[a].msgs[s] # pending[a].msgs[s])
            => pending'[a].msgs[s].premium > MinPrice(pending[a].msgs[s].premium)]_vars

(* No message is lost: a message leaves the pending map (its sequence is  *)
(* no longer a key of its sender's set) only once the chain's head has    *)
(* applied that sender's sequence, since head_change removes only the     *)
(* messages of the blocks it applies and add never drops another key.     *)
NoMessageLost ==
    [][\A a \in Addrs, s \in Seqs :
         (/\ pending[a] # NoSet /\ s \in Keys(pending[a])
          /\ ~(pending'[a] # NoSet /\ s \in Keys(pending'[a])))
            => s < StateSequence(Len(chain), a)]_vars

(* The pool's cur_tipset eventually reaches the chain's head and stays    *)
(* there, although the channel may drop events.                           *)
HeadTracked == <>[](curTs = Len(chain))

(* A sender whose messages all came through MessagePool::add (a remote,   *)
(* untrusted source; it is not in local_addrs) has at most                *)
(* MAX_UNTRUSTED_ACTOR_PENDING_MESSAGES of them pending (spec 4.E step 1, *)
(* 8.11).                                                                 *)
UntrustedCap ==
    \A a \in Addrs \ localAddrs : pending[a] # NoSet =>
        Cardinality(Keys(pending[a])) <= MaxUntrustedActorPending

AppliedRemoved ==
    reactor.pc = "recv" =>
        \A a \in Addrs : pending[a] # NoSet =>
            \A s \in Keys(pending[a]) : s >= StateSequence(curTs, a)
=============================================================================
