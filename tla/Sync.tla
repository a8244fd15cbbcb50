-------------------------------- MODULE Sync --------------------------------
(***************************************************************************)
(* internal/peer/sync.go: the two ends of a connection compare their heads *)
(* and one sends the other what its chain lacks.  An end's step is one     *)
(* read with the writes that follow it; the streams are FIFO.  Behind each *)
(* end its node's chain routine (the module Chain) stores what it is       *)
(* handed, entity by entity, while the ends read the same inventory.       *)
(***************************************************************************)
EXTENDS Entities

CONSTANTS
    Initiator, Acceptor,    \* the two ends, by who opened the connection
    Starts,         \* the inventories and heads that the two nodes may start with
    OtherEvents     \* candidate heads that a node gets from other peers and miners

Peer == {Initiator, Acceptor}
Other(p) == IF p = Initiator THEN Acceptor ELSE Initiator

VARIABLES
    known,      \* ids in each node's inventory
    head,       \* Chain.state.head of each node
    handed,     \* CandidateHead events that each node's chain has not finished
    others,     \* events of OtherEvents still to come
    validated,  \* ValidatedHead events that each end has not taken
    curHead,    \* Peer.curHead
    cmd,        \* where the end is with its own sync-chain command, see Commands
    pc,         \* where the end is in the handler
    loc,        \* the handler's local variables
    inbox       \* what each end has still to read

nodeVars == <<known, head, handed, others>>
endVars == <<validated, curHead, cmd, pc, loc, inbox>>
vars == <<nodeVars, endVars>>

Entity == Tx \cup Merkle \cup Block

\* What must be stored before an entity.
Refs(id) ==
    CASE id \in Tx -> {TxOf[id].inputs[i].utxo.txId : i \in DOMAIN TxOf[id].inputs}
      [] id \in Merkle -> {MerkleOf[id].l, MerkleOf[id].r}
      [] id \in Block \ {Zero} -> {BlockOf[id].prev, BlockOf[id].merkleRoot}
      [] OTHER -> {}

Closed(S) == \A id \in S : Refs(id) \subseteq S

Event ==
    [head : Block, blocks : Seq(Block \ {Zero}), merkles : Seq(Merkle), txs : Seq(Tx)]

\* Ids are hashes: no two entities share one, and no block is its own ancestor.  What an
\* inventory holds was verified.
ASSUME SyncAssumption ==
    /\ Initiator # Acceptor
    /\ Block \cap (Tx \cup Merkle) = {}
    /\ \A b \in Block \ {Zero} : b \notin Ancestors[BlockOf[b].prev]
    /\ \A s \in Starts :
          /\ s \in [Peer -> [known : SUBSET Entity, head : Block]]
          /\ \A p \in Peer :
                /\ Closed(s[p].known) /\ {Zero, s[p].head} \subseteq s[p].known
                /\ \A b \in (Block \ {Zero}) \cap s[p].known : BlockOf[b].headerOk
    /\ OtherEvents \in [Peer -> SUBSET Event]

\* HashT.WorkAppendTarget over a set of blocks.
WorkSum(S) == SumFunction([b \in S |-> BlockOf[b].work])

\* Inv.GetBlockTotalWork: the work of the whole chain that ends with b.
WorkOf == [b \in Block |-> WorkSum(Ancestors[b] \ {Zero})]

Locals ==
    [theirWork : Nat, lcaId : Block,
     needed : Seq(Block \ {Zero}),  \* neededBlockIds, newest first
     got : Nat,                     \* how many of them were received
     idQueue : Seq(Tx \cup Merkle), newMerkles : Seq(Merkle), newTxs : Seq(Tx),
     asked : Tx \cup Merkle \cup {Zero}]

NoLocals ==
    [theirWork |-> 0, lcaId |-> Zero, needed |-> <<>>, got |-> 0, idQueue |-> <<>>,
     newMerkles |-> <<>>, newTxs |-> <<>>, asked |-> Zero]

-----------------------------------------------------------------------------
(* Messages *)

Hello(p) == [kind |-> "hello", work |-> WorkOf[curHead[p]], head |-> curHead[p]]
Answer(a) == [kind |-> "answer", answer |-> a]      \* "continue", "cancel"
Role(r) == [kind |-> "role", role |-> r]            \* "sync:send", "sync:recv"
Bool(b) == [kind |-> "bool", ok |-> b]
Id(id) == [kind |-> "id", id |-> id]
BlockMsg(b) == [kind |-> "block", id |-> b]
EntityMsg(id) == [kind |-> "entity", id |-> id]     \* isTx, then the tx or merkle
Complete == [kind |-> "complete"]

\* What an end waits for at each read of the handler.
Expects ==
    [hello |-> "hello", cancelled |-> "answer", offered |-> "answer",
     sendRole |-> "role", sendWalk |-> "bool", verdict |-> "bool", serve |-> "id",
     complete |-> "complete",
     recvRole |-> "role", recvWalk |-> "id", recvBlocks |-> "block",
     recvEntity |-> "entity"]

\* A read succeeds: the next frames are of the kind, and for blocks and entities the
\* hash, that is expected.
Fits(p, m) ==
    /\ m.kind = Expects[pc[p]]
    /\ pc[p] = "recvBlocks" => m.id = loc[p].needed[loc[p].got + 1]
    /\ pc[p] = "recvEntity" => m.id = loc[p].asked
    /\ pc[p] = "sendRole" => m.role = "recv"
    /\ pc[p] = "recvRole" => m.role = "send"

Consume(p, replies) ==
    inbox' = [inbox EXCEPT ![p] = Tail(@), ![Other(p)] = @ \o replies]
Write(p, msgs) == inbox' = [inbox EXCEPT ![Other(p)] = @ \o msgs]

GoTo(p, place, locals) ==
    pc' = [pc EXCEPT ![p] = place] /\ loc' = [loc EXCEPT ![p] = locals]
Continue(p, place, locals) == GoTo(p, place, locals) /\ UNCHANGED cmd
Stay(p, locals) == Continue(p, pc[p], locals)

\* The handler returns; with an error, issueCommand also drops the command that
\* was to be served second.
Return(p) == GoTo(p, "idle", NoLocals) /\ UNCHANGED cmd
Fail(p) == GoTo(p, "idle", NoLocals) /\ cmd' = [cmd EXCEPT ![p] = "none"]

-----------------------------------------------------------------------------
Init ==
    \E s \in Starts :
        /\ known = [p \in Peer |-> s[p].known]
        /\ head = [p \in Peer |-> s[p].head]
        /\ handed = [p \in Peer |-> <<>>]
        /\ others = OtherEvents
        /\ validated = [p \in Peer |-> <<>>]
        /\ curHead = head
        /\ cmd = [p \in Peer |-> IF p = Initiator THEN "issued" ELSE "none"]
        /\ pc = [p \in Peer |-> "idle"]
        /\ loc = [p \in Peer |-> NoLocals]
        /\ inbox = [p \in Peer |-> <<>>]

\* A command is issued and not read by the other end; it was met by the acceptor's
\* own, and is owed by the acceptor until its own is served.
Commands == {"none", "issued", "met", "owed"}

\* Loop takes a ValidatedHead event and issues the command.
TakeHead(p) ==
    /\ pc[p] = "idle" /\ cmd[p] = "none" /\ validated[p] # <<>>
    /\ curHead' = [curHead EXCEPT ![p] = Head(validated[p])]
    /\ validated' = [validated EXCEPT ![p] = Tail(@)]
    /\ cmd' = [cmd EXCEPT ![p] = "issued"]
    /\ UNCHANGED <<nodeVars, pc, loc, inbox>>

\* The command is acknowledged; both ends enter handleSyncChain, which writes their
\* work and head.
EnterHandler ==
    /\ \A q \in Peer : pc[q] = "idle"
    /\ pc' = [q \in Peer |-> "hello"]
    /\ inbox' = [q \in Peer |-> Append(inbox[q], Hello(Other(q)))]
    /\ UNCHANGED <<nodeVars, validated, curHead, loc>>

Serve(p) ==
    /\ cmd[p] = "issued" /\ cmd[Other(p)] = "none"
    /\ cmd' = [cmd EXCEPT ![p] = "none"]
    /\ EnterHandler

\* Of two simultaneous commands the acceptor's is served first.
ServeAcceptorFirst ==
    /\ \A q \in Peer : cmd[q] = "issued"
    /\ cmd' = [q \in Peer |-> IF q = Initiator THEN "met" ELSE "owed"]
    /\ EnterHandler

ServeInitiatorSecond ==
    /\ cmd[Initiator] = "met" /\ cmd[Acceptor] = "owed"
    /\ cmd' = [q \in Peer |-> "none"]
    /\ EnterHandler

-----------------------------------------------------------------------------
(* handleSyncChain *)

Cancels(p, m) ==
    LET ourWork == WorkOf[curHead[p]] IN
    m.work = ourWork \/ (ourWork < m.work /\ m.head \in known[p])

\* Mutant: the peer's answer to a cancelled sync is left in the stream.
ReadHello_LeavesAnswer(p, m) ==
    IF Cancels(p, m)
    THEN Consume(p, <<Answer("cancel")>>) /\ Return(p)
    ELSE /\ Consume(p, <<Answer("continue")>>)
         /\ Continue(p, "offered", [loc[p] EXCEPT !.theirWork = m.work])

ReadHello(p, m) ==
    IF Cancels(p, m)
    THEN Consume(p, <<Answer("cancel")>>) /\ Continue(p, "cancelled", loc[p])
    ELSE /\ Consume(p, <<Answer("continue")>>)
         /\ Continue(p, "offered", [loc[p] EXCEPT !.theirWork = m.work])

ReadAnswerCancelled(p, m) == Consume(p, <<>>) /\ Return(p)

ReadAnswer(p, m) ==
    IF m.answer = "cancel" THEN Consume(p, <<>>) /\ Return(p)
    ELSE IF loc[p].theirWork < WorkOf[curHead[p]]
    THEN Consume(p, <<Role("send")>>) /\ Continue(p, "sendRole", loc[p])
    ELSE Consume(p, <<Role("recv")>>) /\ Continue(p, "recvRole", loc[p])

-----------------------------------------------------------------------------
(* handleOutboundSyncChain *)

ReadRoleToSend(p, m) ==
    /\ Consume(p, <<Id(curHead[p])>>)
    /\ Continue(p, "sendWalk", [loc[p] EXCEPT !.lcaId = curHead[p]])

\* Mutant: the walk moves to the parent before it notes the block.
ReadWalkReply_ParentFirst(p, m) ==
    LET parent == BlockOf[loc[p].lcaId].prev IN
    IF ~m.ok
    THEN /\ Consume(p, <<Id(parent)>>)
         /\ Stay(p, [loc[p] EXCEPT !.lcaId = parent, !.needed = Append(@, parent)])
    ELSE IF loc[p].needed = <<>> THEN Consume(p, <<>>) /\ Fail(p)
    ELSE /\ Consume(p, [i \in DOMAIN loc[p].needed |-> BlockMsg(loc[p].needed[i])])
         /\ Continue(p, "verdict", loc[p])

\* A false asks for the parent; a true ends the walk and all needed blocks are sent,
\* none being an error.
ReadWalkReply(p, m) ==
    LET at == loc[p].lcaId
        parent == BlockOf[at].prev
    IN
    IF ~m.ok
    THEN /\ Consume(p, <<Id(parent)>>)
         /\ Stay(p, [loc[p] EXCEPT !.lcaId = parent, !.needed = Append(@, at)])
    ELSE IF loc[p].needed = <<>> THEN Consume(p, <<>>) /\ Fail(p)
    ELSE /\ Consume(p, [i \in DOMAIN loc[p].needed |-> BlockMsg(loc[p].needed[i])])
         /\ Continue(p, "verdict", loc[p])

ReadVerdict(p, m) ==
    /\ Consume(p, <<>>)
    /\ IF m.ok THEN Continue(p, "serve", loc[p]) ELSE Fail(p)

\* Mutant: the sender does not wait for "complete".
ReadRequest_NoComplete(p, m) ==
    IF m.id \in known[p] \ Block
    THEN Consume(p, <<EntityMsg(m.id)>>) /\ Stay(p, loc[p])
    ELSE Consume(p, <<>>) /\ Return(p)

\* The zero id ends the requests; an unknown id is an error.
ReadRequest(p, m) ==
    IF m.id = Zero THEN Consume(p, <<>>) /\ Continue(p, "complete", loc[p])
    ELSE IF m.id \in known[p] \ Block
    THEN Consume(p, <<EntityMsg(m.id)>>) /\ Stay(p, loc[p])
    ELSE Consume(p, <<>>) /\ Fail(p)

ReadComplete(p, m) == Consume(p, <<>>) /\ Return(p)

-----------------------------------------------------------------------------
(* handleInboundSyncChain *)

ReadRoleToReceive(p, m) == Consume(p, <<>>) /\ Continue(p, "recvWalk", loc[p])

\* Until an id is known; if that is the first, there is nothing to receive.
ReadWalkId(p, m) ==
    IF m.id \notin known[p]
    THEN /\ Consume(p, <<Bool(FALSE)>>)
         /\ Stay(p, [loc[p] EXCEPT !.needed = Append(@, m.id)])
    ELSE /\ Consume(p, <<Bool(TRUE)>>)
         /\ IF loc[p].needed = <<>> THEN Fail(p)
            ELSE Continue(p, "recvBlocks", [loc[p] EXCEPT !.lcaId = m.id])

QuickVerifyChain(p) ==
    LET bs == loc[p].needed
        last == bs[Len(bs)]
    IN  /\ \A i \in 1..(Len(bs) - 1) : BlockOf[bs[i]].prev = bs[i + 1]
        /\ BlockOf[last].prev = loc[p].lcaId
        /\ WorkOf[curHead[p]] <
             WorkOf[loc[p].lcaId] + WorkSum(ToSet(bs))
        /\ \A i \in DOMAIN bs : BlockOf[bs[i]].headerOk

\* With the last block the chain is verified, and the merkle roots are queued; the
\* text of a failed verification is taken from a nil error, which panics.
ReadBlock(p, m) ==
    LET got == loc[p].got + 1
        bs == loc[p].needed
    IN
    IF got < Len(bs) THEN Consume(p, <<>>) /\ Stay(p, [loc[p] EXCEPT !.got = got])
    ELSE IF QuickVerifyChain(p)
    THEN /\ Consume(p, <<Bool(TRUE)>>)
         /\ Continue(p, "request",
                 [loc[p] EXCEPT !.got = got,
                                !.idQueue = [i \in DOMAIN bs |-> BlockOf[bs[i]].merkleRoot]])
    ELSE Consume(p, <<Bool(FALSE)>>) /\ Continue(p, "panicked", loc[p])

\* The head of idQueue is known or was received, or it is requested.
RequestNext(p) ==
    LET id == Head(loc[p].idQueue)
        rest == [loc[p] EXCEPT !.idQueue = Tail(@)]
        received == ToSet(loc[p].newMerkles \o loc[p].newTxs)
    IN
    /\ pc[p] = "request" /\ loc[p].idQueue # <<>>
    /\ IF id \in known[p] \cup received
       THEN Stay(p, rest) /\ UNCHANGED inbox
       ELSE Write(p, <<Id(id)>>) /\ Continue(p, "recvEntity", [rest EXCEPT !.asked = id])
    /\ UNCHANGED <<nodeVars, validated, curHead>>

\* A merkle queues its children.
ReadEntity(p, m) ==
    /\ Consume(p, <<>>)
    /\ Continue(p, "request",
            IF m.id \in Tx THEN [loc[p] EXCEPT !.newTxs = Append(@, m.id)]
            ELSE [loc[p] EXCEPT !.newMerkles = Append(@, m.id),
                                !.idQueue = @ \o <<MerkleOf[m.id].l, MerkleOf[m.id].r>>])

\* Mutant: the lists are handed over in the order of receipt.
Handover_Unreversed(l) ==
    [head |-> Head(l.needed), blocks |-> l.needed, merkles |-> l.newMerkles,
     txs |-> l.newTxs]

\* The candidate head that the end publishes, "reversed so they're inserted in
\* correct order".
Handover(l) ==
    [head |-> Head(l.needed), blocks |-> Reverse(l.needed),
     merkles |-> Reverse(l.newMerkles), txs |-> Reverse(l.newTxs)]

FinishReceiving(p) ==
    /\ pc[p] = "request" /\ loc[p].idQueue = <<>>
    /\ Write(p, <<Id(Zero), Complete>>)
    /\ handed' = [handed EXCEPT ![p] = Append(@, Handover(loc[p]))]
    /\ Return(p)
    /\ UNCHANGED <<known, head, others, validated, curHead>>

-----------------------------------------------------------------------------
\* One read; a frame that does not fit is an error and the handler returns.
Read(p) ==
    LET m == Head(inbox[p]) IN
    /\ pc[p] \in DOMAIN Expects /\ inbox[p] # <<>>
    /\ IF ~Fits(p, m) THEN Consume(p, <<>>) /\ Fail(p)
       ELSE \/ pc[p] = "hello" /\ ReadHello(p, m)
            \/ pc[p] = "cancelled" /\ ReadAnswerCancelled(p, m)
            \/ pc[p] = "offered" /\ ReadAnswer(p, m)
            \/ pc[p] = "sendRole" /\ ReadRoleToSend(p, m)
            \/ pc[p] = "sendWalk" /\ ReadWalkReply(p, m)
            \/ pc[p] = "verdict" /\ ReadVerdict(p, m)
            \/ pc[p] = "serve" /\ ReadRequest(p, m)
            \/ pc[p] = "complete" /\ ReadComplete(p, m)
            \/ pc[p] = "recvRole" /\ ReadRoleToReceive(p, m)
            \/ pc[p] = "recvWalk" /\ ReadWalkId(p, m)
            \/ pc[p] = "recvBlocks" /\ ReadBlock(p, m)
            \/ pc[p] = "recvEntity" /\ ReadEntity(p, m)
    /\ UNCHANGED <<nodeVars, validated, curHead>>

-----------------------------------------------------------------------------
(* The node behind an end: Chain.handleCandidateHead, its ledger left out.  *)
(* All chains here are correct, so only order and work decide.              *)

Pending(e) == e.txs \o e.merkles \o e.blocks

\* VerifyTx, VerifyMerkle and VerifyBlock.
Storable(p, id) ==
    /\ Refs(id) \subseteq known[p]
    /\ id \in Block \ {Zero} => BlockOf[id].headerOk

\* Store the next entity; one that cannot be stored fails the event.
StoreNext(p) ==
    LET e == Head(handed[p])
        id == Head(Pending(e))
        rest == [e EXCEPT
                    !.txs = IF @ # <<>> THEN Tail(@) ELSE @,
                    !.merkles = IF e.txs = <<>> /\ @ # <<>> THEN Tail(@) ELSE @,
                    !.blocks = IF e.txs = <<>> /\ e.merkles = <<>> THEN Tail(@) ELSE @]
    IN
    /\ handed[p] # <<>> /\ Pending(e) # <<>>
    /\ IF id \in known[p] \/ Storable(p, id)
       THEN /\ known' = [known EXCEPT ![p] = @ \cup {id}]
            /\ handed' = [handed EXCEPT ![p][1] = rest]
       ELSE /\ handed' = [handed EXCEPT ![p] = Tail(@)]
            /\ UNCHANGED known
    /\ UNCHANGED <<head, others, endVars>>

\* Mutant: the new head is not announced.
Adopted_Silent(p, b) == UNCHANGED validated

\* Commit publishes ValidatedHead, also to this end.
Adopted(p, b) == validated' = [validated EXCEPT ![p] = Append(@, b)]

Adopt(p) ==
    LET b == Head(handed[p]).head IN
    /\ handed[p] # <<>> /\ Pending(Head(handed[p])) = <<>>
    /\ handed' = [handed EXCEPT ![p] = Tail(@)]
    /\ IF b \in known[p] /\ WorkOf[head[p]] < WorkOf[b]
       THEN head' = [head EXCEPT ![p] = b] /\ Adopted(p, b)
       ELSE UNCHANGED <<head, validated>>
    /\ UNCHANGED <<known, others, curHead, cmd, pc, loc, inbox>>

OtherPublishes(p, e) ==
    /\ e \in others[p]
    /\ others' = [others EXCEPT ![p] = @ \ {e}]
    /\ handed' = [handed EXCEPT ![p] = Append(@, e)]
    /\ UNCHANGED <<known, head, endVars>>

-----------------------------------------------------------------------------
EndStep(p) ==
    \/ TakeHead(p) \/ Serve(p)
    \/ Read(p) \/ RequestNext(p) \/ FinishReceiving(p)
BothStep == ServeAcceptorFirst \/ ServeInitiatorSecond
NodeStep(p) == StoreNext(p) \/ Adopt(p)

\* Both ends wait in the select of Loop and both nodes have nothing to do.
Quiet ==
    /\ \A p \in Peer :
          pc[p] = "idle" /\ cmd[p] = "none" /\ validated[p] = <<>> /\ handed[p] = <<>>

Rest == Quiet /\ UNCHANGED vars

Next ==
    \/ \E p \in Peer : EndStep(p) \/ NodeStep(p) \/ \E e \in others[p] : OtherPublishes(p, e)
    \/ BothStep
    \/ Rest

Spec == Init /\ [][Next]_vars

\* Each end is a goroutine of its own, and so is each chain routine.
FairSpec ==
    /\ Spec
    /\ WF_vars(BothStep)
    /\ \A p \in Peer : WF_vars(EndStep(p)) /\ WF_vars(NodeStep(p))

=============================================================================
