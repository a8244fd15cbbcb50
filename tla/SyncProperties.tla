---------------------------- MODULE SyncProperties --------------------------
(***************************************************************************)
(* What two honest ends of a connection must guarantee, while their        *)
(* inventories grow under them.                                            *)
(***************************************************************************)
EXTENDS Sync

Message ==
    [kind : {"hello"}, work : Nat, head : Block]
      \cup [kind : {"answer"}, answer : {"continue", "cancel"}]
      \cup [kind : {"role"}, role : {"send", "recv"}]
      \cup [kind : {"bool"}, ok : BOOLEAN]
      \cup [kind : {"id"}, id : Entity]
      \cup [kind : {"block"}, id : Block \ {Zero}]
      \cup [kind : {"entity"}, id : Tx \cup Merkle]
      \cup [kind : {"complete"}]

\* Every variable keeps its type, the handler's locals included.
TypeOK ==
    /\ known \in [Peer -> SUBSET Entity]
    /\ head \in [Peer -> Block] /\ curHead \in [Peer -> Block]
    /\ handed \in [Peer -> Seq(Event)] /\ others \in [Peer -> SUBSET Event]
    /\ validated \in [Peer -> Seq(Block)]
    /\ cmd \in [Peer -> Commands]
    /\ pc \in [Peer -> {"idle", "request", "panicked"} \cup DOMAIN Expects]
    /\ loc \in [Peer -> Locals] /\ inbox \in [Peer -> Seq(Message)]
    /\ \A p \in Peer :
          /\ {head[p], curHead[p]} \subseteq known[p] /\ others[p] \subseteq OtherEvents[p]
          /\ loc[p].got <= Len(loc[p].needed)

-----------------------------------------------------------------------------
(* Agreement on the protocol *)

\* Whatever an end reads is of the kind and hash that its place in sync.go expects,
\* and whatever the sender is asked for it has: no pair of honest ends ends a sync
\* with a misread, "unknown entity" or a failed verification (whose report panics).
NoMisread ==
    \A p \in Peer :
        /\ pc[p] # "panicked"
        /\ pc[p] \in DOMAIN Expects /\ inbox[p] # <<>> => Fits(p, Head(inbox[p]))
        /\ pc[p] = "serve" /\ inbox[p] # <<>> => Head(inbox[p]).id \in known[p]

\* When both ends are back in Loop nothing is left in either stream: the next
\* command would be read from the middle of an old message.
StreamsClean ==
    (\A p \in Peer : pc[p] = "idle") => (\A p \in Peer : inbox[p] = <<>>)

-----------------------------------------------------------------------------
(* What is handed to the chain *)

\* The layers of a merkle tree above its leaves; all leaves of a tree that
\* MerkleFromTxIds builds are at the same depth (the module Merkle).
TreeHeight[id \in Tx \cup Merkle] ==
    IF id \in Tx THEN 0 ELSE TreeHeight[MerkleOf[id].l] + 1

BalancedTrees ==
    /\ TreeHeight \in [Tx \cup Merkle -> Nat]
    /\ \A t \in Tx : TreeHeight[t] = 0
    /\ \A m \in Merkle : \A id \in Refs(m) : TreeHeight[m] = TreeHeight[id] + 1

Leaves(b) == LeafSet(BlockOf[b].merkleRoot)
Layers(b) == TreeHeight[BlockOf[b].merkleRoot]

\* No tx is twice in the chain that ends with h, and every input refers to an earlier
\* block of it whose tree has at least as many layers as the tx's own.
Orderly(h) ==
    \A b \in Ancestors[h] \ {Zero} :
        LET below == Ancestors[BlockOf[b].prev] \ {Zero} IN
        /\ \A a \in below : Leaves(a) \cap Leaves(b) = {}
        /\ \A t \in Leaves(b) : \A u \in Refs(t) :
              \E a \in below : u \in Leaves(a) /\ Layers(b) <= Layers(a)

Before(q, i) == {q[j] : j \in 1..(i - 1)}

\* sync.go:186, "reversed so they're inserted in correct order": in the order in
\* which the chain stores the lists, every entity comes after all it refers to, or
\* its node has that already, and the head is among them.  The chain gives up a
\* candidate head at the first entity for which this fails.
HandoverStorable ==
    [][\A p \in Peer : FinishReceiving(p) =>
          LET e == Last(handed'[p])
              ids == Pending(e)
          IN  /\ e.head \in Range(e.blocks)
              /\ \A i \in DOMAIN ids : Refs(ids[i]) \subseteq known[p] \cup Before(ids, i)]_vars

\* The heads of the two nodes come to have equal work and stay so, from any pair of
\* chains, whatever other peers deliver and whichever end starts.
Converge ==
    <>[](WorkOf[head[Initiator]] = WorkOf[head[Acceptor]])

=============================================================================
