------------------------------- MODULE Merkle -------------------------------
(***************************************************************************)
(* pkg/core/block.go: the merkle tree over a block's transactions, and the *)
(* walk of the inventory that reads them back.  A node stands for its hash.*)
(***************************************************************************)
EXTENDS Naturals, Sequences, SequencesExt

Leaf(tx) == [tx |-> tx]
IsLeaf(id) == "tx" \in DOMAIN id
Node(l, r) == [l |-> l, r |-> r]

\* Pairs of elements; a trailing odd one is its own sibling.
LayerAbove(layer) ==
    [i \in 1..(Len(layer) + 1) \div 2 |->
        Node(layer[2 * i - 1], layer[IF 2 * i <= Len(layer) THEN 2 * i ELSE 2 * i - 1])]

\* The least k with n <= 2^k, 1 + ceil(log2(n)) layers with the leaves.
LayersAbove(n) == CHOOSE k \in 0..n : n <= 2^k /\ \A j \in 0..k - 1 : n > 2^j

\* The nodes in the order in which they are to be stored; the last is the root.
MerkleFromTxIds(leaves) ==
    LET layer[k \in Nat] == IF k = 0 THEN leaves ELSE LayerAbove(layer[k - 1])
    IN  IF Len(leaves) = 1 THEN <<Node(leaves[1], leaves[1])>>
        ELSE FlattenSeq([k \in 1..LayersAbove(Len(leaves)) |-> layer[k]])

Children(node) == IF node.l = node.r THEN <<node.l>> ELSE <<node.l, node.r>>

\* One turn of GetMerkleTxIds' loop.
Visit(walk) ==
    IF walk.queue = <<>> THEN walk
    ELSE LET id == Head(walk.queue) IN
         IF IsLeaf(id)
         THEN [queue |-> Tail(walk.queue), out |-> Append(walk.out, id)]
         ELSE [queue |-> Tail(walk.queue) \o Children(id), out |-> walk.out]

\* A tree is finite, and the loop ends; this many turns will do.
GetMerkleTxIds(root, turns) ==
    LET walk[k \in Nat] ==
            IF k = 0 THEN [queue |-> <<root>>, out |-> <<>>] ELSE Visit(walk[k - 1])
    IN  walk[turns].out

\* VerifyMerkle, when the nodes are stored in this order after the transactions.
Storable(leaves, nodes) ==
    \A i \in DOMAIN nodes :
        {nodes[i].l, nodes[i].r} \subseteq ToSet(leaves) \cup {nodes[j] : j \in 1..i - 1}

\* MerkleTreeMaxSize, of this many transactions.
MaxTreeSize(n) == (20 * n) \div 9

\* The tree of these transactions can be stored in the order in which it is sent, is
\* no larger than the bound, and yields the transactions again, in order.
TreeSound(leaves) ==
    LET nodes == MerkleFromTxIds(leaves) IN
    /\ Storable(leaves, nodes)
    /\ Len(leaves) + Len(nodes) <= MaxTreeSize(Len(leaves))
    /\ GetMerkleTxIds(Last(nodes), 4 * Len(leaves)) = leaves

=============================================================================
