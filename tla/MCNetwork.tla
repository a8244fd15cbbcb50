------------------------------ MODULE MCNetwork -----------------------------
(***************************************************************************)
(* The txs, merkle trees and blocks of the instances that TLC checks.      *)
(* Every block pays its coinbase to alice; t1 and t2 are two ways of       *)
(* spending the first coinbase, t3 and t5 spend the outputs of t1, t4      *)
(* names one utxo twice.                                                   *)
(***************************************************************************)

In(txId, ind, value, pkh) ==
    [utxo |-> [txId |-> txId, ind |-> ind, value |-> value], pkh |-> pkh]
Out(value, pkh) == [value |-> value, pkh |-> pkh]

Coinbase(minBlock, value) ==
    [isCoinbase |-> TRUE, minBlock |-> minBlock, vSize |-> 2, signed |-> TRUE,
     inputs |-> <<>>, outputs |-> <<Out(value, "alice")>>]

Payment(minBlock, size, ins, outs) ==
    [isCoinbase |-> FALSE, minBlock |-> minBlock, vSize |-> size, signed |-> TRUE,
     inputs |-> ins, outputs |-> outs]

MCPkh == {"alice", "bob"}

MCTxOf ==
    [c1  |-> Coinbase(1, 10),
     c2  |-> Coinbase(2, 11),
     c2x |-> Coinbase(2, 12),
     c3  |-> Coinbase(3, 10),
     c3x |-> Coinbase(3, 11),
     c3y |-> Coinbase(3, 12),
     c4  |-> Coinbase(4, 10),
     t1  |-> Payment(0, 4, <<In("c1", 1, 10, "alice")>>, <<Out(6, "bob"), Out(3, "alice")>>),
     t2  |-> Payment(2, 3, <<In("c1", 1, 10, "alice")>>, <<Out(9, "bob")>>),
     t3  |-> Payment(0, 3, <<In("t1", 2, 3, "alice")>>, <<Out(2, "bob")>>),
     t5  |-> Payment(0, 3, <<In("t1", 1, 6, "bob")>>, <<Out(5, "alice")>>),
     t4  |-> Payment(0, 5, <<In("c1", 1, 10, "alice"), In("c1", 1, 10, "alice")>>,
                     <<Out(9, "bob")>>)]
MCTx == DOMAIN MCTxOf

Node(l, r) == [l |-> l, r |-> r]

MCMerkleOf ==
    [mc1 |-> Node("c1", "c1"), mc3 |-> Node("c3", "c3"), mc4 |-> Node("c4", "c4"),
     mc2t1 |-> Node("c2", "t1"), mc2t2 |-> Node("c2", "t2"),
     mc3t1 |-> Node("c3x", "t1"), mc3t3 |-> Node("c3x", "t3"),
     \* a block in which t3 spends t1 of the same block
     mc2xt1 |-> Node("c2x", "t1"), mt3 |-> Node("t3", "t3"),
     mc2xt1t3 |-> Node("mc2xt1", "mt3"),
     \* a block of three txs, which spend outputs of earlier blocks
     mc3yt3 |-> Node("c3y", "t3"), mt5 |-> Node("t5", "t5"),
     mc3yt3t5 |-> Node("mc3yt3", "mt5")]
MCMerkle == DOMAIN MCMerkleOf

Header(prev, root, work) ==
    [prev |-> prev, merkleRoot |-> root, work |-> work, headerOk |-> TRUE]

\* g forks into a branch that confirms t1 and one that confirms t2.  The works make
\* a3 beat b3 and b4 beat a3; d3 has more than a3, but confirms t1 after t2.
MCBlockOf ==
    [g  |-> Header("zero", "mc1", 1),
     a2 |-> Header("g", "mc2t1", 1),  a3 |-> Header("a2", "mc3t3", 3),
     b2 |-> Header("g", "mc2t2", 1),  b3 |-> Header("b2", "mc3", 2),
     b4 |-> Header("b3", "mc4", 4),
     d3 |-> Header("b2", "mc3t1", 4),
     i2 |-> Header("g", "mc2xt1t3", 1),
     e3 |-> Header("a2", "mc3yt3t5", 3)]
MCBlock == DOMAIN MCBlockOf \cup {"zero"}

\* The merkle nodes of a block, children first.
MerklesOf ==
    [g |-> <<"mc1">>, a2 |-> <<"mc2t1">>, a3 |-> <<"mc3t3">>, b2 |-> <<"mc2t2">>,
     b3 |-> <<"mc3">>, b4 |-> <<"mc4">>, d3 |-> <<"mc3t1">>,
     i2 |-> <<"mc2xt1", "mt3", "mc2xt1t3">>, e3 |-> <<"mc3yt3", "mt5", "mc3yt3t5">>]

=============================================================================
