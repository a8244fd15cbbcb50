------------------------------- MODULE MCChain ------------------------------
(***************************************************************************)
(* Candidate heads and txs for the chain routine, over MCNetwork.          *)
(***************************************************************************)
EXTENDS ChainInvariant, MCNetwork

\* What a peer's sync publishes: whole blocks, oldest first.
Synced(bs) ==
    [head |-> Last(bs), blocks |-> bs, autoAdd |-> FALSE,
     merkles |-> FlattenSeq([i \in DOMAIN bs |-> MerklesOf[bs[i]]]),
     txs |-> FlattenSeq([i \in DOMAIN bs |-> BlockTxs(bs[i])])]

\* What a miner publishes: its block, its merkles and its coinbase.
Mined(b) ==
    [head |-> b, blocks |-> <<b>>, autoAdd |-> FALSE,
     merkles |-> MerklesOf[b], txs |-> <<Head(BlockTxs(b))>>]

ForkHeads ==
    {Synced(<<"g">>), Mined("a2"), Synced(<<"a2", "a3">>), Synced(<<"b2">>),
     Synced(<<"b2", "b3">>), Synced(<<"b2", "d3">>), Synced(<<"b3", "b4">>)}
ForkTxs == {"t1", "t2", "t3"}

SavedHeads == {Synced(<<"g">>), Synced(<<"a2">>), Synced(<<"a2", "a3">>), Synced(<<"b2">>)}
SavedTxs == {"t1", "t3"}

NoTxs == {}

DuplicateInputTxs == {"t1", "t4"}

IntraBlockHeads == {Synced(<<"g">>), Synced(<<"i2">>), Synced(<<"b2", "b3">>)}

=============================================================================
