------------------------------- MODULE MCSync -------------------------------
(***************************************************************************)
(* Two connected nodes over MCNetwork.                                     *)
(***************************************************************************)
EXTENDS SyncProperties, MCNetwork

Synced(bs) ==
    [head |-> bs[Len(bs)], blocks |-> bs,
     merkles |-> FlattenSeq([i \in DOMAIN bs |-> MerklesOf[bs[i]]]),
     txs |-> FlattenSeq([i \in DOMAIN bs |-> BlockTxs(bs[i])])]

\* A node that has stored these events and whose head is b.
Node1(b, events) ==
    [head |-> b, known |-> {"zero"} \cup UNION {ToSet(Pending(e)) : e \in events}]

ChainA == Synced(<<"g", "a2", "a3">>)
ChainB == Synced(<<"g", "b2", "b3">>)

\* A new node meets one on branch a; two nodes on different branches.
MCStarts ==
    {("init" :> Node1("zero", {}) @@ "acc" :> Node1("a3", {ChainA})),
     ("init" :> Node1("a3", {ChainA}) @@ "acc" :> Node1("b3", {ChainB})),
     ("init" :> Node1("b3", {ChainB}) @@ "acc" :> Node1("b3", {ChainB}))}

\* Meanwhile the initiator learns of branch a elsewhere, and the acceptor mines b4.
MCOtherEvents ==
    ("init" :> {Synced(<<"g", "a2">>), Synced(<<"a3">>)})
        @@ ("acc" :> {Synced(<<"b3", "b4">>)})

\* A new node meets one whose newest block has more txs than the blocks below it.
DeepStarts ==
    {("init" :> Node1("zero", {}) @@ "acc" :> Node1("e3", {Synced(<<"g", "a2", "e3">>)}))}

\* HandoverStorable is proved for orderly chains: of the chains here, all but the one with
\* the deep block and the one with a spend inside a block.
ASSUME OrderlyChains ==
    BalancedTrees /\ \A b \in Block : Orderly(b) <=> b \notin {"e3", "i2"}

NoOtherEvents == ("init" :> {}) @@ ("acc" :> {})

=============================================================================
