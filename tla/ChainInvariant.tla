--------------------------- MODULE ChainInvariant ---------------------------
(***************************************************************************)
(* The inductive invariant behind the safety theorems of ChainProofs.  The *)
(* properties speak of the committed state, at a block boundary; this says *)
(* what holds of the copy too, half way through a block.                   *)
(***************************************************************************)
EXTENDS ChainProperties

-----------------------------------------------------------------------------
(* The inventory is closed: what a stored entity refers to is stored. *)

TxsClosed ==
    \A t \in txs : \A u \in Consumed(t) : u.txId \in txs /\ u \in Created(u.txId)

MerklesClosed == \A m \in merkles : LeafSet(m) \subseteq txs

BlocksClosed ==
    /\ blocks[Zero] = EmptyBlocks[Zero]
    /\ \A b \in DOMAIN blocks \ {Zero} :
          /\ BlockOf[b].merkleRoot \in merkles
          /\ HasBlock(BlockOf[b].prev)
          /\ Height(b) = Height(BlockOf[b].prev) + 1

InventoryOK == InventoryTypeOK /\ TxsClosed /\ MerklesClosed /\ BlocksClosed

-----------------------------------------------------------------------------
(* A ledger is consistent at every step of a rewind or an advance. *)

LedgerOK(s) ==
    /\ s \in State
    /\ s.mempool \cap Included(s) = {}
    /\ s.mempoolUtxoSpends = UNION {Spends(t) : t \in s.mempool}
    /\ s.pkhUtxos = Balances(s.utxos)
    /\ s.utxos = CreatedBy(Included(s)) \ ConsumedBy(Included(s))
    /\ Consistent(Included(s))

\* Without restarts no known tx is missing from both the mempool and the chain.
FromInventory(s) ==
    /\ s.mempool \cup Included(s) \subseteq txs
    /\ restarts = 0 => txs \subseteq s.mempool \cup Included(s)

-----------------------------------------------------------------------------
(* includedTxBlocks records exactly the txs at the positions in place[a] of *)
(* each block a, and no tx at two of them.                                   *)

RecordedAt(s, place) ==
    /\ \A a \in Block \ {Zero} : \A i \in place[a] :
          /\ i \in DOMAIN BlockTxs(a)
          /\ s.includedTxBlocks[BlockTxs(a)[i]] = a
          /\ \A j \in place[a] : BlockTxs(a)[i] = BlockTxs(a)[j] => i = j
    /\ \A t \in Included(s) :
          /\ s.includedTxBlocks[t] # Zero
          /\ \E i \in place[s.includedTxBlocks[t]] :
                BlockTxs(s.includedTxBlocks[t])[i] = t

\* All of each block of h's chain.
WholeChain(h) ==
    [a \in Block \ {Zero} |-> IF a \in Ancestors[h] THEN DOMAIN BlockTxs(a) ELSE {}]

\* Rewind takes the head's txs away from the front.
Rewinding ==
    [a \in Block \ {Zero} |-> {i \in WholeChain(ns.head)[a] : a = ns.head => i >= k}]

\* Advance has put the first k - 1 txs of the next block in place.
Advancing ==
    [a \in Block \ {Zero} |->
        IF ns.head # ev.head /\ a = NextBlock THEN 1..(k-1) ELSE WholeChain(ns.head)[a]]

-----------------------------------------------------------------------------
(* The routine's own variables *)

StateOK ==
    /\ HasBlock(st.head)
    /\ LedgerOK(st) /\ FromInventory(st)
    /\ RecordedAt(st, WholeChain(st.head))

CopyOK ==
    /\ LedgerOK(ns)
    /\ pc \in {"rewind", "advance"} =>
          /\ HasMoreWork(ev.head)
          /\ HasBlock(ns.head) /\ FromInventory(ns)
          /\ lcaId \in Ancestors[ev.head]
    /\ pc = "rewind" =>
          /\ lcaId \in Ancestors[ns.head]
          /\ ns.head = lcaId => k = 1
          /\ RecordedAt(ns, Rewinding)
    /\ pc = "advance" =>
          /\ ns.head \in Ancestors[ev.head]
          /\ ns.head # ev.head => k \in 1..(Len(BlockTxs(NextBlock)) + 1)
          /\ RecordedAt(ns, Advancing)

\* IInv: inductive, and strong enough for every safety theorem.
IInv == TypeOK /\ InventoryOK /\ StateOK /\ CopyOK

-----------------------------------------------------------------------------
(* The head's chain is correct; IInv holds without any of this. *)

\* Each tx at the positions in place is there in time, names no utxo twice, and consumes
\* only what the txs at earlier positions of place create.  bs is the inventory's blocks.
OrderedIn(bs, place) ==
    \A a \in Block \ {Zero} : \A i \in place[a] :
        LET t == BlockTxs(a)[i] IN
        /\ TxOf[t].minBlock <= bs[a].height
        /\ ~DuplicateInput(t)
        /\ \A u \in Consumed(t) :
              \E c \in Block \ {Zero} : \E j \in place[c] :
                  /\ bs[c].height < bs[a].height \/ (c = a /\ j < i)
                  /\ u \in Created(BlockTxs(c)[j])

\* The chain that is left is as correct as it was; the one advanced over, so far.
ChainsOK ==
    /\ ValidChain(st.head)
    /\ pc = "rewind" => ValidChain(ns.head)
    /\ pc = "advance" => OrderedIn(blocks, Advancing)

\* The file names a correct chain of known blocks, and is the head but while it is loaded.
SavedOK ==
    SaveDir =>
        /\ headFile # NoBlock =>
              HasBlock(headFile) /\ ValidChain(headFile) /\ TotalWork(headFile) > 0
        /\ pc = "select" => ~ev.autoAdd
        /\ ~ev.autoAdd => st.head = IF headFile = NoBlock THEN Zero ELSE headFile
        /\ ev.autoAdd =>
              /\ headFile # NoBlock /\ ev.head = headFile /\ st.head = Zero
              /\ ev.txs = <<>> /\ ev.merkles = <<>> /\ ev.blocks = <<>>

\* A block in which a tx consumes what an earlier one creates.
SpendsWithin(b) ==
    \E i, j \in DOMAIN BlockTxs(b) :
        i < j /\ Created(BlockTxs(b)[i]) \cap Consumed(BlockTxs(b)[j]) # {}

PanicOK == pc = "panicked" => \E b \in DOMAIN blocks \ {Zero} : SpendsWithin(b)

\* HeadInv: inductive relative to IInv.
HeadInv == ChainsOK /\ SavedOK /\ PanicOK

-----------------------------------------------------------------------------
(* What the values in the inventory add up to. *)

TxBalanced(t) == IF TxOf[t].isCoinbase THEN TxOf[t].inputs = <<>> ELSE HasSurplus(t)

\* The coinbase comes first and pays out the reward and the fees, modulo 2^64.
BlockBalanced(b) ==
    LET bTxs == BlockTxs(b)
        ins == [i \in DOMAIN bTxs |-> InputsValue(bTxs[i])]
        outs == [i \in DOMAIN bTxs |-> OutputsValue(bTxs[i])]
    IN  /\ bTxs # <<>>
        /\ \A i \in DOMAIN bTxs : TxOf[bTxs[i]].isCoinbase <=> i = 1
        /\ (BlockReward + Uint64Sum(ins)) % UintMod = Uint64Sum(outs)

\* VerifiedInv: inductive relative to TypeOK.
VerifiedInv ==
    /\ IsFiniteSet(txs)
    /\ \A t \in txs : TxOf[t].signed /\ TxBalanced(t)
    /\ \A b \in DOMAIN blocks \ {Zero} : BlockBalanced(b)

\* Neither a stored tx's outputs nor the rewards so far add up to 2^64.  The code takes
\* both for granted: its sums wrap.
ValuesFit ==
    /\ \A t \in txs : SumFunction(OutputValues(t)) < UintMod
    /\ BlockReward * Height(st.head) < UintMod

-----------------------------------------------------------------------------
(* The mining target: TargetMinable but for DuplicateInput, which nothing rules out. *)

TargetOK ==
    LET ids == target.txIds IN
    /\ target.head = st.head
    /\ ToSet(ids) \subseteq st.mempool
    /\ \A i \in DOMAIN ids :
          /\ TxOf[ids[i]].minBlock <= Height(st.head) + 1
          /\ Consumed(ids[i]) \subseteq st.utxos
          /\ \A j \in DOMAIN ids \ {i} :
                ids[i] # ids[j] /\ Consumed(ids[i]) \cap Consumed(ids[j]) = {}
    /\ CoinbaseVSize + SumFunction([t \in ToSet(ids) |-> TxOf[t].vSize]) <= MaxBlockVSize
    /\ Len(ids) + 1 <= BlockMaxTxs

\* TargetInv: inductive relative to IInv and VerifiedInv.
TargetInv == SupportMiners => TargetOK

=============================================================================
