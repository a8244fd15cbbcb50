----------------------------- MODULE Inventory ------------------------------
(***************************************************************************)
(* internal/inv with pkg/core's Verifier: the shared store of verified     *)
(* entities.  Only the chain routine writes it; entities are never removed *)
(* or changed, so the maps are sets of ids plus the record of each block.  *)
(***************************************************************************)
EXTENDS Entities

VARIABLES
    txs,        \* ids in inv.txs
    merkles,    \* ids in inv.merkles
    blocks      \* inv.blocks: id -> [height, totalWork]

invVars == <<txs, merkles, blocks>>

BlockInfo == [height : Nat, totalWork : Nat]

InventoryTypeOK ==
    /\ txs \subseteq Tx
    /\ merkles \subseteq Merkle
    /\ Zero \in DOMAIN blocks /\ DOMAIN blocks \subseteq Block
    /\ \A b \in DOMAIN blocks : blocks[b] \in BlockInfo

EmptyBlocks == [b \in {Zero} |-> [height |-> 0, totalWork |-> 0]]

InventoryInit == txs = {} /\ merkles = {} /\ blocks = EmptyBlocks

-----------------------------------------------------------------------------
HasBlock(b) == b \in DOMAIN blocks
Height(b) == blocks[b].height
TotalWork(b) == blocks[b].totalWork
HasEntity(id) == id \in merkles \cup txs

\* VSize of a merkle or tx: each leaf counts once, as the children of a stored
\* node are equal or share no tx.
EntityVSize(id) == SumFunction([t \in LeafSet(id) |-> TxOf[t].vSize])

\* The most recent common ancestor of two known blocks.
GetBlockLCA(a, b) ==
    LET common == Ancestors[a] \cap Ancestors[b]
    IN  CHOOSE c \in common : \A d \in common : Height(d) <= Height(c)

-----------------------------------------------------------------------------
VerifyTx(t) ==
    LET tx == TxOf[t] IN
    /\ tx.signed
    /\ tx.vSize <= MaxTxVSize
    /\ tx.isCoinbase => /\ tx.inputs = <<>>
                        /\ Len(tx.outputs) = 1
                        /\ OutputsValue(t) >= BlockReward
    /\ ~tx.isCoinbase => HasSurplus(t)
    /\ \A i \in DOMAIN tx.inputs :
           LET in == tx.inputs[i] IN
           /\ in.utxo.txId \in txs
           /\ in.utxo \in Created(in.utxo.txId)     \* index exists, value matches
           /\ in.pkh = Owner(in.utxo)

VerifyMerkle(m) ==
    LET l == MerkleOf[m].l
        r == MerkleOf[m].r
    IN  /\ HasEntity(l) /\ HasEntity(r)
        /\ l # r => LeafSet(l) \cap LeafSet(r) = {}
        /\ EntityVSize(m) <= MaxBlockVSize

BlockMaxTxs == (MaxBlockVSize - CoinbaseVSize) \div MinNonCoinbaseVSize + 2

VerifyBlock(b) ==
    LET bTxs == BlockTxs(b)
        values(Value(_)) == Uint64Sum([i \in DOMAIN bTxs |-> Value(bTxs[i])])
    IN  /\ BlockOf[b].headerOk
        /\ BlockOf[b].merkleRoot \in merkles
        /\ HasBlock(BlockOf[b].prev)
        /\ Len(bTxs) \in 1..BlockMaxTxs
        /\ TxOf[bTxs[1]].minBlock = Height(BlockOf[b].prev) + 1
        /\ \A i \in DOMAIN bTxs : TxOf[bTxs[i]].isCoinbase <=> i = 1
        /\ (BlockReward + values(InputsValue)) % UintMod = values(OutputsValue)
        /\ EntityVSize(BlockOf[b].merkleRoot) <= MaxBlockVSize

-----------------------------------------------------------------------------
StoreTx(t) == txs' = txs \cup {t}

StoreMerkle(m) == merkles' = merkles \cup {m}

\* Mutant: heights count down.
StoreBlock_HeightDown(b) ==
    LET prev == BlockOf[b].prev
        info == [height |-> Height(prev) - 1,
                 totalWork |-> TotalWork(prev) + BlockOf[b].work]
    IN  blocks' = [x \in DOMAIN blocks \cup {b} |-> IF x = b THEN info ELSE blocks[x]]

\* WorkAppendTarget adds the expected work of the block's target.
StoreBlock(b) ==
    LET prev == BlockOf[b].prev
        info == [height |-> Height(prev) + 1,
                 totalWork |-> TotalWork(prev) + BlockOf[b].work]
    IN  blocks' = [x \in DOMAIN blocks \cup {b} |-> IF x = b THEN info ELSE blocks[x]]

=============================================================================
