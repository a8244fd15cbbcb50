------------------------------ MODULE Entities ------------------------------
(***************************************************************************)
(* The immutable, content-addressed entities of pkg/core: transactions,    *)
(* merkle nodes and blocks.  An id stands for the hash of its content, so  *)
(* the content of every id that can ever be hashed is a constant function. *)
(* The fields are those the chain logic reads; signatures, proof of work   *)
(* and the header's time and target rules are one Boolean each.            *)
(***************************************************************************)
EXTENDS Integers, Sequences, FiniteSets, SequencesExt

CONSTANTS
    Tx, Merkle, Block, Pkh,     \* ids; Block includes Zero
    Zero,                       \* core.HashT{}, the id below the first block
    NoBlock,                    \* "not in the map": a tx that no block includes
    TxOf, MerkleOf, BlockOf,    \* the content behind each id
    BlockReward, MaxBlockVSize, MaxTxVSize,     \* core.Params
    CoinbaseVSize, MinNonCoinbaseVSize,         \* sizes of the smallest txs
    UintMod                     \* uint64 sums wrap at this value

\* A claimed output: ind counts from 1 here, from 0 in the code.
Utxo == [txId : Tx, ind : Nat, value : Nat]

TxRecord ==
    [isCoinbase : BOOLEAN, minBlock : Nat, vSize : Nat, signed : BOOLEAN,
     inputs : Seq([utxo : Utxo, pkh : Pkh]),
     outputs : Seq([value : Nat, pkh : Pkh])]

MerkleRecord == [l : Tx \cup Merkle, r : Tx \cup Merkle]

\* headerOk: hash below target, mined time and target in bounds.  The hash of a block leaves
\* its mined time out; the first that a node stores under an id is the one it keeps.
BlockRecord == [prev : Block, merkleRoot : Merkle, work : Nat, headerOk : BOOLEAN]

ASSUME EntitiesAssumption ==
    /\ Zero \in Block /\ NoBlock \notin Block
    /\ IsFiniteSet(Block) /\ IsFiniteSet(Pkh)
    /\ Tx \cap Merkle = {}
    /\ TxOf \in [Tx -> TxRecord]
    /\ MerkleOf \in [Merkle -> MerkleRecord]
    /\ BlockOf \in [Block \ {Zero} -> BlockRecord]
    /\ {BlockReward, MaxBlockVSize, MaxTxVSize, CoinbaseVSize, MinNonCoinbaseVSize}
         \subseteq Nat
    /\ UintMod \in Nat \ {0}

\* A coinbase fits into a block; an input carries a public key and a signature, and
\* MinNonCoinbaseVSize counts one input with an empty signature.
ASSUME SizesAssumption ==
    /\ CoinbaseVSize <= MaxBlockVSize /\ MinNonCoinbaseVSize > 0
    /\ \A t \in Tx :
          TxOf[t].signed /\ TxOf[t].inputs # <<>> => TxOf[t].vSize >= MinNonCoinbaseVSize

-----------------------------------------------------------------------------
(* Transactions *)

\* Tx.GetConsumedUtxos, as a set; DuplicateInput tells when that loses something.
Consumed(t) == {TxOf[t].inputs[i].utxo : i \in DOMAIN TxOf[t].inputs}

DuplicateInput(t) ==
    \E i, j \in DOMAIN TxOf[t].inputs :
        i # j /\ TxOf[t].inputs[i].utxo = TxOf[t].inputs[j].utxo

\* The utxos that a tx's outputs become once it is included.
Created(t) ==
    {[txId |-> t, ind |-> i, value |-> TxOf[t].outputs[i].value] :
        i \in DOMAIN TxOf[t].outputs}

CreatedBy(S) == UNION {Created(t) : t \in S}
ConsumedBy(S) == UNION {Consumed(t) : t \in S}

\* Every input is the output of a tx of S, and no output is used twice.
Consistent(S) ==
    /\ ConsumedBy(S) \subseteq CreatedBy(S)
    /\ \A t1, t2 \in S : t1 # t2 => Consumed(t1) \cap Consumed(t2) = {}

\* The public key hash of the output behind a utxo (inv.GetTxOut).
Owner(u) == TxOf[u.txId].outputs[u.ind].pkh

Uint64Sum(values) == FoldLeft(LAMBDA acc, v : (acc + v) % UintMod, 0, values)

InputValues(t) == [i \in DOMAIN TxOf[t].inputs |-> TxOf[t].inputs[i].utxo.value]
OutputValues(t) == [i \in DOMAIN TxOf[t].outputs |-> TxOf[t].outputs[i].value]

InputsValue(t) == Uint64Sum(InputValues(t))
OutputsValue(t) == Uint64Sum(OutputValues(t))

HasSurplus(t) == InputsValue(t) > OutputsValue(t)

\* Tx.Rate() of t1 is at least that of t2, without the division.
RateAtLeast(t1, t2) ==
    (InputsValue(t1) - OutputsValue(t1)) * TxOf[t2].vSize
        >= (InputsValue(t2) - OutputsValue(t2)) * TxOf[t1].vSize

-----------------------------------------------------------------------------
(* Merkle trees *)

\* The breadth-first walk of Inv.GetMerkleTxIds: a single child is queued once.
LeavesFrom[queue \in Seq(Tx \cup Merkle)] ==
    IF queue = <<>> THEN <<>>
    ELSE LET id == Head(queue) IN
         IF id \in Tx
         THEN <<id>> \o LeavesFrom[Tail(queue)]
         ELSE LET node == MerkleOf[id]
                  children == IF node.l = node.r THEN <<node.l>> ELSE <<node.l, node.r>>
              IN  LeavesFrom[Tail(queue) \o children]

GetMerkleTxIds == [m \in Merkle |-> LeavesFrom[<<m>>]]

\* The txs below an entity, a tx being its own only leaf.
LeafSet(id) == IF id \in Tx THEN {id} ELSE ToSet(GetMerkleTxIds[id])

\* What a walk of a finite tree returns.  It ends as no node contains its own hash, of
\* which ids say nothing: an assumption, that TLC evaluates in every run.
ASSUME LeavesAssumption ==
    \A m \in Merkle :
        /\ GetMerkleTxIds[m] \in Seq(Tx)
        /\ ToSet(GetMerkleTxIds[m]) = LeafSet(MerkleOf[m].l) \cup LeafSet(MerkleOf[m].r)

BlockTxs(b) == GetMerkleTxIds[BlockOf[b].merkleRoot]

-----------------------------------------------------------------------------
(* Ancestry *)

ClosedUnderParent(S) == \A b \in S \ {Zero} : BlockOf[b].prev \in S

\* What following parents from b reaches, b included (the loops of
\* GetBlockAncestorDepth and GetBlockAncestorsUntil).
Ancestors ==
    [b \in Block |->
        {a \in Block :
            \A S \in SUBSET Block : b \in S /\ ClosedUnderParent(S) => a \in S}]

\* The txs of the whole chain that ends with b.
ChainTxs(b) == UNION {ToSet(BlockTxs(a)) : a \in Ancestors[b] \ {Zero}}

=============================================================================
