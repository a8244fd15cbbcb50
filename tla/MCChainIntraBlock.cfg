\* A block in which one tx spends another is advanced to and cannot be rewound.
SPECIFICATION Spec
CONSTANTS
    Tx <- MCTx
    Merkle <- MCMerkle
    Block <- MCBlock
    Pkh <- MCPkh
    Zero = "zero"
    NoBlock = "none"
    TxOf <- MCTxOf
    MerkleOf <- MCMerkleOf
    BlockOf <- MCBlockOf
    BlockReward = 10
    MaxBlockVSize = 9
    MaxTxVSize = 5
    CoinbaseVSize = 2
    MinNonCoinbaseVSize = 3
    UintMod = 65536
    CandidateHeads <- IntraBlockHeads
    CandidateTxs <- NoTxs
    SaveDir = FALSE
    SupportMiners = FALSE
    MaxRestarts = 0
INVARIANTS
    NoPanic
CHECK_DEADLOCK FALSE
