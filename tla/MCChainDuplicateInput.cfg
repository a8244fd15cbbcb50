\* A tx that names one utxo twice is put in the mining target.
SPECIFICATION Spec
CONSTANTS
    Tx <- MCTx
    Merkle <- MCMerkle
    Block <- MCBlock
    Pkh <- MCPkh
    Zero = "zero"
    NoBlock = "none"
    TxOf <- MCTxOf
    MerkleOf <- MCMerkleOf
    BlockOf <- MCBlockOf
    BlockReward = 10
    MaxBlockVSize = 9
    MaxTxVSize = 5
    CoinbaseVSize = 2
    MinNonCoinbaseVSize = 3
    UintMod = 65536
    CandidateHeads <- ForkHeads
    CandidateTxs <- DuplicateInputTxs
    SaveDir = FALSE
    SupportMiners = TRUE
    MaxRestarts = 0
INVARIANTS
    TargetMinable
