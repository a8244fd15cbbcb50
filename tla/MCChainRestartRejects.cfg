\* After a restart a correct chain with more work is rejected.
SPECIFICATION FairSpec
CONSTANTS
    Tx <- MCTx
    Merkle <- MCMerkle
    Block <- MCBlock
    Pkh <- MCPkh
    Zero = "zero"
    NoBlock = "none"
    TxOf <- MCTxOf
    MerkleOf <- MCMerkleOf
    BlockOf <- MCBlockOf
    BlockReward = 10
    MaxBlockVSize = 9
    MaxTxVSize = 5
    CoinbaseVSize = 2
    MinNonCoinbaseVSize = 3
    UintMod = 65536
    CandidateHeads <- SavedHeads
    CandidateTxs <- SavedTxs
    SaveDir = TRUE
    SupportMiners = FALSE
    MaxRestarts = 1
PROPERTIES
    RejectOnlyInvalid
