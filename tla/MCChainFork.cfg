\* Forks, reorganisations of two blocks and back, an invalid heavier branch; no crash.
SPECIFICATION FairSpec
CONSTANTS
    Tx <- MCTx
    Merkle <- MCMerkle
    Block <- MCBlock
    Pkh <- MCPkh
    Zero = "zero"
    NoBlock = "none"
    TxOf <- MCTxOf
    MerkleOf <- MCMerkleOf
    BlockOf <- MCBlockOf
    BlockReward = 10
    MaxBlockVSize = 9
    MaxTxVSize = 5
    CoinbaseVSize = 2
    MinNonCoinbaseVSize = 3
    UintMod = 65536
    CandidateHeads <- ForkHeads
    CandidateTxs <- ForkTxs
    SaveDir = FALSE
    SupportMiners = TRUE
    MaxRestarts = 0
INVARIANTS
    TypeOK
    IndexesExact
    UtxosExact
    NoDoubleSpend
    ConfirmedOnChain
    MempoolIsUnincluded
    SupplyConserved
    HeadChainValid
    NoPanic
    TargetMinable
    IInv
PROPERTIES
    RejectOnlyInvalid
    HeadGainsWork
    ValidHeadAdopted
    ImplementsLedger
