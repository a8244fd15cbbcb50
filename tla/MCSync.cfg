\* Nodes at different heads, while other peers deliver and a node mines.
SPECIFICATION FairSpec
CONSTANTS
    Tx <- MCTx
    Merkle <- MCMerkle
    Block <- MCBlock
    Pkh <- MCPkh
    Zero = "zero"
    NoBlock = "none"
    TxOf <- MCTxOf
    MerkleOf <- MCMerkleOf
    BlockOf <- MCBlockOf
    BlockReward = 10
    MaxBlockVSize = 9
    MaxTxVSize = 5
    CoinbaseVSize = 2
    MinNonCoinbaseVSize = 3
    UintMod = 65536
    Initiator = "init"
    Acceptor = "acc"
    Starts <- MCStarts
    OtherEvents <- MCOtherEvents
INVARIANTS
    TypeOK
    NoMisread
    StreamsClean
PROPERTIES
    HandoverStorable
    Converge
