\* A block of three txs above smaller blocks, in one sync.
SPECIFICATION Spec
CONSTANTS
    Tx <- MCTx
    Merkle <- MCMerkle
    Block <- MCBlock
    Pkh <- MCPkh
    Zero = "zero"
    NoBlock = "none"
    TxOf <- MCTxOf
    MerkleOf <- MCMerkleOf
    BlockOf <- MCBlockOf
    BlockReward = 10
    MaxBlockVSize = 9
    MaxTxVSize = 5
    CoinbaseVSize = 2
    MinNonCoinbaseVSize = 3
    UintMod = 65536
    Initiator = "init"
    Acceptor = "acc"
    Starts <- DeepStarts
    OtherEvents <- NoOtherEvents
PROPERTIES
    HandoverStorable
