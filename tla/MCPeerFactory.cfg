\* One seed or none, room for two peers, three connections that come and go.
SPECIFICATION FairSpec
CONSTANTS
    Node = {"n1", "n2"}
    Self = "self"
    Addr = {"a0", "a1", "a2"}
    AddrOf <- MCAddrOf
    Starts <- MCStarts
    Listen = TRUE
    NoAddr = ""
    MaxPeers = 2
    NumTries = 1
    Offers <- MCOffers
    MaxConns = 3
    MaxHead = 1
    MaxReports = 1
    MaxAddrs = 1
INVARIANTS
    TypeOK
    KnownPeersExact
    AddrsOfPeers
    NewPeersMissNothing
PROPERTIES
    SeedsRetried
CHECK_DEADLOCK FALSE
