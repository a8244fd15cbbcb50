\* Two publishers and two subscriptions that come and go.
SPECIFICATION FairSpec
CONSTANTS
    Publisher = {"chain", "peer"}
    Sub = {"s1", "s2"}
    MaxSent <- MCMaxSent
INVARIANTS
    TypeOK
    NoSendOnClosedChannel
PROPERTIES
    ImplementsDelivery
    NothingWithheld
    CloseReturns
CHECK_DEADLOCK FALSE
