\* A connection over which commands of every kind cross, fail, or time out.
SPECIFICATION FairSpec
CONSTANTS
    Initiator = "i"
    Acceptor = "a"
    Events <- MCEvents
INVARIANTS
    TypeOK
    HeardAsSaid
    NoVainWait
PROPERTIES
    LonePeerEnds
    HandlersReturn
CHECK_DEADLOCK FALSE
