CONSTANTS
    Protocols <- MCProtocols
    Modes = {"empty", "offline", "online", "hybrid", "unknown"}
    Answers = {"good", "badToken", "undecodable", "badKey"}
    MaxVersion = 2
    MaxStray = 1
SPECIFICATION FairSpec
INVARIANTS
    TypeOK
    StatesAgree
    IdentityEstablished
    JoinEventAfterSequence
    OneSnapshot
    NothingLost
    AdapterComplete
PROPERTIES
    LoginEnds
