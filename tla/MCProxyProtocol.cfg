CONSTANTS
    Proxies = {x1, x2}
    Peer = x1
    PeerStreams <- NineStreams
    Configs <- OneProxyConfigs
    x1 = x1
    x2 = x2
SPECIFICATION FairSpec
INVARIANTS
    AddressStable
    HeaderBelieved
    NothingSwallowed
    HeaderDeadlineGone
PROPERTIES
    HeaderSettled
