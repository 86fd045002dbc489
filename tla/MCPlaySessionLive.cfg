CONSTANTS
    Protocol = 775
    Apps = {a1}
    Handler = handler
    KeepAlive = keepAlive
    Nobody = nobody
    AppOps <- MCKickOps
    Packs = {r1}
    NoPack = noPack
    Uuid <- MCUuid
    Hash <- MCHash
    NoKey = "none"
    MaxOps = 1
    MaxPackets = 1
    a1 = a1
    a2 = a2
    r1 = r1
    r2 = r2
SPECIFICATION FairSpec
PROPERTIES
    SessionEnds
