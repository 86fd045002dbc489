CONSTANTS
    Protocol = 775
    Apps = {a1, a2}
    Handler = handler
    KeepAlive = keepAlive
    Nobody = nobody
    AppOps <- MCOps
    Packs = {r1, r2}
    NoPack = noPack
    Uuid <- MCUuid
    Hash <- MCHash
    NoKey = "none"
    MaxOps = 1
    MaxPackets = 1
    a1 = a1
    a2 = a2
    r1 = r1
    r2 = r2
SYMMETRY Symmetry
SPECIFICATION Spec
INVARIANTS
    PacksMatchWire
    NeverAnotherPack
PROPERTIES
    NoCallbackAfterOwnKick
    ImplementsSession
