CONSTANTS
    c1 = c1
    c2 = c2
    c3 = c3
    a1 = a1
    a2 = a2
    Conns = {c1, c2}
    Addrs = {a1, a2}
    Addr <- MCAddrPair
    Callers = {p1}
    CtxCaller = ctx
    NoJoin = NoJoin
    Releaser = TRUE
    ExclusiveAddrs = TRUE
SPECIFICATION Spec
INVARIANTS
    ShutdownWaitsForHandlers
