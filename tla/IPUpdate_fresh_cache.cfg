SPECIFICATION Spec
CONSTANTS
    a = a
    b = b
    ip = ip
    d1 = d1
    d2 = d2
    lag0 = lag0
    lag1 = lag1
    lag2 = lag2
    nic = nic
    None = None
    CR = {a, b}
    Addr = {ip}
    AddrOf <- SharedAddr
    Device = {d1, d2}
    Iface = {lag1, lag2}
    LagNum <- MCLagNum
    InitOwner <- MCInitOwner
    FreshReads = TRUE
    SharedFin = TRUE
    MaxGen = 2
    MaxFaults = 1
    MaxEdits = 0
SYMMETRY Names
INVARIANT
    NoLeak
PROPERTY
    ImplementsGuardedResource
CHECK_DEADLOCK FALSE
