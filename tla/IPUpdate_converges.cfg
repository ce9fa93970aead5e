SPECIFICATION FairSpec
CONSTANTS
    a = a
    b = b
    ip = ip
    d1 = d1
    d2 = d2
    lag0 = lag0
    lag1 = lag1
    lag2 = lag2
    nic = nic
    None = None
    CR = {a}
    Addr = {ip}
    AddrOf <- SharedAddr
    Device = {d1, d2}
    Iface = {lag0, lag2}
    LagNum <- MCLagNum
    InitOwner <- MCInitOwner
    FreshReads = FALSE
    SharedFin = TRUE
    MaxGen = 1
    MaxFaults = 1
    MaxEdits = 2
PROPERTIES
    DeletionCompletes
    EventuallySynced
    ConflictTracked
CHECK_DEADLOCK FALSE
