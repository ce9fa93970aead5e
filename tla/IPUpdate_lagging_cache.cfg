SPECIFICATION Spec
CONSTANTS
    a = a
    b = b
    ip = ip
    d1 = d1
    d2 = d2
    lag0 = lag0
    lag1 = lag1
    lag2 = lag2
    nic = nic
    None = None
    CR = {a}
    Addr = {ip}
    AddrOf <- SharedAddr
    Device = {d1}
    Iface = {lag1}
    LagNum <- MCLagNum
    InitOwner <- MCInitOwner
    FreshReads = FALSE
    SharedFin = FALSE
    MaxGen = 1
    MaxFaults = 0
    MaxEdits = 0
PROPERTY
    DeletesWhenAssigned
CHECK_DEADLOCK FALSE
