SPECIFICATION FairSpec
CONSTANTS
    x = x
    y = y
    board = board
    extra = extra
    yboard = yboard
    a = a
    b = b
    c = c
    None = None
    NoBMC = NoBMC
    Order <- TwoDevices
    Iface = {board, extra, yboard}
    DeviceOf <- MCDeviceOf
    Addr = {a, b, c}
    Named = {a, c}
    InitLive = {TRUE}
    InitGarden <- MCInitGarden
    InitNames <- MCInitNames
    InitIface <- MCInitIface
    MaxFaults = 1
    MaxEdits = 1
    Claimed = {x}
INVARIANTS
    TypeOK
    ReadyMeansUpdated
PROPERTIES
    EventuallyUpdated
    EventuallyPrimary
    StatusTracks
