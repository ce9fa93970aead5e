SPECIFICATION FairSpec
CONSTANTS
    x = x
    y = y
    l1 = l1
    l2 = l2
    None = None
    Order <- TwoDevices
    InitDevice <- MCInitDevice
    Label = {l1, l2}
    MaxFaults = 1
    MaxEdits = 1
INVARIANTS
    TypeOK
    ReadyMeansImported
PROPERTIES
    IgnoredUntouched
    EventuallyImported
    StatusTracks
