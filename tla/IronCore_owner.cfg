SPECIFICATION FairSpec
CONSTANTS
    x = x
    y = y
    l1 = l1
    l2 = l2
    None = None
    Order <- OneDevice
    InitDevice <- MCInitDevice
    Label = {l1}
    MaxFaults = 1
    MaxEdits = 0
PROPERTY
    EventuallyOwned
