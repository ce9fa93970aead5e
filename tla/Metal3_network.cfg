SPECIFICATION FairSpec
CONSTANTS
    x = x
    y = y
    metal3 = metal3
    Order <- OneDevice
    InitDevice <- Active
    Self = metal3
    BlankFiles = FALSE
    PartialFiles = FALSE
    BadFiles = FALSE
    MaxRotations = 1
    MaxRestarts = 0
    MaxFaults = 1
    MaxEdits = 0
PROPERTY
    EventuallyNetworked
